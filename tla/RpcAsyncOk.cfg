SPECIFICATION Spec
CONSTANTS
    Request = {r1}
    MaxRestarts = 0
INVARIANTS
    OkMeansAccepted
