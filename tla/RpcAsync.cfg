SPECIFICATION FairSpec
CONSTANTS
    Request = {r1, r2}
    MaxRestarts = 2
INVARIANTS
    CallbackOnce
    ListExact
    SubmittedOnce
PROPERTIES
    SecondRefusalIsNew
    RequestEnds
