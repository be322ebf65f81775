SPECIFICATION FairSpec
CONSTANTS
    Conn = {c1, c2}
    StreamIds = {s1, s2}
    MaxRequests = 2
    NoConn = NoConn
    SlotMax <- SlotMaxSmall
INVARIANTS
    SlotsAccounted
    OpenHoldsSlot
    StreamsOwned
    ActiveAccounted
    NoLostDrain
    DrainedIsEmpty
PROPERTIES
    ExpensiveSlotReturned
    DrainCompletes
    ImplementsSlotPool
