SPECIFICATION GateSpec
CONSTANTS
    None = None
    c1 = c1  c2 = c2
    Clients = {c1, c2}
    Rate = 2
    Every = 2
    FeedRate = 1
    FeedEvery = 3
    MaxIdle = 3
    Horizon = 4
SYMMETRY Symmetry
CHECK_DEADLOCK FALSE
INVARIANTS TypeOK BurstBound RefusedForCause
PROPERTY TwoLimiters
