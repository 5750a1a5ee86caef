CONSTANTS
    r1 = r1
    r2 = r2
    r3 = r3
    a1 = a1
    a2 = a2
    a3 = a3
    NoAddr = NoAddr
    Request <- MCRequest
    Addr <- MCAddr
    Limit = 1
    Window = 2
    Threshold = 2
    DayLength = 2
    MaxTime = 3
    MaxFaults = 1
    MaxRestarts = 1
SPECIFICATION Spec
INVARIANTS TypeOK BurstBounded CounterHasHorizon ReportedOnce PositionsExact
SYMMETRY Symmetry
CHECK_DEADLOCK FALSE
