CONSTANTS
    Hit = {h1, h2}
    NoHit = NoHit
    Capacity = 1
SPECIFICATION FairSpec
INVARIANT ShutdownDrains
CHECK_DEADLOCK FALSE
