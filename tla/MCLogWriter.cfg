CONSTANTS
    Hit = {h1, h2, h3}
    NoHit = NoHit
    Capacity = 1
SPECIFICATION FairSpec
INVARIANTS TypeOK SignalledHasRow PanicOnlyAfterTimeout DrainsWhatWasQueued
PROPERTIES HandlersReturn QueueMoves SignalEnds ImplementsSink
CHECK_DEADLOCK FALSE
