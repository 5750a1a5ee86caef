CONSTANTS
    p1 = p1
    a1 = a1
    Page <- MCPage
    Addr <- MCAddr
    MaxConns = 2
    GiveUp = 2
    MaxTotal = 2
    MaxPerIP = 1
    MaxRows = 2
SPECIFICATION FairSpec
INVARIANTS TypeOK SlotsMatchStreams SubsMatchStreams NoLostWakeup
PROPERTIES OwedIsShown PollingCatchesUp SlotsComeBack
CHECK_DEADLOCK FALSE
