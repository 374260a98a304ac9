SPECIFICATION FairSpec
CONSTANTS
    Device = {d1}
    d1 = d1
    Floor = 1
    Limit = 1
    FirstStart = "beginning"
    MaxEvents = 3
    MaxMoves = 2
    MaxExpiries = 1
    MaxFaults = 1
INVARIANT TypeOK
INVARIANT NothingSkipped
INVARIANT CursorsServable
INVARIANT NoLostWakeup
PROPERTY EventsArrive
