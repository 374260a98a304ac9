SPECIFICATION Spec
CONSTANTS
    Device = {d1}
    d1 = d1
    Floor = 1
    Limit = 1
    FirstStart = "beginning"
    MaxEvents = 2
    MaxMoves = 0
    MaxExpiries = 1
    MaxFaults = 1
INVARIANT ResetAnnounced
