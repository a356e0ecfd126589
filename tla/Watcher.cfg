SPECIFICATION MCSpec
CONSTANTS
    M = 2
    e1 = e1
    mailWatch = mailWatch
    eventWatch = eventWatch
    Events = {e1}
    Loops = {mailWatch, eventWatch}
    Watched <- MCWatched
    PoisonCap = 2
    MaxChanges = 3
    MaxFaults = 1
INVARIANTS TypeOK NewIsStored MatchBound
PROPERTIES WatchEndsWithEvent CursorCatchesUp
