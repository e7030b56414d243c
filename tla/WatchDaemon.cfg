SPECIFICATION FairSpec
CONSTANTS
    Daemons = {d1, d2}
    NoPid = nopid
    MaxFails = 1
INVARIANTS CompletedIsOver
PROPERTIES StopEnds DeathShown
CHECK_DEADLOCK FALSE
