CONSTANTS
    r1 = r1
    u1 = u1
    u2 = u2
    None = None
    Runs    = {r1}
    Purgers = {u1, u2}
    Rank   <- MCRank
    Locked <- MCLocked
    Old    <- MCOld
    Start   = 2
    MaxTime = 4
    Fresh   = 1
    MaxAge  = 1
    Budget  = 2
SPECIFICATION FairSpec
PROPERTY NeverPurgeInFlight
PROPERTY NoOverPurge
PROPERTY StopEndsRun
