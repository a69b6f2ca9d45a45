CONSTANTS
    s1 = s1
    s2 = s2
    t1 = t1
    t2 = t2
    None = None
    Sessions = {s1, s2}
    Threads = {t1, t2}
    MaxSessions = 1
    MaxMessages = 3
    PageSize = 2
    OldTurns = 1
    Scenarios <- MCScenarios
SPECIFICATION FairSpec
CHECK_DEADLOCK FALSE
INVARIANTS RuntimeConsistent StreamExact NoTurnTwice
PROPERTIES StopEnds
