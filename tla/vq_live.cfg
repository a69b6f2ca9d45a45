SPECIFICATION FairSpec
CONSTANTS
    Event = {e1, e2}
    Enqueuer = {p1, p2}
    Kind = "event_sync"
    BatchSize = 2
    ReconcileBatch = 2
    MaxAttempts = 2
    TailFlush = FALSE
    MaxJobs = 6
    MaxSaves = 1
    MaxCrashes = 1
    MaxFaults = 0
CHECK_DEADLOCK FALSE
PROPERTIES QueueSettles
