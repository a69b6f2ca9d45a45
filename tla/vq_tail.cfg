SPECIFICATION Spec
CONSTANTS
    Event = {e1, e2, e3, e4}
    Enqueuer = {p1, p2}
    Kind = "event_sync"
    BatchSize = 3
    ReconcileBatch = 2
    MaxAttempts = 1
    TailFlush = TRUE
    MaxJobs = 2
    MaxSaves = 2
    MaxCrashes = 0
    MaxFaults = 1
SYMMETRY Symmetry
CHECK_DEADLOCK FALSE
INVARIANTS BatchBounded
