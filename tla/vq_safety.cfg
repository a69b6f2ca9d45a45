SPECIFICATION Spec
CONSTANTS
    Event = {e1, e2}
    Enqueuer = {p1, p2}
    Kind = "event_sync"
    BatchSize = 2
    ReconcileBatch = 2
    MaxAttempts = 2
    TailFlush = FALSE
    MaxJobs = 4
    MaxSaves = 2
    MaxCrashes = 1
    MaxFaults = 0
SYMMETRY Symmetry
CHECK_DEADLOCK FALSE
INVARIANTS ItemsConsistent InflightIsHeld NoRecordForgotten
 
