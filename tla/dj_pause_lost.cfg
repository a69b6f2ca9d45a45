SPECIFICATION Spec
CONSTANTS
    w1 = w1
    w2 = w2
    c1 = c1
    c2 = c2
    Worker <- TwoWorkers
    Client <- OneClient
    Ops <- PauseResume
    Chunks = 2
    MaxAttempts = 2
    SlowCommit = FALSE
    MaxJobs = 1
    MaxOps = 1
    MaxCrashes = 0
    MaxFaults = 0
    MaxLost = 0
PROPERTY PauseKept
CHECK_DEADLOCK FALSE
