SPECIFICATION LiveSpec
CONSTANTS
    w1 = w1
    w2 = w2
    c1 = c1
    c2 = c2
    Worker <- TwoWorkers
    Client <- OneClient
    Ops <- Deleting
    Chunks = 1
    MaxAttempts = 2
    SlowCommit = FALSE
    MaxJobs = 1
    MaxOps = 2
    MaxCrashes = 1
    MaxFaults = 1
    MaxLost = 1
CHECK_DEADLOCK FALSE
PROPERTIES WorkRests
