SPECIFICATION Spec
CONSTANTS
    w1 = w1
    w2 = w2
    c1 = c1
    c2 = c2
    Worker <- TwoWorkers
    Client <- TwoClients
    Ops <- OneAndPauses
    Chunks = 1
    MaxAttempts = 2
    SlowCommit = FALSE
    MaxJobs = 2
    MaxOps = 3
    MaxCrashes = 1
    MaxFaults = 1
    MaxLost = 1
SYMMETRY Symmetry
CHECK_DEADLOCK FALSE
INVARIANTS RunsConsistent JobsAttended
PROPERTIES SettledForGood
