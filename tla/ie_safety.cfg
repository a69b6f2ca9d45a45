SPECIFICATION LiveSpec
CONSTANTS
    Chunk = {k1, k2, k3}
    Worker = {w1, w2}
    MaxRuns = 2
CHECK_DEADLOCK FALSE
INVARIANTS ExtractionConsistent SettledReadable
PROPERTIES Promise RunEnds
