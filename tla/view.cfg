SPECIFICATION ViewSpec
CONSTANTS
    SceneSources = {"A", "B"}
    DeepestPlace = 3
    SceneTrips <- MCTrips
    ReadNodes = {1, 2, 3, 4}
    ReadEvents = {1, 2}
    ReadLinks <- MCReadLinks
    ReadBudget = 3
    ReadCards = 1
    ReadTrips <- MCReadTrips
    s1 = s1
    s2 = s2
    none = none
    Sessions = {s1, s2}
    NoSession = none
    MaxRuns = 2
    MaxSearches = 1
    MaxPlays = 2
    n1 = n1
    n2 = n2
    doc = doc
    t1 = t1
    Nodes = {n1, n2}
    Papers = {doc}
    Threads = {t1}
    Draft = draft
    None = none
    PatchLimit = 1
    TrailLimit = 2
    FetchLimit = 2
    Events = 4
CHECK_DEADLOCK FALSE
INVARIANTS SceneConsistent  PetConsistent PanelConsistent
PROPERTIES RestoredViewHolds ReturnArrives RunEndIsTold
