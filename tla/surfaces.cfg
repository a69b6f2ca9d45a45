SPECIFICATION SurfacesSpec
CONSTANTS
    WebPorts = {1}
    ApiPort = 3
    MaxBoots = 2
    MaxLaunches = 2
    MaxApis = 3
    MaxRestarts = 2
    d1 = d1
    d2 = d2
    Docs = {d1, d2}
    Recent = {d1}
    Matching = {d1}
    NoDoc = none
    MaxReads = 1
    Trips <- MCTrips
    s1 = s1
    s2 = s2
    Sources = {s1, s2}
    NoSource = none
    MaxChanges = 2
    MaxLapses = 1
    MaxGestures = 2
    p1 = p1
    p2 = p2
    Papers = {p1, p2}
    FeedLimit = 2
    FeedEvents = 3
    MaxTicks = 3
    MaxTurns = 2
    r1 = r1
    r2 = r2
    main = main
    util = util
    photo = photo
    data = data
    Roots = {r1, r2}
    NoRoot = none
    Paths = {main, util, photo, data}
    Sort <- MCSort
    MaxEdits = 2
    MaxPicks = 2
    MaxMounts = 2
    MaxTouches = 4
    MaxRefusals = 1
    q6 = q6
    q8 = q8
    Models = {q6, q8}
    NoVerdict = NoVerdict
    AtStart = {{}, {"backend", q6}, {"backend", "ranker", q6, q8}}
    MaxStatusReads = 2
    MaxHands = 3
    MaxDrops = 1
CHECK_DEADLOCK FALSE
INVARIANTS DesktopConsistent RunnerConsistent  ShelfConsistent FolderConsistent SettingsConsistent
PROPERTIES ShelfCatchesUp FetchIsFollowed
