CONSTANTS
    r = r
    wan = wan
    c = c
    s = s
    ap = ap
    Device = {r}
    Router = r
    Line = {wan}
    Service = {s}
    Client = {c}
    Access = {ap}
    Named = {}
    Private = {}
    Slack = 1
    KeptFor = 20
    KeptMost = 4
    MovesFor = 20
    MovesKept = 3
    ForgetAfter = 20
    NewFor = 20
    Settling = 1
    Watched = 1
    Unwatched = 2
    Watching = 3
    SnapshotFresh = 4
    Bucket = 2
    MonthBucket = 4
    Hour = 2
    ReadTakes = 1
    BootTakes = 1
    MaxTime = 10
    BusyUntil = 5
    Bounds <- MCBounds
SPECIFICATION Spec
INVARIANTS
    ToldInTurn
    ToldOnce
    MovesInTurn
    OutageTold
    SnapshotStaysFresh
    AtMostAnHour
CHECK_DEADLOCK FALSE
