CONSTANTS
    r = r
    m = m
    a = a
    none = none
    Hardware <- MCHardware
    Router = r
    Repeaters = {m}
    MeshNodes = {r, m}
    NoDevice = none
    CheckedSeries = 1
    Releases <- MCReleases
    Asks <- MCAsks
    MaxFaults = 2
SPECIFICATION Spec
INVARIANTS
    NoNewerSettings
    FlashedInTurn
    NoneCutOff
    NoteIsOfAFlash
    FirstBootIsTold
PROPERTIES
    OnlyAsAsked
    NoteIsFinished
CHECK_DEADLOCK FALSE
