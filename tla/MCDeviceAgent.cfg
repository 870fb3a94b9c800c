CONSTANTS
    MaxWatchdogs = 2
    MaxCalls = 2
    MaxLost = 1
    MaxKills = 1
    MaxCuts = 1
    MaxFailed = 1
    Modes = {"reload-then-reboot"}
    Works <- MCWorks
    SettleOutlasts = TRUE
SPECIFICATION Spec
INVARIANTS
    TypeOK
    DisarmedStays
    KeptIsMarked
    RolledBackIsWhole
    RestartRestores
PROPERTIES
    MarkedWasCommitted
    DisarmedOnEvidence
CHECK_DEADLOCK FALSE
