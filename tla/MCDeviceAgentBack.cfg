CONSTANTS
    MaxWatchdogs = 1
    MaxCalls = 2
    MaxLost = 0
    MaxKills = 0
    MaxCuts = 0
    MaxFailed = 1
    Modes = {"reload-then-reboot"}
    Works <- MCWholeWork
    SettleOutlasts = TRUE
SPECIFICATION Spec
INVARIANT RolledBackRewinds
CHECK_DEADLOCK FALSE
