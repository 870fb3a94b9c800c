CONSTANTS
    MaxWatchdogs = 1
    MaxCalls = 2
    MaxLost = 0
    MaxKills = 0
    MaxCuts = 1
    MaxFailed = 1
    Modes = {"reload-then-reboot"}
    Works <- MCWholeWork
    SettleOutlasts = TRUE
SPECIFICATION Spec
INVARIANT RestartRewinds
CHECK_DEADLOCK FALSE
