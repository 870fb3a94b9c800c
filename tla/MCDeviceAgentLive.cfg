CONSTANTS
    MaxWatchdogs = 1
    MaxCalls = 2
    MaxLost = 1
    MaxKills = 0
    MaxCuts = 0
    MaxFailed = 1
    Modes = {"reload", "reboot"}
    Works <- MCWholeWork
    SettleOutlasts = TRUE
SPECIFICATION FairSpec
PROPERTY EndsWhole
CHECK_DEADLOCK FALSE
