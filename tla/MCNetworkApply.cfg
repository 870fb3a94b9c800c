CONSTANTS
    N = 2
    Window = 3
    MinConfirm = 1
    Margin = 1
    Mode = "reload-then-reboot"
    Plans = {{1}, {2}}
    MaxLost = 2
    MaxKills = 1
SPECIFICATION FairSpec
INVARIANTS
    TypeOK
    CountsOnNoMore
    KeptHolds
    WayBack
    PartialHasCause
    ToldTruly
PROPERTIES
    Implements
    EndsTogether
CHECK_DEADLOCK FALSE
