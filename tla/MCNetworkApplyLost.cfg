CONSTANTS
    N = 1
    Window = 3
    MinConfirm = 1
    Margin = 1
    Mode = "reload-then-reboot"
    Plans = {{}, {1}}
    MaxLost = 2
    MaxKills = 0
SPECIFICATION Spec
INVARIANT RolledBackKeepsNothing
CHECK_DEADLOCK FALSE
