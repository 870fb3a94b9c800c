CONSTANTS
    Page = {p1, p2}
    First <- MCFirst
    Backup <- MCBackup
    PlainValue = {2, 3}
    ItemValue = {2}
    NewItem <- MCNewItem
    Bounds <- MCBounds

SYMMETRY Tabs
SPECIFICATION Spec
INVARIANT NoneOnceSaved
CHECK_DEADLOCK FALSE
