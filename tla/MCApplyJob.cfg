CONSTANTS
    Nobody = Nobody
    Reader = Reader
    Proc <- MCProc
    Lock <- MCLock
    Bounds <- MCThreeOrEach
    UiRun = {u1, u2, u3}
    CliRun = {c1}
    Action = {a1}
SPECIFICATION Spec
SYMMETRY Symmetry
INVARIANTS
    OneApply
    LiveIsLast
    ActionsApart
    LiveWasApplied
PROPERTIES
    InterruptedIsSo
CHECK_DEADLOCK FALSE
