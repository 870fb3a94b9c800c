CONSTANTS
    Nobody = Nobody
    Reader = Reader
    Proc <- MCProc
    Lock <- MCLock
    Bounds <- MCUntouched
    UiRun = {u1, u2, u3}
    CliRun = {}
    Action = {}
SPECIFICATION Spec
INVARIANT TwoNeverStart
CHECK_DEADLOCK FALSE
