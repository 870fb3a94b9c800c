CONSTANTS
    Nobody = Nobody
    Reader = Reader
    Proc <- MCProc
    Lock <- MCLock
    Bounds <- MCTogether
    UiRun = {u1, u2}
    CliRun = {}
    Action = {a1, a2, a3}
SPECIFICATION FairSpec
INVARIANT OneAction
PROPERTY StartsAtLast
CHECK_DEADLOCK FALSE
