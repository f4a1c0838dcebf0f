CONSTANTS
    Server = {0, 1, 2}
    MAXOPSET = 3
    MAX_OPS = 2
    RunTimes = {0, 2}
    MayFail = TRUE
    UIntRange = 16
    NoOp = NoOp
    Conn = {c1}
    OpsPerServer = 3
SPECIFICATION FairSpec
INVARIANTS TypeOK SetsCounted StoppedMeansEmpty
PROPERTIES FirstExecutes ResetAloneCompletes DeletedOnRequest
CHECK_DEADLOCK FALSE
