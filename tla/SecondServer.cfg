CONSTANTS
    Server = {0, 1}
    MAXOPSET = 3
    MAX_OPS = 2
    RunTimes = {0}
    MayFail = FALSE
    UIntRange = 16
    NoOp = NoOp
    Conn = {c1}
    OpsPerServer = 2
SPECIFICATION FairSpec
PROPERTIES Executes
CHECK_DEADLOCK FALSE
