CONSTANTS
    MAX_OPS = 24
    Tables <- BaseTables
    Queries <- FirstQueries
    After <- Alike
    View = "V"
    MaxQueries = 2
SPECIFICATION Spec
INVARIANTS AnswersKept
CHECK_DEADLOCK FALSE
