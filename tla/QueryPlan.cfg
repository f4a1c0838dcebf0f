CONSTANTS
    MAX_OPS = 24
    Tables <- BaseTables
    Queries <- FirstQueries
    After <- SecondQueries
    View = "V"
    MaxQueries = 2
SPECIFICATION Spec
INVARIANTS WellWired AnswersKept StubsSeeAll QueuesConnect TuplesAsMeant
CHECK_DEADLOCK FALSE
