CONSTANTS
    capacity = 1
    MaxLines = 2
    BUF_SIZE = 3
    NL = NL
    NoChar = NoChar
    Char = {1, 2, NL}
SPECIFICATION FairSpec
INVARIANTS DeliveredInOrder InputOutlivesEngine
PROPERTIES WrittenIsDelivered TuplesAnswered CommandEnds
CHECK_DEADLOCK FALSE
