SPECIFICATION Spec
CONSTANTS
    numReaders = 3
    numPages = 2
    numElementsPerPage = 2
    Tuple = {t1, t2}
    Heartbeat = Heartbeat
SYMMETRY TupleSymmetry
INVARIANTS
    TypeOK
    SlowestLagsMost
    CountersBounded
    RefsCounted
PROPERTY ImplementsBroadcast
