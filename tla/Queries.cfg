CONSTANTS
    Plan <- AllPlans
    Queries <- EachQuery
    MaxElements = 1
    TimeSlice = 2
    Idle = Idle
    Failed = Failed
SPECIFICATION FairSpec
INVARIANTS TypeOK RefsCounted MinusAfterPlus MeansWhatItSays OnlyOutsidersFail
PROPERTIES PromisesKept Delivered ExpiryDelivered Answered
CHECK_DEADLOCK FALSE
