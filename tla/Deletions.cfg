CONSTANTS
    Plan <- AllPlans
    Queries <- Deletions
    MaxElements = 1
    TimeSlice = 2
    Idle = Idle
    Failed = Failed
SPECIFICATION FairSpec
INVARIANTS CopiesAsCounted
CHECK_DEADLOCK FALSE
