CONSTANTS
    Plan <- Levels
    Queries <- One
    MaxElements = 2
    TimeSlice = 2
    Idle = Idle
    Failed = Failed
SPECIFICATION Spec
INVARIANTS MinusAfterPlus
