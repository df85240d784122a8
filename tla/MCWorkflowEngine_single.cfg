CONSTANTS
    Workers = {w1}
    Operators = {o1}
    NoActor = NoActor
    StepCount = 2
    MaxEvents = 16
    MaxRequests = 5
    MaxCrashes = 1
SPECIFICATION FairSpec
INVARIANTS
    CacheIsReplay
PROPERTIES
    NoRerunOfCompleted
    WorkflowFinishes
    RequestsAnswered
CHECK_DEADLOCK FALSE
