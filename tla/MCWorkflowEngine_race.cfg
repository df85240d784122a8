CONSTANTS
    Workers = {w1,w2}
    Operators = {o1}
    NoActor = NoActor
    StepCount = 2
    MaxEvents = 5
    MaxRequests = 5
    MaxCrashes = 0
SPECIFICATION Spec
INVARIANTS
    CountInv
    StatusMatchesHistory
    CompletionsInOrder
    CompletedMeansAllSteps
    RecordsBacked
    OneStartAfterStop
PROPERTY ImplementsLog
SYMMETRY Symmetry
CHECK_DEADLOCK FALSE
