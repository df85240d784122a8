CONSTANTS
    Workers = {w1}
    Operators = {o1,o2}
    NoActor = NoActor
    StepCount = 1
    MaxEvents = 6
    MaxRequests = 6
    MaxCrashes = 0
SPECIFICATION Spec
PROPERTY EscalatedNotResumed
CHECK_DEADLOCK FALSE
