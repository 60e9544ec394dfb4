SPECIFICATION Spec
CONSTANTS
    Callers = {c1}
    MaxCalls = 1
    MaxBytes = 2
    MaxFaults = 0
INVARIANT TimeoutMeansNothingArrived
CHECK_DEADLOCK FALSE
