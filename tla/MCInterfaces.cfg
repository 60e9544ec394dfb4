SPECIFICATION Spec
CONSTANTS
    t1 = t1
    t2 = t2
    Threads = {t1, t2}
    Interfaces = {0, 1}
    Driven = {0}
    NoHelper = NoHelper
    MaxCalls = 4
INVARIANTS LeasesExact ClaimsAgree  
SYMMETRY Symmetry
CHECK_DEADLOCK FALSE
