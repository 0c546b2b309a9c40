SPECIFICATION Spec
CONSTANTS
    w1 = w1
    w2 = w2
    l1 = l1
    l2 = l2
    Workers <- MCWorkers
    Links <- MCLinks
    MaxVersions = 3
SYMMETRY MCSymmetry
INVARIANTS
    TypeOK
    LifecycleOrder
    GuardedWriteHasItsBase
PROPERTIES
    UndisturbedCallsAreLegal
CHECK_DEADLOCK FALSE
