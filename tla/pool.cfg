SPECIFICATION Spec
CONSTANTS
    w1 = w1
    w2 = w2
    w3 = w3
    a = a
    b = b
    None = None
    Workers <- MCWorkers3
    Callers <- MCCallers
    Capacity = 2
\* Once every worker was removed nothing is left to do.
CHECK_DEADLOCK FALSE
INVARIANTS TypeOK OneHome
PROPERTIES  KeepsLeases
