\* Two calls of mmtk_init may both return.
SPECIFICATION Spec
CONSTANTS
    Callers = {c1, c2, c3}
    Controller = controller
    Workers = {w1}
    Sizes <- MCSizes
    MaxGcInits = 2
    MaxRequests = 1
    NoOne = NoOne
INVARIANTS
    InitOnce
CHECK_DEADLOCK FALSE
