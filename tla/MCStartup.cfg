\* Every call ends, and a process stops when all of them have.
SPECIFICATION Spec
CONSTANTS
    Callers = {c1, c2, c3}
    Controller = controller
    Workers = {w1}
    Sizes <- MCSizes
    MaxGcInits = 2
    MaxRequests = 1
    NoOne = NoOne
INVARIANTS
    TypeOK
    OptionsWhole
    LateInitPanics
PROPERTIES
    CallsEnd
    RequestsAnswered
CHECK_DEADLOCK FALSE
