\* Threads start and exit around and during two collections.
SPECIFICATION Spec
CONSTANTS
    t1 = t1
    t2 = t2
    t3 = t3
    Threads <- MCThreads
    Early <- MCEarly
    MaxCollections = 2
    None = None
INVARIANTS
    TypeOK
    WalkExact
    PreparedExact
    NoDangling
PROPERTIES
    CollectionsEnd
CHECK_DEADLOCK FALSE
