\* The roots buffer: bounds, ownership of the lent Vecs, and no root lost.
SPECIFICATION Spec
CONSTANTS
    Objects = {o1, o2}
    Uninit = Uninit
    WorkPacketCapacity = 2
    MaxSlack = 1
    MaxHanded = 5
    MaxClosures = 2
INVARIANTS
    TypeOK
    InBounds
    Ownership
PROPERTIES
    FullPackets
    Reporting
CHECK_DEADLOCK FALSE
