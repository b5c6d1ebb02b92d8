\* The scan of the roots: complete, sound and finite.
SPECIFICATION Spec
CONSTANTS
    t1 = t1
    t2 = t2
    cls = cls
    mon = mon
    weak = weak
    VmRoots = VmRoots
    Uninit = Uninit
    Objects <- MCObjects
    HeapStart = 8
    HeapEnd = 24
    Alignment = 4
    Classes <- MCClasses
    ClassOf <- MCClassOf
    WeakClasses = {weak}
    MutatorThreads <- MCThreads
    Memories <- MCMemories
    WorkPacketCapacity = 2
    MaxSlack = 0
    MaxHanded = 60
INVARIANTS
    TypeOK
    RootsComplete
    RootsSound
    NoReentry
PROPERTIES
    PacketsEnd
CHECK_DEADLOCK FALSE
