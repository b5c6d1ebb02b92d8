\* The referent of a weak reference moves, kept alive by another field.
SPECIFICATION Spec
CONSTANTS
    r = r
    a = a
    b = b
    m = m
    plain = plain
    weak = weak
    chars = chars
    objects = objects
    Workers = {w1, w2}
    Objects <- MCObjects
    Classes <- MCClasses
    ObjectArray = objects
    PrimitiveArrays = {chars}
    WeakClasses = {weak}
    WeakField = 1
    Heaps <- MCHeaps
    Null = Null
    Thin = Thin
INVARIANTS
    ReferentsFollow
CHECK_DEADLOCK FALSE
