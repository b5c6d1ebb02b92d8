SPECIFICATION Spec
CONSTANTS
    Mutators = {m1, m2}
    MaxCycles = 1
INVARIANT
    MovesOnlyWhenStopped
