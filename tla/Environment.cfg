SPECIFICATION Spec
CONSTANTS
    f1 = f1  f2 = f2  f3 = f3  f4 = f4
    Finalizers = {f1, f2, f3, f4}
    Sizes = {1, 2}
    MaxBlocks = 2
    MaxZones = 3
    MaxPast = 2
SYMMETRY Symm
INVARIANTS
    TypeOK
    ContextsApart
    FinalizedOnce
CHECK_DEADLOCK FALSE
