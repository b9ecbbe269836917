SPECIFICATION Spec
CONSTANTS
    o1 = o1  o2 = o2  o3 = o3 
    cache = cache
    Obj <- MCObj
    Cache = cache
    MaxLevel = 2
    MaxRefs = 1
SYMMETRY Symm
INVARIANTS
    TypeOK
    NoYoungerReference
    NothingDangles
