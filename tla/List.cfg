SPECIFICATION Spec
CONSTANTS
    Values = {v}
    Nil = nil
    Garbage = garbage
    Capacities <- MCCapacities
    Positions <- MCPositions
    MaxLen = 4
INVARIANTS
    TypeOK
    BlockFreedOnce
    ForeachReadsWritten
PROPERTY
    AbstractSpec
