SPECIFICATION Spec
CONSTANTS
    Graphs <- MCGraphs
    Places = {p1, p2, p3}
    p1 = p1  p2 = p2  p3 = p3
    Targets = {0, 1}
    Immediate <- MCImmediate
    Nil = nil
    Tombstone = tombstone
    Garbage = garbage
    NoResult = none
INVARIANTS
    TypeOK
    CopiesAreOld
PROPERTIES
    Terminates
    AbstractSpec
CHECK_DEADLOCK FALSE
