SPECIFICATION Spec
CONSTANTS
    k1 = k1  k2 = k2  k3 = k3
    v1 = v1  v2 = v2
    nil = nil  null = null  tombstone = tombstone
    Keys <- MCKeys
    Values = {v1, v2}
    Nil = nil
    Tombstone = tombstone
    Places <- MCPlaces
    Path <- MCPath
    Null = null
INVARIANTS
    TypeOK
    KeyReachable
PROPERTIES
    VisitedOnce
    AbstractSpec
