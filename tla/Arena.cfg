SPECIFICATION Spec
CONSTANTS
    a1 = a1  a2 = a2
    c1 = c1  c2 = c2  c3 = c3
    Arenas <- MCArenas
    Chunks <- MCChunks
    ChunkSize = 8
    Header = 3
    Requests <- MCRequests
    MaxSnaps = 2
SYMMETRY Symm
INVARIANTS
    TypeOK
    ChunkOnOneList
    BlocksSafe
    SnapshotsRestorable
