SPECIFICATION ParseSpec
CONSTANTS
    Alphabets <- MCAlphabets
    Hash <- MCHash
    InputSize = 6
    CaptureSize = 4
    IntSize = 4
    LongSize = 64
    RealSize = 1
    RealZeros = 0
    NumChildren = 2
    FirstCapacity = 1
    Nothing = nothing
    End = end
    Failure = failure
    Garbage = garbage
INVARIANTS
    ParseTypeOK
    ReadsAsGrammar
    InternedOnce
PROPERTIES
    Terminates
CHECK_DEADLOCK FALSE
