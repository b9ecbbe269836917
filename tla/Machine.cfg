\* A family of small programs, and those under examples/.
CONSTANTS
    Programs <- MCPrograms
    Limit <- MCLimit
    StackEnd = 56
    FramesEnd = 8
SPECIFICATION Spec
CHECK_DEADLOCK FALSE
INVARIANTS LoopTypeOK StackInFrame CodeVerified MeaningKept
