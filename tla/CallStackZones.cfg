SPECIFICATION Spec
CONSTANTS
    MaxFrames = 5
    MaxStack = 7
    StackSizes = {0, 2}
INVARIANT
    AsManyZonesAsFrames
CHECK_DEADLOCK FALSE
