SPECIFICATION Spec
CONSTANTS
    MaxFrames = 5
    MaxStack = 7
    StackSizes = {0, 2}
PROPERTY
    ResultOfOwnCall
CHECK_DEADLOCK FALSE
