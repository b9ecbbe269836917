SPECIFICATION Spec
CONSTANTS
    MaxFrames = 5
    MaxStack = 7
    StackSizes = {0, 2}
INVARIANTS
    TypeOK
    VmRunsInItsZone
    ReturnZonesOpen
    NativeKeepsFrameAndZone
CHECK_DEADLOCK FALSE
