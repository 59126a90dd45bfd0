SPECIFICATION Spec
CONSTANTS
    ByteRange = 16
    kMaxHandlers = 15
    Capacity = 2
    Seeds = {0, 7}
    Commands <- SampleCommands
    MaxFrames = 3
INVARIANTS
    CallsServeTheHost
CHECK_DEADLOCK FALSE
