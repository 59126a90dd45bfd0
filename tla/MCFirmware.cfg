SPECIFICATION FairSpec
CONSTANTS
    LedCount = 2
    Rainbow <- RedYellow
    kMailboxCapacity = 4
    kMaxInstruction = 2
    Setups <- AllSetups
INVARIANTS
    WakeUpsArePosted
    RestShowsStaged
    BootLightsEveryPixel
    StartedProgramIsWhole
PROPERTIES
    FramesAreTaken
    ProgramsComplete
CHECK_DEADLOCK FALSE
