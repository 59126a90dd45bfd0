SPECIFICATION FairSpec
CONSTANTS
    GroupIds = {root, g1}
    Root = root
    NoGroup = NoGroup
    NoAlarm = NoAlarm
    NoInstruction = NoInstruction
    MaxInstructions = 3
    MaxGroups = 4
    MaxMark = 1
    Forever = 2
    MaxDuration = 1
    HalfRange = 2
    MaxLate = 0
    RootRepeats = {1}
    RefreshPeriods = {}
    InitialRefresh = 1
    PlainMarks = {1}
    CallMarks = {0}
    CallRepeats = {0, 2}
    BootTimes = {3}
    MayReset = FALSE
    TimedOps = {"fade"}
    TimedMarks = {0}
    Durations = {1}
    LedPresent = {FALSE, TRUE}
    UnsupportedOps = {}
    Instructions <- Offered
PROPERTIES
    RunReturns
    FiniteProgramCompletes
