SPECIFICATION Spec
CONSTANTS
    GroupIds = {root, g1, g2}
    Root = root
    NoGroup = NoGroup
    NoAlarm = NoAlarm
    NoInstruction = NoInstruction
    MaxInstructions = 3
    MaxGroups = 4
    MaxMark = 1
    Forever = 2
    MaxDuration = 0
    HalfRange = 2
    MaxLate = 0
    RootRepeats = {0, 2}
    RefreshPeriods = {}
    InitialRefresh = 1
    PlainMarks = {0, 1}
    CallMarks = {0}
    CallRepeats = {0, 1}
    BootTimes = {3}
    MayReset = FALSE
    TimedOps = {}
    TimedMarks = {}
    Durations = {}
    LedPresent = {}
    UnsupportedOps = {}
    Instructions <- Offered
INVARIANTS
    CallTreeIsSound
    DepthIsScanned
    NothingDueAtRest
    RunFailureHasCause
PROPERTIES
    RejectedCallDisturbsNothing
SYMMETRY LabelSymmetry
