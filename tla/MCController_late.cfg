SPECIFICATION Spec
CONSTANTS
    GroupIds = {root, g1}
    Root = root
    NoGroup = NoGroup
    NoAlarm = NoAlarm
    NoInstruction = NoInstruction
    MaxInstructions = 2
    MaxGroups = 3
    MaxMark = 1
    Forever = 2
    MaxDuration = 2
    HalfRange = 5
    MaxLate = 1
    RootRepeats = {0, 1}
    RefreshPeriods = {0, 1}
    InitialRefresh = 2
    PlainMarks = {1}
    CallMarks = {0}
    CallRepeats = {0, 2}
    BootTimes = {8}
    MayReset = FALSE
    TimedOps = {"fade"}
    TimedMarks = {0}
    Durations = {0, 2}
    LedPresent = {TRUE, FALSE}
    UnsupportedOps = {"test"}
    Instructions <- Offered
INVARIANTS
    WakeUpIsInTime
    WritesAreShown
PROPERTIES
    NoRepeatInZeroTime
