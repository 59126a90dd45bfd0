SPECIFICATION Spec
CONSTANTS
    GroupIds = {root, g1}
    Root = root
    NoGroup = NoGroup
    NoAlarm = NoAlarm
    NoInstruction = NoInstruction
    MaxInstructions = 3
    MaxGroups = 4
    MaxMark = 1
    Forever = 2
    MaxDuration = 2
    HalfRange = 3
    MaxLate = 0
    RootRepeats = {1}
    RefreshPeriods = {}
    InitialRefresh = 1
    PlainMarks = {1}
    CallMarks = {0}
    CallRepeats = {2}
    BootTimes = {5}
    MayReset = TRUE
    TimedOps = {"gradient"}
    TimedMarks = {0}
    Durations = {1, 2}
    LedPresent = {TRUE}
    UnsupportedOps = {}
    Instructions <- Offered
INVARIANTS
    TypeOK
    ExecutingIsSound
    RootOutlivesItsWork
    WakeUpIsInTime
PROPERTIES
    TimedWorkTakesItsDuration
    ImplementsLifecycle
