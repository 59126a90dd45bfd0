SPECIFICATION Spec
CONSTANTS
    GroupIds = {root, g1, g2, g3}
    Root = root
    MaxInstructions = 4
    MaxGroups = 5
    MaxMark = 2
    Forever = 3
    MaxDuration = 1
    RootRepeats = {0, 3}
INVARIANTS
    TableHoldsEveryLabelInOrder
    PoolIsStableMarkOrder
    AcceptsExactlyWellFormed
CHECK_DEADLOCK FALSE
SYMMETRY LabelSymmetry
