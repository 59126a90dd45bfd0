SPECIFICATION Spec
CONSTANTS
    Scenes <- AllScenes
    HueTolerance = 1
    WideSpread = 64
    GrayTolerance = 3
    LightTolerance = 300
INVARIANTS
    EffectsEndExactly
    ColourSurvives
    GrayPathIsGray
    StillGradientKeepsLight
PROPERTIES
    FadeIsMonotone
    PassesDoNotDrift
