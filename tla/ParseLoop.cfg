SPECIFICATION Spec
CONSTANTS
    Labels = {"a", "b"}
    Chains <- DeepForks
    SafeDepth = 1
    MaxHaltRows = 1
    MaxUnacked = 0
    Crashes = TRUE
    HealthProbes = TRUE
    Operator = FALSE
CONSTRAINT NotOvertaken
INVARIANTS TypeOK Linked DepthIsDurable CondemnedStaysHalted TwoWindows LagIsHarmless
PROPERTY CondemnedNotExtended
