SPECIFICATION FairSpec
CONSTANTS
    Labels = {"a", "b"}
    Chains <- ShortForks
    SafeDepth = 1
    MaxHaltRows = 1
    MaxUnacked = 0
    Crashes = FALSE
    HealthProbes = FALSE
    Operator = FALSE
PROPERTY CatchesUp
