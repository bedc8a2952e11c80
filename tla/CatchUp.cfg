SPECIFICATION FairSpec
CONSTANTS
    Labels = {"a", "b"}
    Chains <- EvenForks
    SafeDepth = 1
    MaxHaltRows = 1
    MaxUnacked = 0
    Crashes = FALSE
    HealthProbes = FALSE
    Operator = TRUE
PROPERTIES CatchesUpOrAdrift ResumesAfterClear ImplementsStore
