SPECIFICATION Spec
CONSTANTS
    Labels = {"a", "b"}
    Chains <- RootForks
    SafeDepth = 1
    MaxHaltRows = 1
    MaxUnacked = 1
    Crashes = FALSE
    HealthProbes = TRUE
    Operator = TRUE
INVARIANTS DeleteWithinWindow NoRollbackUnderHalt
PROPERTY ParkHolds
