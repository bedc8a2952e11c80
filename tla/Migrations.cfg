SPECIFICATION Spec
CONSTANTS
    Files <- CoreFiles
    Origins <- AnyOrigin
    Scopes <- BlanketOrScoped
    Strict = FALSE
    MaxRuns = 2
    MaxFaults = 1
INVARIANTS RunsAreSafe ExpirationsRecoverable
PROPERTIES SeededIsNotReplayed BootsAfterDone
