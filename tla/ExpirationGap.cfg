SPECIFICATION Spec
CONSTANTS
    Files <- CoreFiles
    Origins = {"legacy"}
    Scopes <- BlanketOrScoped
    Strict = FALSE
    MaxRuns = 2
    MaxFaults = 1
INVARIANT GapIsNotServed
