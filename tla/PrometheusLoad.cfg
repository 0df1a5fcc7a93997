SPECIFICATION PlSpec
CONSTANTS
    StandardRetries = 3
    MaxRuns = 2
CHECK_DEADLOCK FALSE
INVARIANT VerifiedLoad
