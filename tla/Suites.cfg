SPECIFICATION Spec
CONSTANTS
    Runs = 2
    Kinds = {"good", "bare", "eager", "lax", "fallback"}
    MaxPolls = 2
    MaxRetries = 1
    MaxLeft = 2
    Words = {"", "EMF", "diskIOEBS ", "emff"}
    MaxTraces = 3
    MaxOld = 1
    BatchSize = 2
    StandardRetries = 2
    MaxRuns = 2
CHECK_DEADLOCK FALSE
INVARIANTS
    TypeOK SetupIsOwn PassIsEarned CommandsUndisturbed HarnessHomeClean LeavesNothing
    SelectionIsExact
PROPERTIES
    FailureIsEarned WaitsEnd
