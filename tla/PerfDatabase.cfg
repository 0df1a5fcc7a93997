SPECIFICATION Spec
CONSTANTS
    Validators = {r100, r1000}
    Retries = 1
    Rounds = 2
    NoItem = NoItem
CHECK_DEADLOCK FALSE
INVARIANT ResultsKept
