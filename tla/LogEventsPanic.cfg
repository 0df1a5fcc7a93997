SPECIFICATION Spec
CONSTANTS
    Unnumbered = Unnumbered
    MaxLen = 4
    MaxNumber = 4
CHECK_DEADLOCK FALSE
INVARIANT SkippedNotFatal
