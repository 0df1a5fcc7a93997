SPECIFICATION Spec
CONSTANTS
    StandardRetries = 3
    Minute = 2
    Settle = 4
    Pause = 2
    Shutdown = 1
    ShortPeriod = 2
    LongPeriod = 10
    Lag = 1
INVARIANTS TypeOK WindowPure FileIntact HealthyPasses PassIsEarned OnTime
