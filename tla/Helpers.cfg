SPECIFICATION Spec
CONSTANTS
    Unnumbered = Unnumbered
    MaxLen = 4
    MaxNumber = 4
    MaxEvents = 4
    Cores = 2
    SampleCount = 4
    LinuxSlack = 2
    WindowsSlack = 1
    Mega = 2
    Period = 6
    Values = {0, 8, 11, 12, 14}
    MaxPoints = 2
    Hits = {{"level"}, {"level", "id"}}
    MaxHiccups = 2
    Hangs = {7, 200}
    Retries = 5
    Minutes = 5
    maxRetries = 3
    Timeout = 30
    maxRounds = 2
    Nodes = {n1, n2}
    Tests = {t1, t2}
    GateTimeout = 4
    GateInterval = 2
    NodeInfo = NodeInfo
    NoAnswer = NoAnswer
    NoCall = NoCall
    Interval = 3
    Minute = 6
    Duration = 12
    Slow = {0, 1, 2, 4}
    MaxHolds = 2
    MaxFaults = 2
CHECK_DEADLOCK FALSE
INVARIANTS
    TypeOK LogChecksExact ErrorsExact PacketComplete GaveUpPatiently WaitsAreBounded
    SeenIsThere LoadIsSteady
PROPERTY WaitsEnd
