SPECIFICATION FairSpec
CONSTANTS
    StandardRetries = 3
    PageSize = 2
    MaxEmpty = 1
    NoToken = NoToken
    Unnumbered = Unnumbered
    AgentKinds = {"exact", "resend", "restamp", "skip"}
    MaxSeq = 3
    MaxFailed = 1
CHECK_DEADLOCK FALSE
INVARIANTS LogStateTypeOK PassIsTrue ExactAgentPasses ReadComplete NotFoundIsPatient
PROPERTIES FileFrozen ValidateEnds
