-------------------------------- MODULE Helpers --------------------------------
(***************************************************************************)
(* What the tests and the validator have from util, side by side: the      *)
(* checks of a validator's round and of log events, the loops that wait,   *)
(* the PromQL client and the gate of the OTEL suites, the load senders.    *)
(* Each is a call of its own; the one that runs is chosen at the start,    *)
(* and the variables of the others stay idle.                              *)
(***************************************************************************)
EXTENDS Naturals, Sequences

CONSTANTS
    Unnumbered, MaxLen, MaxNumber, MaxEvents, Cores,         \* log events
    SampleCount, LinuxSlack, WindowsSlack, Mega, Period,
    Values, MaxPoints, Hits,                                 \* ValidatorChecks
    MaxHiccups, Hangs, Retries, Minutes,                     \* Polls
    maxRetries, Timeout, maxRounds,                          \* OtelClient
    Nodes, Tests, GateTimeout, GateInterval,
    NodeInfo, NoAnswer, NoCall,                              \* EnrichmentGate
    Interval, Minute, Duration, Slow, MaxHolds, MaxFaults    \* LoadSenders

VARIABLES
    helper,                                                  \* the one that runs
    events,                                                  \* LogEventsFeed, ContainerInsights
    job, saw, errs, results, recorded, verdict,              \* ValidatorChecks
    loop, doing, tries, since, hiccups, hung,                \* Polls
    now,                                                     \* it and EnrichmentGate
    cpc, attempt, lastErr, result, ctxDone, elapsed, late,   \* OtelClient
    round, index, validated, outcome, present, tried,
    series, gate, seen, answer, pending, reply,              \* EnrichmentGate
    sender, at, clock, took, started, lost, holds            \* LoadSenders

checkVars == <<job, saw, errs, results, recorded, verdict>>
loopVars == <<loop, doing, tries, since, hiccups, hung>>
clientVars == <<cpc, attempt, lastErr, result, ctxDone, elapsed, late,
                round, index, validated, outcome, present, tried>>
gateVars == <<series, gate, seen, answer, pending, reply>>
senderVars == <<sender, at, clock, took, started, lost, holds>>

helperVars == <<helper, events, checkVars, loopVars, now, clientVars, gateVars, senderVars>>

LogEventsFeed == INSTANCE LogEventsFeed
ContainerInsights == INSTANCE ContainerInsights
ValidatorChecks == INSTANCE ValidatorChecks
Polls == INSTANCE Polls
OtelClient == INSTANCE OtelClient WITH
    Metrics <- {"cpu", "memory"}, metrics <- <<"cpu", "memory">>
EnrichmentGate == INSTANCE EnrichmentGate WITH
    Timeout <- GateTimeout, Interval <- GateInterval
LoadSenders == INSTANCE LoadSenders

ASSUME HelpersAssumption ==
    /\ LogEventsFeed!FeedAssumption
    /\ ContainerInsights!CiAssumption
    /\ ValidatorChecks!ChecksAssumption
    /\ Polls!PollsAssumption
    /\ OtelClient!ClientAssumption
    /\ EnrichmentGate!GateAssumption
    /\ LoadSenders!SendersAssumption

-------------------------------------------------------------------------------
idle == "idle"

ChecksIdle ==
    job = idle /\ saw = idle /\ errs = idle /\ results = idle /\ recorded = idle /\ verdict = idle
LoopIdle ==
    /\ loop = idle /\ doing = idle /\ tries = idle /\ since = idle /\ hiccups = idle
    /\ hung = idle
ClientIdle ==
    /\ cpc = idle /\ attempt = idle /\ lastErr = idle /\ result = idle /\ ctxDone = idle
    /\ elapsed = idle /\ late = idle /\ round = idle /\ index = idle /\ validated = idle
    /\ outcome = idle /\ present = idle /\ tried = idle
GateIdle ==
    series = idle /\ gate = idle /\ seen = idle /\ answer = idle /\ pending = idle /\ reply = idle
SenderIdle ==
    /\ sender = idle /\ at = idle /\ clock = idle /\ took = idle /\ started = idle /\ lost = idle
    /\ holds = idle

Init ==
    \/ /\ helper = "log events" /\ LogEventsFeed!Init
       /\ ChecksIdle /\ LoopIdle /\ now = idle /\ ClientIdle /\ GateIdle /\ SenderIdle
    \/ /\ helper = "node log" /\ ContainerInsights!CiInit
       /\ ChecksIdle /\ LoopIdle /\ now = idle /\ ClientIdle /\ GateIdle /\ SenderIdle
    \/ /\ helper = "checks" /\ ValidatorChecks!Init
       /\ events = idle /\ LoopIdle /\ now = idle /\ ClientIdle /\ GateIdle /\ SenderIdle
    \/ /\ helper = "loop" /\ Polls!PollsInit
       /\ events = idle /\ ChecksIdle /\ ClientIdle /\ GateIdle /\ SenderIdle
    \/ /\ helper = "client" /\ OtelClient!Init
       /\ events = idle /\ ChecksIdle /\ LoopIdle /\ now = idle /\ GateIdle /\ SenderIdle
    \/ /\ helper = "gate" /\ EnrichmentGate!Init
       /\ events = idle /\ ChecksIdle /\ LoopIdle /\ ClientIdle /\ SenderIdle
    \/ /\ helper = "sender" /\ LoadSenders!LsInit
       /\ events = idle /\ ChecksIdle /\ LoopIdle /\ now = idle /\ ClientIdle /\ GateIdle

RunLogEvents ==
    /\ helper = "log events" /\ LogEventsFeed!Next
    /\ UNCHANGED <<helper, checkVars, loopVars, now, clientVars, gateVars, senderVars>>

RunNodeLog ==
    /\ helper = "node log" /\ ContainerInsights!CiNext
    /\ UNCHANGED <<helper, checkVars, loopVars, now, clientVars, gateVars, senderVars>>

RunChecks ==
    /\ helper = "checks" /\ ValidatorChecks!Next
    /\ UNCHANGED <<helper, events, loopVars, now, clientVars, gateVars, senderVars>>

RunLoop ==
    /\ helper = "loop" /\ Polls!PollsNext
    /\ UNCHANGED <<helper, events, checkVars, clientVars, gateVars, senderVars>>

RunClient ==
    /\ helper = "client" /\ OtelClient!Next
    /\ UNCHANGED <<helper, events, checkVars, loopVars, now, gateVars, senderVars>>

RunGate ==
    /\ helper = "gate" /\ EnrichmentGate!Next
    /\ UNCHANGED <<helper, events, checkVars, loopVars, clientVars, senderVars>>

RunSender ==
    /\ helper = "sender" /\ LoadSenders!LsNext
    /\ UNCHANGED <<helper, events, checkVars, loopVars, now, clientVars, gateVars>>

Next ==
    RunLogEvents \/ RunNodeLog \/ RunChecks \/ RunLoop \/ RunClient \/ RunGate \/ RunSender

\* The loops run on, and what they wait for answers or times out: the fairness
\* of FairSpec of the client and of the gate.
Fairness ==
    /\ WF_helperVars(RunLoop /\ Polls!LoopStep)
    /\ WF_helperVars(RunClient /\ (OtelClient!ClientStep \/ OtelClient!AssertStep))
    /\ WF_helperVars(RunGate /\ (EnrichmentGate!Poll \/ EnrichmentGate!Sleep))

Spec == Init /\ [][Next]_helperVars /\ Fairness

-------------------------------------------------------------------------------
(* What the modules claim of their helpers, by what it means to a reader.  *)

\* The state of a query and of its assertion is of its types.
TypeOK == helper = "client" => OtelClient!TypeOK

\* What the assertions on log events report is so, in whatever order the events
\* come and whatever else is among them: gaps in the numbers, frequencies and
\* the utilization of each core (NoMissingLogs and the container insights
\* checks, over the helpers of cloudwatchlogs.go).
LogChecksExact ==
    /\ helper = "log events" => LogEventsFeed!ReportedIsGap /\ LogEventsFeed!GapsExact
    /\ helper = "node log" =>
          ContainerInsights!FrequencyIsExact /\ ContainerInsights!CoresAreExact

\* The error of a round names the metrics and logs that are not as they should be,
\* and no others; what it does not name although a comment says it would is only a
\* stress value below its range or half of the Windows events (CheckData of the
\* feature and the stress validator).
ErrorsExact == helper = "checks" => ValidatorChecks!ErrorsExact

\* A performance test that passed has put statistics of every one of its metrics
\* into the database (CalculateMetricStatsAndPackMetrics, SendPacketToDatabase).
PacketComplete == helper = "checks" => ValidatorChecks!PacketComplete

\* Nobody gives up before the looks and the time are spent that the loop says it
\* takes (the waits of util, AssertMetricsPresent).
GaveUpPatiently ==
    /\ helper = "loop" => Polls!GaveUpPatiently
    /\ helper = "client" => OtelClient!MissingHadItsChances

\* And nobody takes longer: a loop, a query with all its retries, a cancelled
\* query, a sender (the deadlines and the counts of the loops); but the wait for
\* the OTLP endpoint, whose requests nothing bounds, by as long as these hang.
WaitsAreBounded ==
    /\ helper = "loop" => Polls!EndsInTime
    /\ helper = "client" => OtelClient!QueryIsBounded /\ OtelClient!CancelIsBounded
    /\ helper = "sender" => LoadSenders!SenderEndsInTime

\* What is reported as there is there, and what the gate has seen enriched is
\* enriched in the answer that all tests share (AssertMetricsPresent,
\* waitForKSMNodeEnrichment before the cache).
SeenIsThere ==
    /\ helper = "client" => OtelClient!PresentIsTrue
    /\ helper = "gate" => EnrichmentGate!SeenNodesStayWarm

\* The load is steady to the end of the round (the loops over ticker and timer);
\* and a writer of logs that returns no error has written its first lines, which
\* is all that the error of any sender is worth (metrics.go:244, :266; logs.go).
LoadIsSteady ==
    helper = "sender" => LoadSenders!LoadIsSteady /\ LoadSenders!NilIsNoLoss

\* The loops end, the assertion has its outcome and the gate opens, whatever
\* CloudWatch and the cluster do; the wait for the OTLP endpoint does unless that
\* accepts a request and never answers it.
WaitsEnd ==
    /\ helper = "loop" => Polls!LoopEnds
    /\ helper = "client" => OtelClient!AssertionEnds
    /\ helper = "gate" => EnrichmentGate!GateOpens

===============================================================================
