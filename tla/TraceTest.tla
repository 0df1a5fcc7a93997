-------------------------------- MODULE TraceTest -------------------------------
(***************************************************************************)
(* The trace tests (util/common/traces): TraceTest starts the agent and a  *)
(* generator beside it, stops both, and asks X-Ray for what has arrived.   *)
(* The agent and X-Ray are external; the traces of this test and those of  *)
(* an earlier run carry the same annotations.                              *)
(***************************************************************************)
EXTENDS Integers, FiniteSets, SequencesExt

CONSTANTS
    MaxTraces,     \* ticks of a generator
    MaxOld,        \* traces of an earlier run
    BatchSize      \* batchGetTraceSizes

VARIABLES
    library,     \* of the generator: xray or otlp
    harness,     \* where TraceTest is
    sender,      \* the goroutine of StartSendingTraces
    fates,       \* of each segment generated, where it is
    old,         \* traces of an earlier run in X-Ray
    tally,       \* testsGenerated
    listed,      \* traceIDs
    segments,    \* traces whose segment BatchGetTraces has returned
    apart,       \* of these, the ones whose subsegment came as a document of its own
    unprocessed, \* ids that a batch ended without
    fault,       \* somebody but the harness was at fault
    judged       \* the verdict

fetchVars == <<segments, apart, unprocessed>>
traceVars == <<library, harness, sender, fates, old, tally, listed, fetchVars, fault, judged>>

TtTypeOK ==
    /\ library \in {"xray", "otlp"}
    /\ harness \in {"start", "run", "delay", "fatal", "stopped", "settle", "list", "fetch",
                    "judge"}
    /\ sender \in {"off", "sending", "flushing", "ended", "failed", "killed"}
    /\ fates \in BoundedSeq({"client", "agent", "sent", "stored", "spoilt", "lost"}, MaxTraces)
    /\ old \in 0 .. MaxOld /\ tally \in 0 .. MaxTraces
    /\ listed \in Seq(1 .. MaxTraces + MaxOld)
    /\ {segments, apart, unprocessed} \subseteq SUBSET (1 .. MaxTraces + MaxOld)
    /\ fault \in BOOLEAN /\ judged \in {"none", "passed", "failed"}

TtInit ==
    /\ library \in {"xray", "otlp"} /\ old \in 0 .. MaxOld
    /\ harness = "start" /\ sender = "off" /\ fates = <<>>
    /\ tally = 0 /\ listed = <<>>
    /\ segments = {} /\ apart = {} /\ unprocessed = {}
    /\ fault = FALSE /\ judged = "none"

Fail ==
    /\ judged' = "failed"
    /\ UNCHANGED <<library, harness, sender, fates, old, tally, listed, fetchVars>>

Go(from, to) == harness = from /\ judged = "none" /\ harness' = to

-------------------------------------------------------------------------------
(* The agent and X-Ray (external).                                         *)

\* An agent that cannot be stopped outlives the test.
Up == harness \in {"run", "delay", "fatal"}

\* The agent forwards a segment, loses it, or spoils its annotations.
Forward ==
    /\ Up
    /\ \E i \in DOMAIN fates, fate \in {"sent", "spoilt", "lost"} :
          /\ fates[i] = "agent"
          /\ fates' = [fates EXCEPT ![i] = fate]
          /\ fault' = (fault \/ fate # "sent")
    /\ UNCHANGED <<library, harness, sender, old, tally, listed, fetchVars, judged>>

\* What was sent to X-Ray can be searched a while later.
Index ==
    /\ \E i \in DOMAIN fates : fates[i] = "sent" /\ fates' = [fates EXCEPT ![i] = "stored"]
    /\ UNCHANGED <<library, harness, sender, old, tally, listed, fetchVars, fault, judged>>

\* An agent that is stopped forwards what it has, or not.
Flushed(lossy) ==
    [i \in DOMAIN fates |->
        IF fates[i] = "agent" THEN IF lossy THEN "lost" ELSE "sent"
        ELSE IF fates[i] = "client" THEN "lost" ELSE fates[i]]

\* GetTraceSummaries: the traces with the annotations in the window, by number;
\* those of the earlier run come after those of this one.
InXray == {i \in DOMAIN fates : fates[i] \in {"stored", "spoilt"}}

\* Slip: the window reaches back to the run before.
InLongWindow == InXray \cup MaxTraces + 1 .. MaxTraces + old

InWindow == InXray

-------------------------------------------------------------------------------
(* The generators.                                                         *)

\* A tick; the select may still prefer it when Done is closed.  The segment of
\* the X-Ray SDK goes out as it is closed, the span of OTLP waits for a batch.
Generate ==
    /\ sender = "sending" /\ Len(fates) < MaxTraces
    /\ fates' = Append(fates, IF library = "xray" THEN "agent" ELSE "client")
    /\ UNCHANGED <<library, harness, sender, old, tally, listed, fetchVars, fault, judged>>

\* A batch goes out in between.
Export ==
    /\ library = "otlp" /\ sender \in {"sending", "flushing"} /\ Up
    /\ \E i \in DOMAIN fates : fates[i] = "client" /\ fates' = [fates EXCEPT ![i] = "agent"]
    /\ UNCHANGED <<library, harness, sender, old, tally, listed, fetchVars, fault, judged>>

\* A segment that cannot be annotated, or an exporter that cannot be set up or
\* flushed: require.NoError fails the test, and the harness goes on.
SenderFails ==
    /\ sender \in {"sending", "flushing"} /\ judged = "none"
    /\ sender' = "failed" /\ fault' = TRUE
    /\ UNCHANGED <<library, harness, fates, old, tally, listed, fetchVars, judged>>

\* Done is closed: ForceFlush, for OTLP.
Halt ==
    /\ sender = "sending" /\ harness \notin {"start", "run"}
    /\ sender' = IF library = "xray" THEN "ended" ELSE "flushing"
    /\ UNCHANGED <<library, harness, fates, old, tally, listed, fetchVars, fault, judged>>

ForceFlush ==
    /\ sender = "flushing" /\ \A i \in DOMAIN fates : fates[i] # "client"
    /\ sender' = "ended"
    /\ UNCHANGED <<library, harness, fates, old, tally, listed, fetchVars, fault, judged>>

-------------------------------------------------------------------------------
(* TraceTest.                                                              *)

Start ==
    /\ Go("start", "run")
    /\ sender' = "sending"
    /\ UNCHANGED <<library, fates, old, tally, listed, fetchVars, fault, judged>>

\* log.Fatal: fatalOnFailure is set.
StartFails == harness = "start" /\ judged = "none" /\ fault' = TRUE /\ Fail

StopSendingTraces ==
    /\ Go("run", "delay")
    /\ UNCHANGED <<library, sender, fates, old, tally, listed, fetchVars, fault, judged>>

\* Slip: the agent is stopped as soon as the generator is told to stop.
DelayNone(slow) == sender # "off"

\* AGENT_SHUTDOWN_DELAY: 20 seconds let the goroutine see Done, and OTLP export
\* its last batch unless the agent is slow to take it.
Delay(slow) == sender \in {"ended", "failed"} \/ (sender = "flushing" /\ slow)

\* Slip: the last segment is not ended yet when they are counted.
TallyEnded == IF fates = <<>> THEN 0 ELSE Len(fates) - 1

Tally == Len(fates)

StopAgent ==
    /\ Go("delay", "stopped")
    /\ \E lossy, slow \in BOOLEAN :
          /\ Delay(slow)
          /\ fates' = Flushed(lossy)
          /\ fault' = (fault \/ lossy \/ slow)
    /\ UNCHANGED <<library, sender, old, tally, listed, fetchVars, judged>>

\* log.Fatal: the process ends there, its goroutine with it, and the agent runs on.
StopAgentFails ==
    /\ Go("delay", "fatal")
    /\ \E slow \in BOOLEAN : Delay(slow)
    /\ sender' = "killed" /\ judged' = "failed" /\ fault' = TRUE
    /\ UNCHANGED <<library, fates, old, tally, listed, fetchVars>>

GetSegmentCount ==
    /\ Go("stopped", "settle")
    /\ tally' = Tally
    /\ UNCHANGED <<library, sender, fates, old, listed, fetchVars, fault, judged>>

\* Slip: the queries start at once.
SettledAtOnce(slow) == ~slow

\* Ten seconds in which what was sent gets indexed, unless X-Ray is slow.
Settled(slow) == slow \/ \A i \in DOMAIN fates : fates[i] # "sent"

Settle ==
    /\ Go("settle", "list")
    /\ \E slow \in BOOLEAN : Settled(slow) /\ fault' = (fault \/ slow)
    /\ UNCHANGED <<library, sender, fates, old, tally, listed, fetchVars, judged>>

\* Slip: a page without traces is the last.
LastPageIfEmpty(page, rest) == page = {} \/ rest = {}

\* NextToken is nil.
LastPage(page, rest) == rest = {}

\* GetTraceIDs: page by page.
GetTraceIDs ==
    /\ harness = "list" /\ judged = "none"
    /\ \E page \in SUBSET (InWindow \ ToSet(listed)) :
          /\ listed' = listed \o SetToSeq(page)
          /\ harness' = IF LastPage(page, InWindow \ ToSet(listed')) THEN "fetch" ELSE "list"
    /\ UNCHANGED <<library, sender, fates, old, tally, fetchVars, fault, judged>>

\* Slip: a last batch that is not full is left out.
FullStarts == {i \in DOMAIN listed : (i - 1) % BatchSize = 0 /\ i + BatchSize - 1 <= Len(listed)}

\* GetBatchTraces: where the batches of the ids start.
Starts == {i \in DOMAIN listed : (i - 1) % BatchSize = 0}

Batches == {{listed[k] : k \in {k \in DOMAIN listed : k - i \in 0 .. BatchSize - 1}} : i \in Starts}

Wanted == UNION Batches

Answered == segments \cup unprocessed

\* A page of a batch.  The batch ends with NextToken, whether all its ids were
\* answered or not: nobody looks at UnprocessedTraceIds.  The subsegment of the
\* X-Ray SDK's generator may come inside its segment or beside it.
GetBatchTraces ==
    /\ harness = "fetch" /\ judged = "none"
    /\ \E b \in Batches : \E page \in SUBSET (b \ Answered), more \in BOOLEAN :
          /\ ~(b \subseteq Answered)
          /\ segments' = segments \cup page
          /\ apart' \in {apart \cup split : split \in IF library = "xray" THEN SUBSET page ELSE {{}}}
          /\ unprocessed' = IF more THEN unprocessed ELSE unprocessed \cup (b \ (Answered \cup page))
    /\ UNCHANGED <<library, harness, sender, fates, old, tally, listed, fault, judged>>

\* GetSegments: the documents of all traces, in one list.
GetSegments ==
    /\ Wanted \subseteq Answered
    /\ Go("fetch", "judge")
    /\ UNCHANGED <<library, sender, fates, old, tally, listed, fetchVars, fault, judged>>

XrayFails == harness \in {"list", "fetch"} /\ judged = "none" /\ fault' = TRUE /\ Fail

\* SegmentValidationTest: annotations and metadata of every document without a parent.
Valid == \A i \in segments : i \in DOMAIN fates => fates[i] # "spoilt"

\* len(segments): a subsegment that came apart counts as a segment does.
Documents == Cardinality(segments) + Cardinality(apart)

Judge ==
    /\ harness = "judge" /\ judged = "none"
    /\ judged' = IF Documents >= tally /\ Valid /\ sender # "failed"
                 THEN "passed" ELSE "failed"
    /\ UNCHANGED <<library, harness, sender, fates, old, tally, listed, fetchVars, fault>>

TtNext ==
    \/ Forward \/ Index \/ Generate \/ Export \/ SenderFails \/ Halt \/ ForceFlush
    \/ Start \/ StartFails \/ StopSendingTraces \/ StopAgent \/ StopAgentFails
    \/ GetSegmentCount \/ Settle \/ GetTraceIDs \/ GetBatchTraces \/ GetSegments
    \/ XrayFails \/ Judge

-------------------------------------------------------------------------------
(* Properties                                                              *)

\* A test that passed misses, of all the segments generated to the last one, no
\* more than X-Ray has returned subsegments apart (base.go:84 counts them as
\* segments), and so none with OTLP; and nothing else covers for one that is
\* missing, no trace of the run before and none that is spoilt.
EveryTraceArrived ==
    judged = "passed" =>
        Cardinality({i \in DOMAIN fates : fates[i] # "stored"})
            <= IF library = "otlp" THEN 0 ELSE Cardinality(apart)

\* A test fails only if the agent, X-Ray or the generator was at fault, or X-Ray
\* left ids unprocessed: what is sent in the last moment, what is indexed late,
\* and what comes on a later page, is waited for.
TracesNotMissed == judged = "failed" => fault \/ unprocessed # {}

===============================================================================
