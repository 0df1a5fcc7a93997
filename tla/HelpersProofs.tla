------------------------------ MODULE HelpersProofs ------------------------------
(***************************************************************************)
(* Proofs about the helpers side by side, for every bound and period.      *)
(* What OtelClientProofs and LoadSendersProofs prove of one helper holds   *)
(* of the same helper here, and so does what LogEventsProofs proves of the *)
(* assertions on log events; the enrichment gate, the loops that wait, the *)
(* checks on the log of a node and those of a validator's round are proved *)
(* about in this module.                                                   *)
(***************************************************************************)
EXTENDS Helpers, FiniteSetTheorems, SequenceTheorems, TLAPS

LogP == INSTANCE LogEventsProofs
SendersP == INSTANCE LoadSendersProofs
ClientP == INSTANCE OtelClientProofs WITH
    Metrics <- {"cpu", "memory"}, metrics <- <<"cpu", "memory">>

-------------------------------------------------------------------------------
(* The proofs modules speak of the modules they extend.                    *)

\* The load senders here are those of LoadSendersProofs.
LEMMA SameSenders ==
    /\ LoadSenders!SendersAssumption <=> SendersP!SendersAssumption
    /\ LoadSenders!LsInit <=> SendersP!LsInit
    /\ LoadSenders!LsNext <=> SendersP!LsNext
    /\ LoadSenders!SenderEndsInTime <=> SendersP!SenderEndsInTime
    /\ LoadSenders!LoadIsSteady <=> SendersP!LoadIsSteady
    /\ LoadSenders!NilIsNoLoss <=> SendersP!NilIsNoLoss
BY DEF
    LoadSenders!SendersAssumption, SendersP!SendersAssumption,
    LoadSenders!LsInit, SendersP!LsInit, LoadSenders!LsNext, SendersP!LsNext,
    LoadSenders!SenderEndsInTime, SendersP!SenderEndsInTime,
    LoadSenders!LoadIsSteady, SendersP!LoadIsSteady,
    LoadSenders!NilIsNoLoss, SendersP!NilIsNoLoss,
    LoadSenders!collectd, SendersP!collectd, LoadSenders!Senders,
    SendersP!Senders, LoadSenders!DialFails, SendersP!DialFails,
    LoadSenders!Batch, SendersP!Batch, LoadSenders!Pause, SendersP!Pause,
    LoadSenders!Tick, SendersP!Tick, LoadSenders!TimeUp, SendersP!TimeUp,
    LoadSenders!Wait, SendersP!Wait, LoadSenders!Sleep, SendersP!Sleep,
    LoadSenders!S, SendersP!S, LoadSenders!held, SendersP!held,
    LoadSenders!CaughtUp, SendersP!CaughtUp, LoadSenders!Row, SendersP!Row,
    LoadSenders!statsd, SendersP!statsd, LoadSenders!logs, SendersP!logs,
    LoadSenders!emf, SendersP!emf, LoadSenders!otlp, SendersP!otlp,
    LoadSenders!traces, SendersP!traces, LoadSenders!app_signals,
    SendersP!app_signals, LoadSenders!Batches, SendersP!Batches,
    LoadSenders!HeldUp, SendersP!HeldUp, LoadSenders!After, SendersP!After,
    LoadSenders!TickReady, SendersP!TickReady, LoadSenders!TimedOut,
    SendersP!TimedOut, LoadSenders!NextTick, SendersP!NextTick,
    LoadSenders!Looks, SendersP!Looks, LoadSenders!Min, SendersP!Min,
    LoadSenders!Cardinality, SendersP!Cardinality

\* The PromQL client here is that of OtelClientProofs.
LEMMA SameClient ==
    /\ OtelClient!ClientAssumption <=> ClientP!ClientAssumption
    /\ OtelClient!Init <=> ClientP!Init
    /\ OtelClient!Next <=> ClientP!Next
    /\ OtelClient!TypeOK <=> ClientP!TypeOK
    /\ OtelClient!QueryIsBounded <=> ClientP!QueryIsBounded
    /\ OtelClient!CancelIsBounded <=> ClientP!CancelIsBounded
    /\ OtelClient!PresentIsTrue <=> ClientP!PresentIsTrue
    /\ OtelClient!MissingHadItsChances <=> ClientP!MissingHadItsChances
BY DEF
    OtelClient!ClientAssumption, ClientP!ClientAssumption, OtelClient!Init,
    ClientP!Init, OtelClient!Next, ClientP!Next, OtelClient!TypeOK,
    ClientP!TypeOK, OtelClient!QueryIsBounded, ClientP!QueryIsBounded,
    OtelClient!CancelIsBounded, ClientP!CancelIsBounded,
    OtelClient!PresentIsTrue, ClientP!PresentIsTrue,
    OtelClient!MissingHadItsChances, ClientP!MissingHadItsChances,
    OtelClient!ClientStep, ClientP!ClientStep, OtelClient!AssertStep,
    ClientP!AssertStep, OtelClient!Cancel, ClientP!Cancel, OtelClient!Appear,
    ClientP!Appear, OtelClient!TotalBackoff, ClientP!TotalBackoff,
    OtelClient!Request, ClientP!Request, OtelClient!Exhausted,
    ClientP!Exhausted, OtelClient!Respond, ClientP!Respond,
    OtelClient!Backoff, ClientP!Backoff, OtelClient!Skip, ClientP!Skip,
    OtelClient!Query, ClientP!Query, OtelClient!Answered, ClientP!Answered,
    OtelClient!EndRound, ClientP!EndRound, OtelClient!GiveUp, ClientP!GiveUp,
    OtelClient!assertVars, ClientP!assertVars, OtelClient!clientVars,
    ClientP!clientVars, OtelClient!Shl, ClientP!Shl, OtelClient!Return,
    ClientP!Return, OtelClient!ResponseTimes, ClientP!ResponseTimes,
    OtelClient!Retry, ClientP!Retry, OtelClient!Spend, ClientP!Spend,
    OtelClient!Asserting, ClientP!Asserting, OtelClient!Seen, ClientP!Seen,
    OtelClient!Range, ClientP!Range, OtelClient!IsInjective,
    ClientP!IsInjective, OtelClient!Cardinality, ClientP!Cardinality

-------------------------------------------------------------------------------
(* The enrichment gate.                                                    *)

\* The gate starts in its invariant.
LEMMA GateInit == ASSUME EnrichmentGate!Init PROVE EnrichmentGate!IInv
<1> USE DEF EnrichmentGate!Init, EnrichmentGate!Cache!Init, EnrichmentGate!NoSeries
<1>1. EnrichmentGate!GateTypeOK
  BY DEF EnrichmentGate!GateTypeOK, EnrichmentGate!Snapshots, EnrichmentGate!SeriesStates
<1>2. answer[NodeInfo] = NoAnswer /\ \A t \in Tests : pending[t] = NoCall
  OBVIOUS
<1>3. gate = "polling"
  OBVIOUS
<1> QED
  BY <1>1, <1>2, <1>3
  DEF EnrichmentGate!IInv, EnrichmentGate!NothingBefore, EnrichmentGate!SeenAreWarm,
      EnrichmentGate!SeenNodesStayWarm, EnrichmentGate!Decided

\* The cluster: a node that is warm stays so.
LEMMA GateProgress ==
    ASSUME EnrichmentGate!IInv, NEW n \in Nodes, EnrichmentGate!Progress(n)
    PROVE  EnrichmentGate!IInv'
<1>1. /\ UNCHANGED <<gate, now, seen, answer, pending, reply>>
      /\ series[n] # "warm"
      /\ \E s \in {"cold", "warm"} : series' = [series EXCEPT ![n] = s]
  BY DEF EnrichmentGate!Progress, EnrichmentGate!gateVars, EnrichmentGate!cacheVars
<1>2. series \in [Nodes -> {"absent", "cold", "warm"}] /\ seen \subseteq Nodes
  BY DEF EnrichmentGate!IInv, EnrichmentGate!GateTypeOK, EnrichmentGate!Snapshots,
         EnrichmentGate!SeriesStates
<1>3. series' \in [Nodes -> {"absent", "cold", "warm"}]
  BY <1>1, <1>2
<1>4. \A k \in Nodes : series[k] = "warm" => series'[k] = "warm"
  BY <1>1, <1>2
<1>5. EnrichmentGate!GateTypeOK'
  BY <1>1, <1>3
  DEF EnrichmentGate!IInv, EnrichmentGate!GateTypeOK, EnrichmentGate!Snapshots,
      EnrichmentGate!SeriesStates
<1>6. EnrichmentGate!SeenAreWarm'
  BY <1>1, <1>2, <1>4 DEF EnrichmentGate!IInv, EnrichmentGate!SeenAreWarm
<1>7. EnrichmentGate!NothingBefore' /\ EnrichmentGate!SeenNodesStayWarm'
  BY <1>1
  DEF EnrichmentGate!IInv, EnrichmentGate!NothingBefore, EnrichmentGate!SeenNodesStayWarm,
      EnrichmentGate!Decided, EnrichmentGate!Open
<1> QED BY <1>5, <1>6, <1>7 DEF EnrichmentGate!IInv

\* The gate: it opens warm on what is warm, and before it opens nothing is cached.
LEMMA GatePoll ==
    ASSUME EnrichmentGate!IInv, EnrichmentGate!Poll \/ EnrichmentGate!Sleep
    PROVE  EnrichmentGate!IInv'
<1>1. /\ gate \in {"polling", "asleep"}
      /\ UNCHANGED <<series, answer, pending, reply>>
  BY DEF EnrichmentGate!Poll, EnrichmentGate!Sleep, EnrichmentGate!cacheVars
<1>2. \/ gate' = "warm" /\ seen' = EnrichmentGate!Returned /\ EnrichmentGate!Warm
      \/ gate' \in {"polling", "asleep", "timeout"} /\ seen' = seen
  BY DEF EnrichmentGate!Poll, EnrichmentGate!Sleep
<1>3. ~EnrichmentGate!Decided /\ \A t \in Tests : pending[t] = NoCall
  BY <1>1 DEF EnrichmentGate!IInv, EnrichmentGate!NothingBefore, EnrichmentGate!Open
<1>4. ~EnrichmentGate!Decided'
  BY <1>1, <1>3 DEF EnrichmentGate!Decided
<1>5. EnrichmentGate!GateTypeOK'
  BY <1>1, <1>2 DEF EnrichmentGate!IInv, EnrichmentGate!GateTypeOK, EnrichmentGate!Returned
<1>6. EnrichmentGate!SeenAreWarm'
  BY <1>1, <1>2 DEF EnrichmentGate!SeenAreWarm, EnrichmentGate!Warm
<1>7. EnrichmentGate!NothingBefore' /\ EnrichmentGate!SeenNodesStayWarm'
  BY <1>1, <1>3, <1>4 DEF EnrichmentGate!NothingBefore, EnrichmentGate!SeenNodesStayWarm
<1> QED BY <1>5, <1>6, <1>7 DEF EnrichmentGate!IInv

\* The tests: an answer is decided as the series are, after the gate.
LEMMA GateTest ==
    ASSUME HelpersAssumption, EnrichmentGate!IInv, NEW t \in Tests,
           EnrichmentGate!Ask(t) \/ EnrichmentGate!Answer(t)
    PROVE  EnrichmentGate!IInv'
<1>1. /\ UNCHANGED <<series, gate, now, seen>>
      /\ \/ answer' = answer
         \/ pending[t] # NoCall /\ answer' = [answer EXCEPT ![pending[t]] = series]
      /\ \/ pending' = [pending EXCEPT ![t] = NodeInfo]
         \/ pending' = [pending EXCEPT ![t] = NoCall]
  BY DEF EnrichmentGate!Ask, EnrichmentGate!Answer, EnrichmentGate!gateVars,
         EnrichmentGate!Cache!Ask, EnrichmentGate!Cache!Hit, EnrichmentGate!Cache!Decide,
         EnrichmentGate!Cache!Miss, EnrichmentGate!Cache!Finish
<1>2. /\ DOMAIN answer = {NodeInfo} /\ pending \in [Tests -> {NodeInfo, NoCall}]
  BY DEF EnrichmentGate!IInv, EnrichmentGate!GateTypeOK
<1>3. EnrichmentGate!Open
  <2>1. CASE EnrichmentGate!Ask(t)
    BY <2>1 DEF EnrichmentGate!Ask
  <2>2. CASE EnrichmentGate!Answer(t)
    <3>1. pending[t] # NoCall
      BY <2>2 DEF EnrichmentGate!Answer, EnrichmentGate!Cache!Hit,
                  EnrichmentGate!Cache!Decide, EnrichmentGate!Cache!Miss
    <3> QED BY <3>1 DEF EnrichmentGate!IInv, EnrichmentGate!NothingBefore
  <2> QED BY <2>1, <2>2
<1>4. answer'[NodeInfo] = answer[NodeInfo] \/ answer'[NodeInfo] = series
  BY <1>1, <1>2
<1>5. EnrichmentGate!GateTypeOK'
  <2>1. DOMAIN answer' = {NodeInfo} /\ pending' \in [Tests -> {NodeInfo, NoCall}]
    BY <1>1, <1>2
  <2> QED BY <1>1, <2>1 DEF EnrichmentGate!IInv, EnrichmentGate!GateTypeOK
<1>6. EnrichmentGate!NothingBefore' /\ EnrichmentGate!SeenAreWarm'
  BY <1>1, <1>3
  DEF EnrichmentGate!IInv, EnrichmentGate!NothingBefore, EnrichmentGate!SeenAreWarm,
      EnrichmentGate!Open
<1>7. EnrichmentGate!SeenNodesStayWarm'
  BY <1>1, <1>4
  DEF EnrichmentGate!IInv, EnrichmentGate!SeenNodesStayWarm, EnrichmentGate!SeenAreWarm,
      EnrichmentGate!Decided
<1> QED BY <1>5, <1>6, <1>7 DEF EnrichmentGate!IInv

\* A step of the gate, or of the clock, keeps it.
LEMMA GateStep ==
    ASSUME HelpersAssumption, EnrichmentGate!IInv, EnrichmentGate!Next
    PROVE  EnrichmentGate!IInv'
BY GateProgress, GatePoll, GateTest DEF EnrichmentGate!Next

\* And so does a step that is not of the gate.
LEMMA GateStutter ==
    ASSUME EnrichmentGate!IInv, UNCHANGED <<now, gateVars>>
    PROVE  EnrichmentGate!IInv'
BY DEF gateVars, EnrichmentGate!IInv, EnrichmentGate!GateTypeOK, EnrichmentGate!NothingBefore,
       EnrichmentGate!SeenAreWarm, EnrichmentGate!SeenNodesStayWarm, EnrichmentGate!Decided,
       EnrichmentGate!Open

-------------------------------------------------------------------------------
(* The inductive invariant of the loops.                                   *)

PollsTypeOK ==
    /\ loop \in DOMAIN Polls!Loops
    /\ doing \in {"looking", "hanging", "asleep", "found", "failed", "gave up"}
    /\ tries \in Nat /\ now \in Nat /\ since \in Nat /\ hiccups \in Nat /\ hung \in Nat

\* The sleeps that errors have cost the loop.
Skipped == IF Polls!L.error = "look" THEN hiccups * Polls!L.pause ELSE 0

\* Each look in vain was followed by its pause, the one it sleeps now excepted.
\* Where a deadline ends the loop a look may take time on top.
Paced ==
    /\ doing \in {"looking", "hanging"} =>
          /\ now + Skipped >= Polls!L.first + (tries * Polls!L.pause)
          /\ Polls!L.deadline = Polls!Unlimited =>
               now + Skipped = Polls!L.first + (tries * Polls!L.pause)
    /\ doing = "asleep" /\ tries > 0 =>
          /\ now + Skipped + Polls!L.pause >= Polls!L.first + (tries * Polls!L.pause)
          /\ Polls!L.deadline = Polls!Unlimited =>
               now + Skipped + Polls!L.pause = Polls!L.first + (tries * Polls!L.pause)
    /\ doing = "asleep" /\ tries = 0 => now = 0 /\ Polls!L.first > 0

\* The counts and the deadline hold while the loop goes on, but that the time it
\* hangs comes on top; only a look before a deadline can hang.
WithinLimits ==
    /\ doing \in {"looking", "asleep"} =>
         tries <= Polls!L.looks /\ (Polls!L.last \/ tries < Polls!L.looks)
    /\ doing = "hanging" =>
         /\ Polls!L.deadline # Polls!Unlimited
         /\ tries < Polls!L.looks /\ now < Polls!L.deadline
    /\ Polls!L.deadline # Polls!Unlimited /\ doing = "asleep" =>
         now < Polls!L.deadline + Polls!L.slow + hung
    /\ Polls!L.deadline # Polls!Unlimited =>
         now < Polls!L.deadline + Polls!L.slow + Polls!L.pause + hung

\* What has come is overlooked in a sleep at the most, or while a look hangs.
NotOverlooked ==
    Polls!There /\ hiccups = 0 =>
        /\ doing = "hanging" => since = now
        /\ doing = "asleep" => since + hung >= now
        /\ doing = "looking" => since + Polls!L.pause + hung >= now

PollsInv ==
    /\ PollsTypeOK
    /\ Paced /\ WithinLimits /\ NotOverlooked
    /\ Polls!GaveUpPatiently /\ Polls!EndsInTime

-------------------------------------------------------------------------------
(* The table of the loops.                                                 *)

\* A loop that counts its looks, and one that has a deadline.
Counted ==
    /\ Polls!L.deadline = Polls!Unlimited /\ Polls!L.slow = 0
    /\ Polls!L.first + (Polls!L.looks * Polls!L.pause) < Polls!Unlimited
    /\ Polls!L.first = 0 \/ Polls!L.first = Polls!L.pause
    /\ Polls!L.error \in {"look", "sleep", "end"} /\ (Polls!L.error = "look" => Polls!L.first = 0)
    /\ Polls!L.last => Polls!Patience = (Polls!L.looks * Polls!L.pause)
    /\ ~Polls!L.last =>
         Polls!L.looks > 0 /\ Polls!Patience + Polls!L.pause = (Polls!L.looks * Polls!L.pause)

Timed ==
    /\ Polls!L.deadline = 120 /\ Polls!L.looks = Polls!Unlimited /\ Polls!L.pause = 2
    /\ Polls!L.slow <= 2
    /\ Polls!L.first = 0 /\ Polls!L.last /\ Polls!L.error = "sleep" /\ Polls!Patience = 120

\* Every row of the table is one of the two.
LEMMA LoopRows ==
    ASSUME Polls!PollsAssumption, PollsTypeOK
    PROVE  /\ Polls!L.pause \in Nat /\ Polls!L.looks \in Nat /\ Polls!L.slow \in Nat
           /\ Polls!L.first \in Nat /\ Polls!L.deadline \in Nat /\ Polls!Patience \in Nat
           /\ Counted \/ Timed
<1>1. CASE loop = "GetLogStreams"
  <2>1. Polls!L = Polls!Row(0, 10, 20, Polls!Unlimited, 0, "look", TRUE)
    BY <1>1 DEF Polls!L, Polls!Loops, Polls!GetLogStreams
  <2>2. Polls!Patience = 20 * 10
    BY <1>1 DEF Polls!Patience
  <2>3. /\ Polls!L.first = 0 /\ Polls!L.pause = 10 /\ Polls!L.looks = 20
        /\ Polls!L.deadline = Polls!Unlimited
        /\ Polls!L.slow = 0 /\ Polls!L.error = "look" /\ Polls!L.last = TRUE
    BY <2>1 DEF Polls!Row
  <2>4. /\ Polls!L.first = 0 /\ Polls!L.pause = 10 /\ Polls!L.looks = 20
        /\ Polls!L.deadline = Polls!Unlimited
        /\ Polls!L.slow = 0
    BY <2>3
  <2>5. /\ Polls!L.pause \in Nat /\ Polls!L.looks \in Nat /\ Polls!L.slow \in Nat
        /\ Polls!L.first \in Nat /\ Polls!L.deadline \in Nat /\ Polls!Patience \in Nat
    BY <2>2, <2>4 DEF Polls!Unlimited, Polls!PollsAssumption
  <2>6. /\ Polls!L.first + (Polls!L.looks * Polls!L.pause) < Polls!Unlimited
        /\ (Polls!L.first = 0 \/ Polls!L.first = Polls!L.pause)
        /\ Polls!Patience = (Polls!L.looks * Polls!L.pause)
    BY <2>2, <2>4 DEF Polls!Unlimited, Polls!PollsAssumption
  <2> QED BY <2>3, <2>5, <2>6, Zenon DEF Counted
<1>2. CASE loop = "GetLogQueryResults"
  <2>1. Polls!L = Polls!Row(10, 10, 4, Polls!Unlimited, 0, "end", FALSE)
    BY <1>2 DEF Polls!L, Polls!Loops, Polls!GetLogQueryResults
  <2>2. Polls!Patience = 3 * 10
    BY <1>2 DEF Polls!Patience
  <2>3. /\ Polls!L.first = 10 /\ Polls!L.pause = 10 /\ Polls!L.looks = 4
        /\ Polls!L.deadline = Polls!Unlimited
        /\ Polls!L.slow = 0 /\ Polls!L.error = "end" /\ Polls!L.last = FALSE
    BY <2>1 DEF Polls!Row
  <2>4. /\ Polls!L.first = 10 /\ Polls!L.pause = 10 /\ Polls!L.looks = 4
        /\ Polls!L.deadline = Polls!Unlimited
        /\ Polls!L.slow = 0
    BY <2>3
  <2>5. /\ Polls!L.pause \in Nat /\ Polls!L.looks \in Nat /\ Polls!L.slow \in Nat
        /\ Polls!L.first \in Nat /\ Polls!L.deadline \in Nat /\ Polls!Patience \in Nat
    BY <2>2, <2>4 DEF Polls!Unlimited, Polls!PollsAssumption
  <2>6. /\ Polls!L.first + (Polls!L.looks * Polls!L.pause) < Polls!Unlimited
        /\ (Polls!L.first = 0 \/ Polls!L.first = Polls!L.pause)
        /\ Polls!L.looks > 0 /\ Polls!Patience + Polls!L.pause = (Polls!L.looks * Polls!L.pause)
    BY <2>2, <2>4 DEF Polls!Unlimited, Polls!PollsAssumption
  <2> QED BY <2>3, <2>5, <2>6, Zenon DEF Counted
<1>3. CASE loop = "GetLogQueryStats"
  <2>1. Polls!L = Polls!Row(10, 10, 4, Polls!Unlimited, 0, "end", FALSE)
    BY <1>3 DEF Polls!L, Polls!Loops, Polls!GetLogQueryStats, Polls!GetLogQueryResults
  <2>2. Polls!Patience = 3 * 10
    BY <1>3 DEF Polls!Patience
  <2>3. /\ Polls!L.first = 10 /\ Polls!L.pause = 10 /\ Polls!L.looks = 4
        /\ Polls!L.deadline = Polls!Unlimited
        /\ Polls!L.slow = 0 /\ Polls!L.error = "end" /\ Polls!L.last = FALSE
    BY <2>1 DEF Polls!Row
  <2>4. /\ Polls!L.first = 10 /\ Polls!L.pause = 10 /\ Polls!L.looks = 4
        /\ Polls!L.deadline = Polls!Unlimited
        /\ Polls!L.slow = 0
    BY <2>3
  <2>5. /\ Polls!L.pause \in Nat /\ Polls!L.looks \in Nat /\ Polls!L.slow \in Nat
        /\ Polls!L.first \in Nat /\ Polls!L.deadline \in Nat /\ Polls!Patience \in Nat
    BY <2>2, <2>4 DEF Polls!Unlimited, Polls!PollsAssumption
  <2>6. /\ Polls!L.first + (Polls!L.looks * Polls!L.pause) < Polls!Unlimited
        /\ (Polls!L.first = 0 \/ Polls!L.first = Polls!L.pause)
        /\ Polls!L.looks > 0 /\ Polls!Patience + Polls!L.pause = (Polls!L.looks * Polls!L.pause)
    BY <2>2, <2>4 DEF Polls!Unlimited, Polls!PollsAssumption
  <2> QED BY <2>3, <2>5, <2>6, Zenon DEF Counted
<1>4. CASE loop = "IsLogGroupExists"
  <2>1. Polls!L = Polls!Row(0, 0, 1, Polls!Unlimited, 0, "end", FALSE)
    BY <1>4 DEF Polls!L, Polls!Loops, Polls!IsLogGroupExists
  <2>2. Polls!Patience = 0
    BY <1>4 DEF Polls!Patience
  <2>3. /\ Polls!L.first = 0 /\ Polls!L.pause = 0 /\ Polls!L.looks = 1
        /\ Polls!L.deadline = Polls!Unlimited
        /\ Polls!L.slow = 0 /\ Polls!L.error = "end" /\ Polls!L.last = FALSE
    BY <2>1 DEF Polls!Row
  <2>4. /\ Polls!L.first = 0 /\ Polls!L.pause = 0 /\ Polls!L.looks = 1
        /\ Polls!L.deadline = Polls!Unlimited
        /\ Polls!L.slow = 0
    BY <2>3
  <2>5. /\ Polls!L.pause \in Nat /\ Polls!L.looks \in Nat /\ Polls!L.slow \in Nat
        /\ Polls!L.first \in Nat /\ Polls!L.deadline \in Nat /\ Polls!Patience \in Nat
    BY <2>2, <2>4 DEF Polls!Unlimited, Polls!PollsAssumption
  <2>6. /\ Polls!L.first + (Polls!L.looks * Polls!L.pause) < Polls!Unlimited
        /\ (Polls!L.first = 0 \/ Polls!L.first = Polls!L.pause)
        /\ Polls!L.looks > 0 /\ Polls!Patience + Polls!L.pause = (Polls!L.looks * Polls!L.pause)
    BY <2>2, <2>4 DEF Polls!Unlimited, Polls!PollsAssumption
  <2> QED BY <2>3, <2>5, <2>6, Zenon DEF Counted
<1>5. CASE loop = "ValidateMetricWithTest"
  <2>1. Polls!L = Polls!Row(0, 20, Retries, Polls!Unlimited, 0, "sleep", TRUE)
    BY <1>5 DEF Polls!L, Polls!Loops, Polls!ValidateMetricWithTest
  <2>2. Polls!Patience = Retries * 20
    BY <1>5 DEF Polls!Patience
  <2>3. /\ Polls!L.first = 0 /\ Polls!L.pause = 20 /\ Polls!L.looks = Retries
        /\ Polls!L.deadline = Polls!Unlimited
        /\ Polls!L.slow = 0 /\ Polls!L.error = "sleep" /\ Polls!L.last = TRUE
    BY <2>1 DEF Polls!Row
  <2>4. /\ Polls!L.first = 0 /\ Polls!L.pause = 20 /\ Polls!L.looks = Retries
        /\ Polls!L.deadline = Polls!Unlimited
        /\ Polls!L.slow = 0
    BY <2>3
  <2>5. /\ Polls!L.pause \in Nat /\ Polls!L.looks \in Nat /\ Polls!L.slow \in Nat
        /\ Polls!L.first \in Nat /\ Polls!L.deadline \in Nat /\ Polls!Patience \in Nat
    BY <2>2, <2>4 DEF Polls!Unlimited, Polls!PollsAssumption
  <2>6. /\ Polls!L.first + (Polls!L.looks * Polls!L.pause) < Polls!Unlimited
        /\ (Polls!L.first = 0 \/ Polls!L.first = Polls!L.pause)
        /\ Polls!Patience = (Polls!L.looks * Polls!L.pause)
    BY <2>2, <2>4 DEF Polls!Unlimited, Polls!PollsAssumption
  <2> QED BY <2>3, <2>5, <2>6, Zenon DEF Counted
<1>6. CASE loop = "WaitForOTLPEndpoint"
  <2>1. Polls!L = Polls!Row(0, 2, Polls!Unlimited, 120, 0, "sleep", TRUE)
    BY <1>6 DEF Polls!L, Polls!Loops, Polls!WaitForOTLPEndpoint
  <2>2. Polls!Patience = 120
    BY <1>6 DEF Polls!Patience
  <2>3. /\ Polls!L.first = 0 /\ Polls!L.pause = 2 /\ Polls!L.looks = Polls!Unlimited
        /\ Polls!L.deadline = 120
        /\ Polls!L.slow = 0 /\ Polls!L.error = "sleep" /\ Polls!L.last = TRUE
    BY <2>1 DEF Polls!Row
  <2>4. /\ Polls!L.first = 0 /\ Polls!L.pause = 2 /\ Polls!L.looks = Polls!Unlimited
        /\ Polls!L.deadline = 120
        /\ Polls!L.slow = 0
    BY <2>3
  <2>5. /\ Polls!L.pause \in Nat /\ Polls!L.looks \in Nat /\ Polls!L.slow \in Nat
        /\ Polls!L.first \in Nat /\ Polls!L.deadline \in Nat /\ Polls!Patience \in Nat
    BY <2>2, <2>4 DEF Polls!Unlimited, Polls!PollsAssumption
  <2>6. Polls!L.slow <= 2
    BY <2>4
  <2> QED BY <2>2, <2>3, <2>5, <2>6, Zenon DEF Timed
<1>7. CASE loop = "WaitForTCPPort"
  <2>1. Polls!L = Polls!Row(0, 2, Polls!Unlimited, 120, 2, "sleep", TRUE)
    BY <1>7 DEF Polls!L, Polls!Loops, Polls!WaitForTCPPort
  <2>2. Polls!Patience = 120
    BY <1>7 DEF Polls!Patience
  <2>3. /\ Polls!L.first = 0 /\ Polls!L.pause = 2 /\ Polls!L.looks = Polls!Unlimited
        /\ Polls!L.deadline = 120
        /\ Polls!L.slow = 2 /\ Polls!L.error = "sleep" /\ Polls!L.last = TRUE
    BY <2>1 DEF Polls!Row
  <2>4. /\ Polls!L.first = 0 /\ Polls!L.pause = 2 /\ Polls!L.looks = Polls!Unlimited
        /\ Polls!L.deadline = 120
        /\ Polls!L.slow = 2
    BY <2>3
  <2>5. /\ Polls!L.pause \in Nat /\ Polls!L.looks \in Nat /\ Polls!L.slow \in Nat
        /\ Polls!L.first \in Nat /\ Polls!L.deadline \in Nat /\ Polls!Patience \in Nat
    BY <2>2, <2>4 DEF Polls!Unlimited, Polls!PollsAssumption
  <2>6. Polls!L.slow <= 2
    BY <2>4
  <2> QED BY <2>2, <2>3, <2>5, <2>6, Zenon DEF Timed
<1>8. CASE loop = "FindStackInstanceId"
  <2>1. Polls!L = Polls!Row(0, 60, Minutes + 1, Polls!Unlimited, 0, "sleep", TRUE)
    BY <1>8 DEF Polls!L, Polls!Loops, Polls!FindStackInstanceId
  <2>2. Polls!Patience = (Minutes + 1) * 60
    BY <1>8 DEF Polls!Patience
  <2>3. /\ Polls!L.first = 0 /\ Polls!L.pause = 60 /\ Polls!L.looks = Minutes + 1
        /\ Polls!L.deadline = Polls!Unlimited
        /\ Polls!L.slow = 0 /\ Polls!L.error = "sleep" /\ Polls!L.last = TRUE
    BY <2>1 DEF Polls!Row
  <2>4. /\ Polls!L.first = 0 /\ Polls!L.pause = 60 /\ Polls!L.looks = Minutes + 1
        /\ Polls!L.deadline = Polls!Unlimited
        /\ Polls!L.slow = 0
    BY <2>3
  <2>5. /\ Polls!L.pause \in Nat /\ Polls!L.looks \in Nat /\ Polls!L.slow \in Nat
        /\ Polls!L.first \in Nat /\ Polls!L.deadline \in Nat /\ Polls!Patience \in Nat
    BY <2>2, <2>4 DEF Polls!Unlimited, Polls!PollsAssumption
  <2>6. /\ Polls!L.first + (Polls!L.looks * Polls!L.pause) < Polls!Unlimited
        /\ (Polls!L.first = 0 \/ Polls!L.first = Polls!L.pause)
        /\ Polls!Patience = (Polls!L.looks * Polls!L.pause)
    BY <2>2, <2>4 DEF Polls!Unlimited, Polls!PollsAssumption
  <2> QED BY <2>3, <2>5, <2>6, Zenon DEF Counted
<1>9. CASE loop = "install"
  <2>1. Polls!L = Polls!Row(0, 30, 10, Polls!Unlimited, 0, "sleep", TRUE)
    BY <1>9 DEF Polls!L, Polls!Loops, Polls!install
  <2>2. Polls!Patience = 10 * 30
    BY <1>9 DEF Polls!Patience
  <2>3. /\ Polls!L.first = 0 /\ Polls!L.pause = 30 /\ Polls!L.looks = 10
        /\ Polls!L.deadline = Polls!Unlimited
        /\ Polls!L.slow = 0 /\ Polls!L.error = "sleep" /\ Polls!L.last = TRUE
    BY <2>1 DEF Polls!Row
  <2>4. /\ Polls!L.first = 0 /\ Polls!L.pause = 30 /\ Polls!L.looks = 10
        /\ Polls!L.deadline = Polls!Unlimited
        /\ Polls!L.slow = 0
    BY <2>3
  <2>5. /\ Polls!L.pause \in Nat /\ Polls!L.looks \in Nat /\ Polls!L.slow \in Nat
        /\ Polls!L.first \in Nat /\ Polls!L.deadline \in Nat /\ Polls!Patience \in Nat
    BY <2>2, <2>4 DEF Polls!Unlimited, Polls!PollsAssumption
  <2>6. /\ Polls!L.first + (Polls!L.looks * Polls!L.pause) < Polls!Unlimited
        /\ (Polls!L.first = 0 \/ Polls!L.first = Polls!L.pause)
        /\ Polls!Patience = (Polls!L.looks * Polls!L.pause)
    BY <2>2, <2>4 DEF Polls!Unlimited, Polls!PollsAssumption
  <2> QED BY <2>3, <2>5, <2>6, Zenon DEF Counted
<1>10. loop \in {"GetLogStreams", "GetLogQueryResults", "GetLogQueryStats", "IsLogGroupExists",
                 "ValidateMetricWithTest", "WaitForOTLPEndpoint", "WaitForTCPPort",
                 "FindStackInstanceId", "install"}
  BY DEF PollsTypeOK, Polls!Loops
<1> QED BY <1>1, <1>2, <1>3, <1>4, <1>5, <1>6, <1>7, <1>8, <1>9, <1>10

\* A product of numbers is a number.
LEMMA Product ==
    ASSUME NEW t \in Nat, NEW p \in Nat
    PROVE  /\ (t * p) \in Nat /\ ((t + 1) * p) = (t * p) + p
OBVIOUS

\* One round more is one factor more.
LEMMA ProductGrows ==
    ASSUME NEW t \in Nat, NEW k \in Nat, NEW p \in Nat, t <= k
    PROVE  (t * p) <= (k * p)
<1>1. (k - t) \in Nat
  OBVIOUS
<1>2. ((k - t) * p) \in Nat /\ (t * p) \in Nat
  BY <1>1
<1>3. (k * p) = (t * p) + ((k - t) * p)
  OBVIOUS
<1> QED BY <1>2, <1>3

-------------------------------------------------------------------------------
(* Each step of a loop keeps it.                                           *)

\* A loop starts in the invariant of the loops.
LEMMA InitPollsInv == ASSUME Polls!PollsAssumption, Polls!PollsInit PROVE PollsInv
<1>1. PollsTypeOK
  BY DEF Polls!PollsInit, PollsTypeOK, Polls!Unlimited
<1>2. /\ Polls!L.pause \in Nat /\ Polls!L.looks \in Nat /\ Polls!L.slow \in Nat
      /\ Polls!L.first \in Nat
      /\ Polls!L.deadline \in Nat /\ Polls!Patience \in Nat /\ (Counted \/ Timed)
  BY <1>1, LoopRows
<1>3. /\ doing = "asleep" <=> Polls!L.first > 0
      /\ doing \in {"looking", "asleep"}
      /\ tries = 0 /\ now = 0 /\ hiccups = 0 /\ hung = 0 /\ ~Polls!There
  BY <1>2 DEF Polls!PollsInit, Polls!There, Polls!L
<1>4. (tries * Polls!L.pause) = 0 /\ (hiccups * Polls!L.pause) = 0
  BY <1>2, <1>3
<1>5. Skipped = 0
  BY <1>4 DEF Skipped
<1>6. Paced
  BY <1>2, <1>3, <1>4, <1>5 DEF Paced
<1>7. WithinLimits
  BY <1>2, <1>3 DEF WithinLimits, Counted, Timed, Polls!Unlimited
<1>8. NotOverlooked /\ Polls!GaveUpPatiently
  BY <1>3 DEF NotOverlooked, Polls!GaveUpPatiently
<1>9. Polls!EndsInTime
  <2>1. Polls!L.deadline = Polls!Unlimited => now <= Polls!Patience + hung + Polls!L.first
    BY <1>2, <1>3
  <2>2. now <= Polls!Patience + hung + (Polls!L.pause + Polls!L.slow)
    BY <1>2, <1>3
  <2> QED BY <2>1, <2>2 DEF Polls!EndsInTime
<1> QED BY <1>1, <1>6, <1>7, <1>8, <1>9 DEF PollsInv

\* A look at the table, and at how long the loop may have taken.
LEMMA LoopLooks ==
    ASSUME Polls!PollsAssumption, PollsInv
    PROVE  /\ tries \in Nat /\ now \in Nat /\ since \in Nat /\ hiccups \in Nat /\ hung \in Nat
           /\ Polls!L.pause \in Nat /\ Polls!L.looks \in Nat /\ Polls!L.slow \in Nat
           /\ Polls!L.first \in Nat
           /\ Polls!L.deadline \in Nat /\ Polls!Patience \in Nat /\ Skipped \in Nat
           /\ (tries * Polls!L.pause) \in Nat
           /\ Counted \/ Timed
<1>1. /\ tries \in Nat /\ now \in Nat /\ since \in Nat /\ hiccups \in Nat /\ hung \in Nat
      /\ Polls!L.pause \in Nat /\ Polls!L.looks \in Nat /\ Polls!L.slow \in Nat
      /\ Polls!L.first \in Nat
      /\ Polls!L.deadline \in Nat /\ Polls!Patience \in Nat /\ (Counted \/ Timed)
  BY LoopRows DEF PollsInv, PollsTypeOK
<1>2. (tries * Polls!L.pause) \in Nat /\ (hiccups * Polls!L.pause) \in Nat
  BY <1>1
<1>3. Skipped \in Nat
  BY <1>2 DEF Skipped
<1> QED BY <1>1, <1>2, <1>3

\* Ends leave nothing to show but that the loop was patient.
LEMMA LoopEndStep ==
    ASSUME Polls!PollsAssumption, PollsInv, UNCHANGED <<loop, now, hung>>, PollsTypeOK',
           doing' \in {"found", "failed"}
    PROVE  PollsInv'
<1>1. UNCHANGED Polls!L /\ UNCHANGED Polls!Patience
  BY DEF Polls!L, Polls!Patience
<1>2. Paced' /\ NotOverlooked' /\ Polls!GaveUpPatiently'
  BY DEF Paced, NotOverlooked, Polls!GaveUpPatiently
<1>3. WithinLimits' /\ Polls!EndsInTime'
  BY <1>1 DEF PollsInv, WithinLimits, Polls!EndsInTime
<1> QED BY <1>2, <1>3 DEF PollsInv

\* What a loop waits for may come.
LEMMA LoopComeStep == ASSUME Polls!PollsAssumption, PollsInv, Polls!Come PROVE PollsInv'
<1>1. /\ doing \in {"looking", "hanging", "asleep"} /\ since' = now
      /\ now \in Nat /\ hung \in Nat /\ Polls!L.pause \in Nat
      /\ UNCHANGED <<loop, doing, tries, now, hiccups, hung>>
  BY LoopLooks DEF Polls!Come
<1>2. UNCHANGED Polls!L /\ UNCHANGED Polls!Patience /\ UNCHANGED Skipped
  BY <1>1 DEF Polls!L, Polls!Patience, Skipped
<1>3. PollsTypeOK'
  BY <1>1 DEF PollsInv, PollsTypeOK
<1>4. Paced' /\ WithinLimits'
  BY <1>1, <1>2 DEF PollsInv, Paced, WithinLimits
<1>5. NotOverlooked' /\ Polls!GaveUpPatiently'
  <2>1. since' = now /\ now \in Nat /\ hung \in Nat /\ Polls!L.pause \in Nat
    BY <1>1
  <2>2. since' + Polls!L.pause + hung >= now /\ since' + hung >= now
    BY <2>1
  <2>3. doing' # "gave up"
    BY <1>1
  <2> QED BY <1>1, <1>2, <2>2, <2>3 DEF NotOverlooked, Polls!GaveUpPatiently
<1>6. Polls!EndsInTime'
  BY <1>1, <1>2 DEF PollsInv, Polls!EndsInTime
<1> QED BY <1>3, <1>4, <1>5, <1>6 DEF PollsInv

\* A look that does not find it, and one that fails.
InVain(next) ==
    next = "asleep" /\ hiccups' = hiccups /\ ~Polls!There /\ now' \in {now, now + Polls!L.slow}

Failing(next) ==
    hiccups' = hiccups + 1 /\ now' = now
        /\ next = IF Polls!L.error = "look" THEN "looking" ELSE "asleep"

\* Where it looks again or sleeps, or gives up after the last look.
LEMMA LoopOnwardStep ==
    ASSUME Polls!PollsAssumption, PollsInv, NEW next \in {"looking", "asleep"}, Polls!Onward(next),
           doing = "looking", ~Polls!Exhausted, UNCHANGED <<loop, since, hung>>,
           InVain(next) \/ Failing(next)
    PROVE  PollsInv'
<1>0. /\ tries \in Nat /\ now \in Nat /\ since \in Nat /\ hiccups \in Nat /\ hung \in Nat
      /\ Polls!L.pause \in Nat /\ Polls!L.looks \in Nat /\ Polls!L.slow \in Nat
      /\ Polls!L.first \in Nat
      /\ Polls!L.deadline \in Nat /\ Polls!Patience \in Nat /\ Skipped \in Nat
      /\ (tries * Polls!L.pause) \in Nat
      /\ Counted \/ Timed
  BY LoopLooks
<1>1. UNCHANGED Polls!L /\ UNCHANGED Polls!Patience
  BY DEF Polls!L, Polls!Patience
<1>16. doing' = next \/ doing' = "gave up"
  BY DEF Polls!Onward
<1>2. tries' = tries + 1 /\ tries < Polls!L.looks /\ now < Polls!L.deadline
  <2>1. tries' = tries + 1
    BY DEF Polls!Onward
  <2>2. ~(tries >= Polls!L.looks) /\ ~(now >= Polls!L.deadline)
    BY DEF Polls!Exhausted
  <2>3. tries < Polls!L.looks /\ now < Polls!L.deadline
    BY <1>0, <2>2
  <2> QED BY <2>1, <2>3
<1>3. (tries' * Polls!L.pause) = (tries * Polls!L.pause) + Polls!L.pause
      /\ ((hiccups + 1) * Polls!L.pause) = (hiccups * Polls!L.pause) + Polls!L.pause
  BY <1>0, <1>2, Product
<1>4. PollsTypeOK'
  <2>1. now' \in Nat /\ tries' \in Nat /\ hiccups' \in Nat
    BY <1>0, <1>2 DEF InVain, Failing
  <2> QED BY <1>16, <2>1 DEF PollsInv, PollsTypeOK
<1>5. /\ now + Skipped >= Polls!L.first + (tries * Polls!L.pause)
      /\ Polls!L.deadline = Polls!Unlimited =>
           now + Skipped = Polls!L.first + (tries * Polls!L.pause)
  BY DEF PollsInv, Paced
<1>6. Failing(next) /\ Polls!L.error = "look" => Skipped' = Skipped + Polls!L.pause
  BY <1>0, <1>1, <1>3 DEF Skipped, Failing
<1>7. InVain(next) \/ Polls!L.error # "look" => Skipped' = Skipped
  BY <1>1 DEF Skipped, InVain
<1>8. \/ next = "asleep" /\ Skipped' = Skipped
      \/ next = "looking" /\ Skipped' = Skipped + Polls!L.pause
  BY <1>6, <1>7 DEF InVain, Failing
<1>14. /\ now' \in Nat /\ now' >= now /\ now' <= now + Polls!L.slow
       /\ Polls!L.deadline = Polls!Unlimited => now' = now
  <2>1. Polls!L.deadline = Polls!Unlimited => Polls!L.slow = 0
    BY <1>0 DEF Counted, Timed, Polls!Unlimited
  <2>2. now' \in {now, now + Polls!L.slow}
    BY DEF InVain, Failing
  <2> QED BY <1>0, <2>1, <2>2
<1>15. ~Polls!There' \/ hiccups' # 0
  <2>1. CASE InVain(next)
    BY <2>1 DEF InVain, Polls!There
  <2>2. CASE Failing(next)
    BY <1>0, <2>2 DEF Failing
  <2> QED BY <2>1, <2>2
<1>9. Paced'
  <2>1. CASE doing' = "looking"
    <3>1. next = "looking" /\ Skipped' = Skipped + Polls!L.pause
      BY <1>8, <1>16, <2>1
    <3>2. now' + Skipped' >= Polls!L.first + (tries' * Polls!L.pause)
      BY <1>0, <1>3, <1>5, <1>14, <3>1
    <3>3. Polls!L.deadline = Polls!Unlimited =>
            now' + Skipped' = Polls!L.first + (tries' * Polls!L.pause)
      BY <1>0, <1>3, <1>5, <1>14, <3>1
    <3> QED BY <1>1, <2>1, <3>2, <3>3 DEF Paced
  <2>2. CASE doing' = "asleep"
    <3>1. next = "asleep" /\ Skipped' = Skipped
      BY <1>8, <1>16, <2>2
    <3>2. now' + Skipped' + Polls!L.pause >= Polls!L.first + (tries' * Polls!L.pause)
      BY <1>0, <1>3, <1>5, <1>14, <3>1
    <3>3. Polls!L.deadline = Polls!Unlimited =>
            now' + Skipped' + Polls!L.pause = Polls!L.first + (tries' * Polls!L.pause)
      BY <1>0, <1>3, <1>5, <1>14, <3>1
    <3>4. tries' > 0
      BY <1>0, <1>2
    <3> QED BY <1>0, <1>1, <2>2, <3>2, <3>3, <3>4 DEF Paced
  <2>3. CASE doing' = "gave up"
    BY <2>3 DEF Paced
  <2> QED BY <1>16, <2>1, <2>2, <2>3
<1>10. WithinLimits'
  <2>1. doing' # "gave up" => Polls!L.last \/ tries' # Polls!L.looks
    BY DEF Polls!Onward
  <2>4. tries' <= Polls!L.looks /\ (tries' # Polls!L.looks => tries' < Polls!L.looks)
    BY <1>0, <1>2
  <2>2. tries' <= Polls!L.looks /\ (doing' # "gave up" => Polls!L.last \/ tries' < Polls!L.looks)
    BY <2>1, <2>4
  <2>3. now' < Polls!L.deadline + Polls!L.slow + hung
            /\ now' < Polls!L.deadline + Polls!L.slow + Polls!L.pause + hung
    BY <1>0, <1>2, <1>14
  <2> QED BY <1>1, <1>16, <2>2, <2>3 DEF WithinLimits
<1>11. NotOverlooked'
  BY <1>15 DEF NotOverlooked
<1>17. ASSUME tries' = Polls!L.looks, ~Polls!L.last
       PROVE  now' + Skipped' >= Polls!Patience
  <2>1. Counted /\ Polls!L.deadline = Polls!Unlimited
    BY <1>0, <1>17 DEF Counted, Timed
  <2>2. Polls!Patience + Polls!L.pause = (tries' * Polls!L.pause)
    BY <1>17, <2>1 DEF Counted
  <2>3. now + Skipped = Polls!L.first + (tries * Polls!L.pause) /\ now' = now
    BY <1>5, <1>14, <2>1
  <2>4. Skipped' \in Nat /\ Skipped' >= Skipped
    <3>1. CASE Skipped' = Skipped
      BY <1>0, <3>1
    <3>2. CASE Skipped' = Skipped + Polls!L.pause
      BY <1>0, <3>2
    <3> QED BY <1>8, <3>1, <3>2
  <2>5. Polls!Patience = (tries * Polls!L.pause)
    BY <1>0, <1>3, <2>2
  <2>6. now + Skipped >= Polls!Patience
    BY <1>0, <2>3, <2>5
  <2>7. now' = now
    BY <2>3
  <2>8. \A a, b, c, d \in Nat : a + b >= d /\ c >= b => a + c >= d
    OBVIOUS
  <2>9. now + Skipped' >= Polls!Patience
    BY <1>0, <2>4, <2>6, <2>8
  <2> QED BY <2>7, <2>9
<1>12. Polls!GaveUpPatiently'
  <2> SUFFICES ASSUME doing' = "gave up"
               PROVE  now' + Skipped' >= Polls!Patience
    BY <1>1, <1>15 DEF Polls!GaveUpPatiently, Skipped
  <2>1. tries' = Polls!L.looks /\ ~Polls!L.last
    BY DEF Polls!Onward
  <2> QED BY <1>17, <2>1
<1>13. Polls!EndsInTime'
  <2>1. CASE Polls!L.deadline = Polls!Unlimited
    <3>1. now' = now
      BY <1>14, <2>1
    <3> QED BY <1>1, <3>1 DEF PollsInv, Polls!EndsInTime
  <2>2. CASE Polls!L.deadline # Polls!Unlimited
    <3>1. Polls!Patience = Polls!L.deadline
      BY <1>0, <2>2 DEF Counted, Timed
    <3>2. now' <= Polls!Patience + hung + (Polls!L.pause + Polls!L.slow)
      BY <1>0, <1>2, <1>14, <3>1
    <3> QED BY <1>1, <2>2, <3>2 DEF Polls!EndsInTime
  <2> QED BY <2>1, <2>2
<1> QED BY <1>4, <1>9, <1>10, <1>11, <1>12, <1>13 DEF PollsInv

\* A loop that gives up has spent its looks and its time.
LEMMA LoopGiveUpStep == ASSUME Polls!PollsAssumption, PollsInv, Polls!GiveUp PROVE PollsInv'
<1>0. /\ tries \in Nat /\ now \in Nat /\ since \in Nat /\ hiccups \in Nat /\ hung \in Nat
      /\ Polls!L.pause \in Nat /\ Polls!L.looks \in Nat /\ Polls!L.slow \in Nat
      /\ Polls!L.first \in Nat
      /\ Polls!L.deadline \in Nat /\ Polls!Patience \in Nat /\ Skipped \in Nat
      /\ (tries * Polls!L.pause) \in Nat
      /\ Counted \/ Timed
  BY LoopLooks
<1>1. /\ doing = "looking" /\ doing' = "gave up"
      /\ UNCHANGED <<loop, tries, now, since, hiccups, hung>>
  BY DEF Polls!GiveUp
<1>2. UNCHANGED Polls!L /\ UNCHANGED Polls!Patience /\ UNCHANGED Skipped
  BY <1>1 DEF Polls!L, Polls!Patience, Skipped
<1>3. now + Skipped >= Polls!Patience
  <2>1. /\ now + Skipped >= Polls!L.first + (tries * Polls!L.pause)
        /\ Polls!L.deadline = Polls!Unlimited =>
             now + Skipped = Polls!L.first + (tries * Polls!L.pause)
    BY <1>1 DEF PollsInv, Paced
  <2>2. tries <= Polls!L.looks /\ (Polls!L.last \/ tries < Polls!L.looks)
    BY <1>1 DEF PollsInv, WithinLimits
  <2>3. tries >= Polls!L.looks \/ now >= Polls!L.deadline
    BY DEF Polls!GiveUp, Polls!Exhausted
  <2>4. CASE Counted
    <3>1. Polls!L.deadline = Polls!Unlimited
              /\ Polls!L.first + (Polls!L.looks * Polls!L.pause) < Polls!Unlimited
      BY <2>4 DEF Counted
    <3>2. (tries * Polls!L.pause) <= (Polls!L.looks * Polls!L.pause)
              /\ (Polls!L.looks * Polls!L.pause) \in Nat
      BY <1>0, <2>2, ProductGrows
    <3>3. now < Polls!Unlimited
      BY <1>0, <2>1, <3>1, <3>2 DEF Polls!Unlimited
    <3>4. tries >= Polls!L.looks
      BY <1>0, <2>3, <3>1, <3>3 DEF Polls!Unlimited
    <3>5. tries = Polls!L.looks /\ Polls!L.last
      BY <1>0, <2>2, <3>4
    <3>6. Polls!Patience = (tries * Polls!L.pause)
      BY <2>4, <3>5 DEF Counted
    <3> QED BY <1>0, <2>1, <3>6
  <2>5. CASE Timed
    <3>1. Polls!L.deadline = 120 /\ Polls!L.looks = 10000 /\ Polls!L.pause = 2
              /\ Polls!Patience = 120 /\ Polls!L.first = 0
          /\ Skipped = 0
      BY <2>5 DEF Timed, Polls!Unlimited, Skipped
    <3>2. CASE tries >= Polls!L.looks
      <4>1. (tries * Polls!L.pause) = (tries * 2)
        BY <3>1
      <4>2. now >= (tries * 2)
        BY <1>0, <2>1, <3>1, <4>1
      <4> QED BY <1>0, <3>1, <3>2, <4>2
    <3>3. CASE now >= Polls!L.deadline
      BY <1>0, <3>1, <3>3
    <3> QED BY <2>3, <3>2, <3>3
  <2> QED BY <1>0, <2>4, <2>5
<1>4. Polls!There /\ hiccups = 0 => since + Polls!L.pause + Polls!L.slow + hung >= now
  <2>1. Polls!There /\ hiccups = 0 => since + Polls!L.pause + hung >= now
    BY <1>1 DEF PollsInv, NotOverlooked
  <2> QED BY <1>0, <2>1
<1>5. Polls!GaveUpPatiently'
  BY <1>1, <1>2, <1>3, <1>4 DEF Polls!GaveUpPatiently, Skipped, Polls!There
<1>6. PollsTypeOK' /\ Paced' /\ NotOverlooked'
  BY <1>1 DEF PollsInv, PollsTypeOK, Paced, NotOverlooked
<1>7. WithinLimits' /\ Polls!EndsInTime'
  BY <1>1, <1>2 DEF PollsInv, WithinLimits, Polls!EndsInTime
<1> QED BY <1>5, <1>6, <1>7 DEF PollsInv

\* A sleep, the one before the first look included.
LEMMA LoopSleepStep == ASSUME Polls!PollsAssumption, PollsInv, Polls!Sleep PROVE PollsInv'
<1>0. /\ tries \in Nat /\ now \in Nat /\ since \in Nat /\ hiccups \in Nat /\ hung \in Nat
      /\ Polls!L.pause \in Nat /\ Polls!L.looks \in Nat /\ Polls!L.slow \in Nat
      /\ Polls!L.first \in Nat
      /\ Polls!L.deadline \in Nat /\ Polls!Patience \in Nat /\ Skipped \in Nat
      /\ (tries * Polls!L.pause) \in Nat
      /\ Counted \/ Timed
  BY LoopLooks
<1>1. doing = "asleep" /\ doing' = "looking" /\ UNCHANGED <<loop, tries, since, hiccups, hung>>
  BY DEF Polls!Sleep
<1>2. UNCHANGED Polls!L /\ UNCHANGED Polls!Patience /\ UNCHANGED Skipped
  BY <1>1 DEF Polls!L, Polls!Patience, Skipped
<1>3. Polls!L.first = 0 \/ Polls!L.first = Polls!L.pause
  BY <1>0 DEF Counted, Timed
<1>4. now' = now + Polls!L.pause
  <2>1. CASE now = 0 /\ Polls!L.first > 0
    BY <1>0, <1>3, <2>1 DEF Polls!Sleep
  <2>2. CASE ~(now = 0 /\ Polls!L.first > 0)
    BY <2>2 DEF Polls!Sleep
  <2> QED BY <2>1, <2>2
<1>5. now' \in Nat
  BY <1>0, <1>4
<1>6. /\ now' + Skipped >= Polls!L.first + (tries * Polls!L.pause)
      /\ Polls!L.deadline = Polls!Unlimited =>
           now' + Skipped = Polls!L.first + (tries * Polls!L.pause)
  <2>1. CASE tries > 0
    <3>1. /\ now + Skipped + Polls!L.pause >= Polls!L.first + (tries * Polls!L.pause)
          /\ Polls!L.deadline = Polls!Unlimited =>
               now + Skipped + Polls!L.pause = Polls!L.first + (tries * Polls!L.pause)
      BY <1>1, <2>1 DEF PollsInv, Paced
    <3> QED BY <1>0, <1>4, <3>1
  <2>2. CASE tries = 0
    <3>1. now = 0 /\ Polls!L.first > 0 /\ (tries * Polls!L.pause) = 0
      BY <1>0, <1>1, <2>2 DEF PollsInv, Paced
    <3>2. Polls!L.first = Polls!L.pause /\ Polls!L.error # "look"
      BY <1>0, <1>3, <3>1 DEF Counted, Timed
    <3>3. Skipped = 0
      BY <3>2 DEF Skipped
    <3>4. now' = Polls!L.first
      BY <1>0, <1>4, <3>1, <3>2
    <3> QED BY <1>0, <3>1, <3>3, <3>4
  <2> QED BY <1>0, <2>1, <2>2
<1>7. tries <= Polls!L.looks /\ (Polls!L.last \/ tries < Polls!L.looks)
  BY <1>1 DEF PollsInv, WithinLimits
<1>8. Paced'
  BY <1>1, <1>2, <1>6 DEF Paced
<1>9. WithinLimits'
  <2>1. Polls!L.deadline # Polls!Unlimited => now < Polls!L.deadline + Polls!L.slow + hung
    BY <1>1 DEF PollsInv, WithinLimits
  <2>2. Polls!L.deadline # Polls!Unlimited =>
          now' < Polls!L.deadline + Polls!L.slow + Polls!L.pause + hung
    BY <1>0, <1>4, <2>1
  <2> QED BY <1>1, <1>2, <1>7, <2>2 DEF WithinLimits
<1>10. NotOverlooked'
  <2>1. Polls!There /\ hiccups = 0 => since + hung >= now
    BY <1>1 DEF PollsInv, NotOverlooked
  <2>2. Polls!There /\ hiccups = 0 => since + Polls!L.pause + hung >= now'
    BY <1>0, <1>4, <2>1
  <2> QED BY <1>1, <1>2, <2>2 DEF NotOverlooked, Polls!There
<1>11. Polls!GaveUpPatiently' /\ PollsTypeOK'
  BY <1>1, <1>5 DEF PollsInv, Polls!GaveUpPatiently, PollsTypeOK
<1>12. Polls!EndsInTime'
  <2>1. CASE Counted
    <3>1. Polls!L.deadline = Polls!Unlimited
              /\ now' + Skipped = Polls!L.first + (tries * Polls!L.pause)
      BY <1>6, <2>1 DEF Counted
    <3>2. now' <= Polls!Patience + hung + Polls!L.first
      <4>1. CASE Polls!L.last
        <5>1. Polls!Patience = (Polls!L.looks * Polls!L.pause)
          BY <2>1, <4>1 DEF Counted
        <5>2. (tries * Polls!L.pause) <= Polls!Patience
          BY <1>0, <1>7, <5>1, ProductGrows
        <5> QED BY <1>0, <1>5, <3>1, <5>2
      <4>2. CASE ~Polls!L.last
        <5>0. Polls!Patience + Polls!L.pause = (Polls!L.looks * Polls!L.pause)
                  /\ tries < Polls!L.looks
          BY <1>7, <2>1, <4>2 DEF Counted
        <5>1. Polls!Patience + Polls!L.pause = (Polls!L.looks * Polls!L.pause)
                  /\ tries + 1 <= Polls!L.looks /\ tries + 1 \in Nat
          BY <1>0, <5>0
        <5>2. ((tries + 1) * Polls!L.pause) <= (Polls!L.looks * Polls!L.pause)
          BY <1>0, <5>1, ProductGrows
        <5>3. ((tries + 1) * Polls!L.pause) = (tries * Polls!L.pause) + Polls!L.pause
          BY <1>0, Product
        <5>4. (tries * Polls!L.pause) <= Polls!Patience
          BY <1>0, <5>1, <5>2, <5>3
        <5> QED BY <1>0, <1>5, <3>1, <5>4
      <4> QED BY <4>1, <4>2
    <3> QED BY <1>1, <1>2, <3>1, <3>2 DEF Polls!EndsInTime
  <2>2. CASE Timed
    <3>1. Polls!L.deadline # Polls!Unlimited /\ Polls!L.deadline = 120 /\ Polls!Patience = 120
      BY <2>2 DEF Timed, Polls!Unlimited
    <3>2. now < Polls!L.deadline + Polls!L.slow + hung
      BY <1>1, <3>1 DEF PollsInv, WithinLimits
    <3>3. now' <= Polls!Patience + hung + (Polls!L.pause + Polls!L.slow)
      BY <1>0, <1>4, <3>1, <3>2
    <3> QED BY <1>1, <1>2, <3>1, <3>3 DEF Polls!EndsInTime
  <2> QED BY <1>0, <2>1, <2>2
<1> QED BY <1>8, <1>9, <1>10, <1>11, <1>12 DEF PollsInv

\* A look that the endpoint keeps, which only a loop with a deadline has.
LEMMA LoopHangStep == ASSUME Polls!PollsAssumption, PollsInv, Polls!Hang PROVE PollsInv'
<1>0. /\ tries \in Nat /\ now \in Nat /\ Polls!L.looks \in Nat /\ Polls!L.deadline \in Nat
  BY LoopLooks
<1>1. /\ doing = "looking" /\ doing' = "hanging" /\ ~Polls!There
      /\ ~(tries >= Polls!L.looks) /\ ~(now >= Polls!L.deadline)
      /\ loop = "WaitForOTLPEndpoint"
      /\ UNCHANGED <<loop, tries, now, since, hiccups, hung>>
  BY DEF Polls!Hang, Polls!Exhausted
<1>2. UNCHANGED Polls!L /\ UNCHANGED Polls!Patience /\ UNCHANGED Skipped
  BY <1>1 DEF Polls!L, Polls!Patience, Skipped
<1>3. Polls!L.deadline # Polls!Unlimited
  BY <1>1 DEF Polls!L, Polls!Loops, Polls!WaitForOTLPEndpoint, Polls!Row, Polls!Unlimited
<1>4. tries < Polls!L.looks /\ now < Polls!L.deadline
  BY <1>0, <1>1
<1>5. PollsTypeOK' /\ Paced'
  BY <1>1, <1>2 DEF PollsInv, PollsTypeOK, Paced
<1>6. WithinLimits'
  BY <1>1, <1>2, <1>3, <1>4 DEF PollsInv, WithinLimits
<1>7. NotOverlooked' /\ Polls!GaveUpPatiently' /\ Polls!EndsInTime'
  BY <1>1, <1>2 DEF PollsInv, NotOverlooked, Polls!There, Polls!GaveUpPatiently, Polls!EndsInTime
<1> QED BY <1>5, <1>6, <1>7 DEF PollsInv

\* The endpoint lets go of a look: what that took is counted as time spent
\* hanging, on top of which the deadline holds.
LEMMA LoopLetGoStep == ASSUME Polls!PollsAssumption, PollsInv, Polls!LetGo PROVE PollsInv'
<1>0. /\ tries \in Nat /\ now \in Nat /\ since \in Nat /\ hiccups \in Nat /\ hung \in Nat
      /\ Polls!L.pause \in Nat /\ Polls!L.looks \in Nat /\ Polls!L.slow \in Nat
      /\ Polls!L.first \in Nat
      /\ Polls!L.deadline \in Nat /\ Polls!Patience \in Nat /\ Skipped \in Nat
      /\ (tries * Polls!L.pause) \in Nat
      /\ Counted \/ Timed
  BY LoopLooks
<1>1. doing = "hanging" /\ UNCHANGED <<loop, since, hiccups>>
  BY DEF Polls!LetGo
<1>2. PICK d \in Nat : now' = now + d /\ hung' = hung + d
  BY DEF Polls!LetGo, Polls!PollsAssumption
<1>3. UNCHANGED Polls!L /\ UNCHANGED Polls!Patience /\ UNCHANGED Skipped /\ UNCHANGED Polls!There
  BY <1>1 DEF Polls!L, Polls!Patience, Skipped, Polls!There
<1>4. /\ Polls!L.deadline # Polls!Unlimited
      /\ tries < Polls!L.looks /\ now < Polls!L.deadline
      /\ now + Skipped >= Polls!L.first + (tries * Polls!L.pause)
  BY <1>1 DEF PollsInv, WithinLimits, Paced
<1>5. Timed /\ Polls!L.last
  BY <1>0, <1>4 DEF Counted, Timed
<1>6. \/ doing' = "found" /\ tries' = tries
      \/ doing' = "asleep" /\ tries' = tries + 1
  BY <1>5 DEF Polls!LetGo, Polls!Onward
<1>7. now' \in Nat /\ hung' \in Nat /\ tries' \in Nat
  BY <1>0, <1>2, <1>6
<1>8. PollsTypeOK'
  BY <1>1, <1>6, <1>7 DEF PollsInv, PollsTypeOK
<1>9. ((tries + 1) * Polls!L.pause) = (tries * Polls!L.pause) + Polls!L.pause
  BY <1>0, Product
<1>10. Paced'
  <2>1. CASE doing' = "found"
    BY <2>1 DEF Paced
  <2>2. CASE doing' = "asleep"
    <3>1. tries' = tries + 1 /\ tries' > 0 /\ tries' # 0
      BY <1>0, <1>6, <2>2
    <3>2. (tries' * Polls!L.pause) = (tries * Polls!L.pause) + Polls!L.pause
      BY <1>9, <3>1
    <3>3. now' + Skipped + Polls!L.pause >= Polls!L.first + (tries' * Polls!L.pause)
      BY <1>0, <1>2, <1>4, <3>2
    <3> QED BY <1>3, <1>4, <2>2, <3>1, <3>3 DEF Paced
  <2> QED BY <1>6, <2>1, <2>2
<1>11. now' < Polls!L.deadline + Polls!L.slow + hung'
       /\ now' < Polls!L.deadline + Polls!L.slow + Polls!L.pause + hung'
  BY <1>0, <1>2, <1>4
<1>12. WithinLimits'
  <2>1. tries' <= Polls!L.looks
    BY <1>0, <1>4, <1>6
  <2> QED BY <1>3, <1>5, <1>6, <1>11, <2>1 DEF WithinLimits
<1>13. NotOverlooked'
  <2>1. Polls!There /\ hiccups = 0 => since = now
    BY <1>1 DEF PollsInv, NotOverlooked
  <2>2. Polls!There /\ hiccups = 0 => since + hung' >= now'
    BY <1>0, <1>2, <2>1
  <2> QED BY <1>1, <1>3, <1>6, <2>2 DEF NotOverlooked
<1>14. Polls!GaveUpPatiently'
  BY <1>6 DEF Polls!GaveUpPatiently
<1>15. Polls!EndsInTime'
  <2>1. Polls!Patience = Polls!L.deadline
    BY <1>5 DEF Timed
  <2>2. now' <= Polls!Patience + hung' + (Polls!L.pause + Polls!L.slow)
    BY <1>0, <1>7, <1>11, <2>1
  <2> QED BY <1>3, <1>4, <2>2 DEF Polls!EndsInTime
<1> QED BY <1>8, <1>10, <1>12, <1>13, <1>14, <1>15 DEF PollsInv

\* Every step of a loop keeps the invariant of the loops.
LEMMA StepPollsInv ==
    ASSUME Polls!PollsAssumption, PollsInv, [Polls!PollsNext]_(Polls!pollVars)
    PROVE  PollsInv'
<1>1. CASE Polls!Found
  <2>1. UNCHANGED <<loop, now, hung>> /\ doing' = "found" /\ PollsTypeOK'
    BY <1>1 DEF Polls!Found, PollsInv, PollsTypeOK
  <2> QED BY <2>1, LoopEndStep
<1>2. CASE Polls!NotYet
  <2>1. /\ doing = "looking" /\ ~Polls!Exhausted /\ UNCHANGED <<loop, since, hung>>
        /\ Polls!Onward("asleep") /\ InVain("asleep")
    BY <1>2 DEF Polls!NotYet, InVain
  <2> QED BY <2>1, LoopOnwardStep
<1>3. CASE Polls!Error
  <2>0. Polls!L.error \in {"look", "sleep", "end"}
    BY LoopLooks DEF Counted, Timed
  <2>1. CASE Polls!L.error = "end"
    <3>1. UNCHANGED <<loop, now, tries, since, hung>> /\ hiccups' = hiccups + 1 /\ doing' = "failed"
      BY <1>3, <2>1 DEF Polls!Error
    <3>2. PollsTypeOK'
      <4>1. hiccups' \in Nat
        BY <3>1, LoopLooks
      <4> QED BY <3>1, <4>1 DEF PollsInv, PollsTypeOK
    <3> QED BY <3>1, <3>2, LoopEndStep
  <2>2. CASE Polls!L.error = "look"
    <3>1. /\ doing = "looking" /\ ~Polls!Exhausted /\ UNCHANGED <<loop, since, hung>>
          /\ Polls!Onward("looking") /\ Failing("looking")
      BY <1>3, <2>2 DEF Polls!Error, Failing
    <3> QED BY <3>1, LoopOnwardStep
  <2>3. CASE Polls!L.error = "sleep"
    <3>1. /\ doing = "looking" /\ ~Polls!Exhausted /\ UNCHANGED <<loop, since, hung>>
          /\ Polls!Onward("asleep") /\ Failing("asleep")
      BY <1>3, <2>3 DEF Polls!Error, Failing
    <3> QED BY <3>1, LoopOnwardStep
  <2> QED BY <2>0, <2>1, <2>2, <2>3
<1>4. CASE UNCHANGED Polls!pollVars
  <2>1. UNCHANGED <<loop, doing, tries, now, since, hiccups, hung>>
    BY <1>4 DEF Polls!pollVars
  <2>2. UNCHANGED Polls!L /\ UNCHANGED Polls!Patience /\ UNCHANGED Skipped
    BY <2>1 DEF Polls!L, Polls!Patience, Skipped
  <2> QED BY <2>1, <2>2 DEF PollsInv, PollsTypeOK, Paced, WithinLimits, NotOverlooked, Polls!There,
                             Polls!GaveUpPatiently, Polls!EndsInTime
<1> QED BY <1>1, <1>2, <1>3, <1>4, LoopComeStep, LoopHangStep,
        LoopLetGoStep, LoopGiveUpStep, LoopSleepStep DEF Polls!PollsNext, Polls!LoopStep

-------------------------------------------------------------------------------
(* The assertions on log events.                                           *)

\* The assertions on log events here are those of LogEventsProofs.
LEMMA SameLogEvents ==
    ASSUME NEW stream
    PROVE  /\ LogEventsFeed!NumbersOf(stream) = LogP!NumbersOf(stream)
           /\ LogEventsFeed!Missing(stream) = LogP!Missing(stream)
           /\ LogEventsFeed!NoMissingLogs(stream) = LogP!NoMissingLogs(stream)
<1>1. LogEventsFeed!NumbersOf(stream) = LogP!NumbersOf(stream)
  BY DEF LogEventsFeed!NumbersOf, LogP!NumbersOf, LogEventsFeed!Cardinality, LogP!Cardinality
<1>2. ASSUME NEW numbers PROVE LogEventsFeed!Scan(numbers) = LogP!Scan(numbers)
  BY DEF LogEventsFeed!Scan, LogP!Scan, LogEventsFeed!FoldLeft, LogP!FoldLeft,
         LogEventsFeed!MapThenFoldSet, LogP!MapThenFoldSet, LogEventsFeed!Max, LogP!Max
<1>3. LogEventsFeed!Missing(stream) = LogP!Missing(stream)
  BY <1>1, <1>2 DEF LogEventsFeed!Missing, LogP!Missing
<1> QED BY <1>1, <1>3 DEF LogEventsFeed!NoMissingLogs, LogP!NoMissingLogs

\* The stream of the feed: its numbers are small.
FeedInv == events \in Seq([ts : Nat, msg : 1 .. MaxNumber \cup {Unnumbered}])

\* An empty stream is a stream.
LEMMA InitFeed == ASSUME LogEventsFeed!Init PROVE FeedInv
BY DEF LogEventsFeed!Init, FeedInv

\* One event more is a stream.
LEMMA StepFeed ==
    ASSUME FeedInv, LogEventsFeed!Next \/ UNCHANGED events
    PROVE  FeedInv'
<1> DEFINE S == [ts : Nat, msg : 1 .. MaxNumber \cup {Unnumbered}]
<1>1. ASSUME LogEventsFeed!Next PROVE FeedInv'
  <2>1. PICK n \in 1 .. MaxNumber \cup {Unnumbered} :
           events' = Append(events, [ts |-> Len(events), msg |-> n])
    BY <1>1 DEF LogEventsFeed!Next, LogEventsFeed!Arrive, LogEventsFeed!Event
  <2>2. events \in Seq(S)
    BY DEF FeedInv
  <2>3. Len(events) \in Nat
    BY <2>2
  <2>4. [ts |-> Len(events), msg |-> n] \in S
    BY <2>3
  <2>5. Append(events, [ts |-> Len(events), msg |-> n]) \in Seq(S)
    BY <2>2, <2>4
  <2> QED BY <2>1, <2>5 DEF FeedInv
<1>2. ASSUME UNCHANGED events PROVE FeedInv'
  BY <1>2 DEF FeedInv
<1> QED BY <1>1, <1>2

\* What was fed is what LogEventsProofs reads.
LEMMA FeedIsStream ==
    ASSUME LogEventsFeed!FeedAssumption, FeedInv
    PROVE  /\ events \in LogP!Streams
           /\ LogEventsFeed!Numbers = LogP!NumbersIn(events)
           /\ LogEventsFeed!Gaps = LogP!GapsIn(events)
<1> DEFINE S == [ts : Nat, msg : 1 .. MaxNumber \cup {Unnumbered}]
           T == [ts : Nat, msg : Nat \cup {Unnumbered}]
<1>1. MaxNumber \in Nat
  BY DEF LogEventsFeed!FeedAssumption
<1>2. S \subseteq T
  BY <1>1
<1>3. events \in Seq(S)
  BY DEF FeedInv
<1>4. \A i \in 1 .. Len(events) : events[i] \in S
  <2> HIDE DEF S
  <2> QED BY <1>3
<1>5. events \in Seq(T)
  <2>1. \A i \in 1 .. Len(events) : events[i] \in T
    BY <1>2, <1>4
  <2>2. /\ Len(events) \in Nat /\ DOMAIN events = 1 .. Len(events)
        /\ events = [i \in 1 .. Len(events) |-> events[i]]
    <3> HIDE DEF S
    <3> QED BY <1>3
  <2> HIDE DEF T
  <2> QED BY <2>1, <2>2, IsASeq
<1>6. LogEventsFeed!Numbers = LogP!NumbersIn(events)
  BY DEF LogEventsFeed!Numbers, LogP!NumbersIn
<1>7. LogP!NumbersIn(events) \subseteq 1 .. MaxNumber
  <2>1. DOMAIN events = 1 .. Len(events)
    BY <1>3
  <2> QED BY <1>4, <2>1 DEF LogP!NumbersIn
<1>8. ASSUME NEW x PROVE x \in LogEventsFeed!Gaps <=> x \in LogP!GapsIn(events)
  <2> DEFINE N == LogP!NumbersIn(events)
  <2>1. x \in LogEventsFeed!Gaps <=>
           x \in 1 .. MaxNumber /\ x \notin N /\ \E a, b \in N : a < x /\ x < b
    BY <1>6 DEF LogEventsFeed!Gaps
  <2>2. x \in LogP!GapsIn(events) <=>
           x \in Nat /\ x \notin N /\ \E a, b \in N : a < x /\ x < b
    BY DEF LogP!GapsIn
  <2> HIDE DEF N
  <2>3. N \subseteq 1 .. MaxNumber
    BY <1>7 DEF N
  <2> QED BY <1>1, <2>1, <2>2, <2>3
<1> QED BY <1>5, <1>6, <1>8 DEF LogP!Streams

\* So what is reported of it is exact.
LEMMA FeedExact ==
    ASSUME LogEventsFeed!FeedAssumption, FeedInv
    PROVE  LogEventsFeed!ReportedIsGap /\ LogEventsFeed!GapsExact
<1>1. /\ events \in LogP!Streams
      /\ LogEventsFeed!Numbers = LogP!NumbersIn(events)
      /\ LogEventsFeed!Gaps = LogP!GapsIn(events)
  BY FeedIsStream
<1>2. LogEventsFeed!ReportedIsGap
  BY <1>1, SameLogEvents, LogP!ReportedAreGaps DEF LogEventsFeed!ReportedIsGap
<1>3. LogEventsFeed!GapsExact
  <2> SUFFICES ASSUME Len(LogEventsFeed!NumbersOf(events)) =
                         LogEventsFeed!Cardinality(LogEventsFeed!Numbers),
                      LogEventsFeed!Numbers # {}
               PROVE  /\ LogEventsFeed!NoMissingLogs(events) = "missing" <=>
                            LogEventsFeed!Gaps # {}
                      /\ LogEventsFeed!Missing(events) = LogEventsFeed!Gaps
    BY DEF LogEventsFeed!GapsExact
  <2>1. Len(LogP!NumbersOf(events)) = LogP!Cardinality(LogP!NumbersIn(events))
    BY <1>1, SameLogEvents DEF LogEventsFeed!Cardinality, LogP!Cardinality
  <2>2. Len(LogP!NumbersOf(events)) = LogP!Cardinality(LogP!Numbered(events))
    BY <1>1, LogP!NumbersSorted
  <2>3. LogP!Distinct(events)
    BY <1>1, <2>1, <2>2, LogP!DistinctByCount
  <2> QED BY <1>1, <2>3, SameLogEvents, LogP!GapsExactly
<1> QED BY <1>2, <1>3

-------------------------------------------------------------------------------
(* The checks on the log of a node.                                        *)

\* The types of its lines, that of a line that is not JSON among them, and
\* what a line may say of a core.
LineTypes == {"", "NodeAWSNeuron", "PodAWSNeuronCore", "NodeAWSNeuronCore"}
Slots == {-1} \cup 0 .. Cores - 1
NodeLines == [json : BOOLEAN, type : LineTypes, core : Slots, util : Slots]

\* A line that is not JSON has no type, and the log has no other fields than
\* these.
NodeLogInv ==
    /\ events \in Seq(NodeLines)
    /\ \A i \in 1 .. Len(events) : events[i].json \/ events[i].type = ""

\* A line of a node log is of its type.
LEMMA LinesTyped ==
    ASSUME ContainerInsights!CiAssumption, NEW e \in ContainerInsights!Lines
    PROVE  e \in NodeLines /\ (e.json \/ e.type = "")
<1>1. ContainerInsights!None \in Slots /\ \A c \in 0 .. Cores - 1 : c \in Slots
  BY DEF ContainerInsights!None, Slots
<1> QED BY <1>1 DEF ContainerInsights!Lines, NodeLines, LineTypes

\* A sequence with one element more.
OneAfter(S, s, x, l) ==
    /\ l \in Seq(S) /\ Len(l) = Len(s) + 1
    /\ \A i \in 1 .. Len(s) : l[i] = s[i]
    /\ l[Len(s) + 1] = x

\* It is what Append makes.
LEMMA OneAppended ==
    ASSUME NEW S, NEW s \in Seq(S), NEW x \in S, NEW l, l = Append(s, x)
    PROVE  OneAfter(S, s, x, l)
BY AppendProperties DEF OneAfter

\* A log starts without lines.
LEMMA InitNodeLog == ASSUME ContainerInsights!CiInit PROVE NodeLogInv
BY DEF ContainerInsights!CiInit, NodeLogInv

\* And keeps its type with every line.
LEMMA StepNodeLog ==
    ASSUME ContainerInsights!CiAssumption, NodeLogInv,
           ContainerInsights!CiNext \/ UNCHANGED events
    PROVE  NodeLogInv'
<1>1. ASSUME ContainerInsights!CiNext PROVE NodeLogInv'
  <2>1. PICK e \in ContainerInsights!Lines : events' = Append(events, e)
    BY <1>1 DEF ContainerInsights!CiNext
  <2>2. e \in NodeLines /\ (e.json \/ e.type = "")
    BY LinesTyped
  <2>3. events \in Seq(NodeLines) /\ Len(events) \in Nat
    <3>1. events \in Seq(NodeLines)
      BY DEF NodeLogInv
    <3> QED BY <3>1
  <2>4. /\ events' \in Seq(NodeLines) /\ Len(events') = Len(events) + 1
        /\ \A i \in 1 .. Len(events) : events'[i] = events[i]
        /\ events'[Len(events) + 1] = e
    <3>1. OneAfter(NodeLines, events, e, events')
      BY <2>1, <2>2, <2>3, OneAppended
    <3> QED BY <3>1 DEF OneAfter
  <2>5. \A i \in 1 .. Len(events') : i \in 1 .. Len(events) \/ i = Len(events) + 1
    BY <2>3, <2>4
  <2> QED BY <2>2, <2>4, <2>5 DEF NodeLogInv
<1>2. ASSUME UNCHANGED events PROVE NodeLogInv'
  BY <1>2 DEF NodeLogInv
<1> QED BY <1>1, <1>2

\* What the count carries from line to line, and what it does with one.
TypeOfLine(e) == IF e.json THEN e.type ELSE ""
Tallies == [kept : LineTypes, count : UNION {[D -> Nat] : D \in SUBSET LineTypes}]

CountedOnce(counts, t) ==
    [u \in DOMAIN counts \cup {t} |->
        (IF u \in DOMAIN counts THEN counts[u] ELSE 0) + IF u = t THEN 1 ELSE 0]

Tally(acc, e) == [kept |-> TypeOfLine(e), count |-> CountedOnce(acc.count, TypeOfLine(e))]

NoCounts == [x \in {} |-> 0]

\* GetLogEventCountPerType is a walk over the lines.
LEMMA CountWalks ==
    ASSUME NodeLogInv
    PROVE  \E w \in [0 .. Len(events) -> Tallies] :
              /\ w[0] = [kept |-> "", count |-> NoCounts]
              /\ \A i \in 1 .. Len(events) : w[i] = Tally(w[i - 1], events[i])
              /\ ContainerInsights!GetLogEventCountPerType = w[Len(events)].count
<1> DEFINE n == Len(events)
           base == [kept |-> "", count |-> NoCounts]
           step == [i \in 1 .. n |-> [acc \in Tallies |-> Tally(acc, events[i])]]
           Rec(f) == [s \in SUBSET (DOMAIN events) |->
                        IF s = {} THEN base
                        ELSE Tally(f[s \ {LogP!Max(s)}], events[LogP!Max(s)])]
           iter == CHOOSE f : f = Rec(f)
<1>1. n \in Nat /\ DOMAIN events = 1 .. n /\ \A i \in 1 .. n : events[i] \in NodeLines
  <2>1. events \in Seq(NodeLines)
    BY DEF NodeLogInv
  <2> QED BY <2>1
<1>2. base \in Tallies
  <2>1. NoCounts \in [{} -> Nat] /\ {} \in SUBSET LineTypes
    BY DEF NoCounts
  <2>2. NoCounts \in UNION {[D -> Nat] : D \in SUBSET LineTypes}
    BY <2>1
  <2> QED BY <2>2 DEF Tallies, LineTypes
<1>3. ASSUME NEW acc \in Tallies, NEW i \in 1 .. n PROVE Tally(acc, events[i]) \in Tallies
  <2>1. TypeOfLine(events[i]) \in LineTypes
    BY <1>1 DEF TypeOfLine, NodeLines, LineTypes
  <2>2. PICK D \in SUBSET LineTypes : acc.count \in [D -> Nat]
    BY DEF Tallies
  <2> DEFINE t == TypeOfLine(events[i])
  <2>3. CountedOnce(acc.count, t) \in [D \cup {t} -> Nat]
    BY <2>2 DEF CountedOnce
  <2>4. D \cup {t} \in SUBSET LineTypes
    BY <2>1
  <2>5. CountedOnce(acc.count, t) \in UNION {[E -> Nat] : E \in SUBSET LineTypes}
    BY <2>3, <2>4
  <2> QED BY <2>1, <2>5 DEF Tally, Tallies
<1>4. step \in [1 .. n -> [Tallies -> Tallies]]
  BY <1>3
<1>5. PICK f \in [SUBSET (1 .. n) -> Tallies] : LogP!FoldOf(n, base, step, f)
  <2> HIDE DEF n, base, step
  <2> QED BY <1>1, <1>2, <1>4, LogP!FoldExists
<1>6. \A s \in SUBSET (1 .. n) : s # {} => LogP!Max(s) \in s
  <2> TAKE s \in SUBSET (1 .. n)
  <2>1. s \in SUBSET (0 .. n)
    BY <1>1
  <2> QED BY <1>1, <2>1, LogP!MaxOfBounded
<1>7. f = Rec(f)
  <2>1. ASSUME NEW s \in SUBSET (1 .. n)
        PROVE  f[s] = IF s = {} THEN base ELSE Tally(f[s \ {LogP!Max(s)}], events[LogP!Max(s)])
    <3>1. CASE s = {}
      BY <1>5, <3>1 DEF LogP!FoldOf
    <3>2. CASE s # {}
      <4>1. LogP!Max(s) \in 1 .. n /\ f[s \ {LogP!Max(s)}] \in Tallies
        BY <1>5, <1>6, <3>2
      <4>2. step[LogP!Max(s)][f[s \ {LogP!Max(s)}]] =
               Tally(f[s \ {LogP!Max(s)}], events[LogP!Max(s)])
        BY <4>1
      <4> HIDE DEF step
      <4> QED BY <1>5, <3>2, <4>2 DEF LogP!FoldOf
    <3> QED BY <3>1, <3>2
  <2>2. f = [s \in SUBSET (1 .. n) |-> f[s]]
    BY <1>5
  <2> HIDE DEF base
  <2> QED BY <1>1, <2>1, <2>2
<1>8. iter = Rec(iter)
  <2> HIDE DEF Rec
  <2> QED BY <1>7
<1>9. ContainerInsights!GetLogEventCountPerType = iter[1 .. n].count
  BY <1>1 DEF ContainerInsights!GetLogEventCountPerType, ContainerInsights!CountType,
     ContainerInsights!Empty, NoCounts, Tally, CountedOnce, TypeOfLine,
     ContainerInsights!FoldLeft, ContainerInsights!MapThenFoldSet, ContainerInsights!Max, LogP!Max
<1> HIDE DEF iter
<1>10. \A s \in SUBSET (1 .. n) :
          iter[s] = IF s = {} THEN base
                    ELSE Tally(iter[s \ {LogP!Max(s)}], events[LogP!Max(s)])
  <2> HIDE DEF base, n
  <2> QED BY <1>1, <1>8
<1> DEFINE w == [i \in 0 .. n |-> iter[1 .. i]]
<1>11. w[0] = base
  <2>1. 1 .. 0 = {} /\ {} \in SUBSET (1 .. n)
    OBVIOUS
  <2>2. w[0] = iter[1 .. 0]
    BY <1>1
  <2> QED BY <1>10, <2>1, <2>2
<1>12. ASSUME NEW i \in 1 .. n PROVE w[i] = Tally(w[i - 1], events[i])
  <2>1. i \in 0 .. n /\ i - 1 \in 0 .. n /\ i \in Nat
    BY <1>1
  <2>2. /\ 1 .. i \in SUBSET (1 .. n) /\ 1 .. i # {}
        /\ LogP!Max(1 .. i) = i /\ (1 .. i) \ {i} = 1 .. (i - 1)
    <3> HIDE DEF n
    <3> QED BY <1>1, LogP!PartsOfWalk
  <2>6. w[i] = iter[1 .. i] /\ w[i - 1] = iter[1 .. (i - 1)]
    BY <2>1
  <2> HIDE DEF w, base
  <2> QED BY <1>10, <2>2, <2>6
<1>13. w[n] = iter[1 .. n]
  BY <1>1
<1>14. w \in [0 .. n -> Tallies]
  <2> DEFINE T == {i \in 0 .. n : w[i] \in Tallies}
  <2>1. 0 \in T
    <3>1. 0 \in 0 .. n
      BY <1>1
    <3> HIDE DEF w, n, base
    <3> QED BY <1>2, <1>11, <3>1
  <2>2. \A i \in 1 .. n : i - 1 \in T => i \in T
    <3> TAKE i \in 1 .. n
    <3>1. i \in 0 .. n
      BY <1>1
    <3> HIDE DEF w, n
    <3> QED BY <1>3, <1>12, <3>1
  <2>3. \A i \in 0 .. n : i \in T
    <3> HIDE DEF T, n
    <3> QED BY <1>1, <2>1, <2>2, LogP!UpToEnd
  <2>4. \A i \in 0 .. n : w[i] \in Tallies
    <3> HIDE DEF w
    <3> QED BY <2>3
  <2> QED BY <2>4
<1> HIDE DEF w, base
<1> QED BY <1>9, <1>11, <1>12, <1>13, <1>14 DEF base

\* How often a type has been counted, and how often it has come.
OfType(counts, t) == IF t \in DOMAIN counts THEN counts[t] ELSE 0
Came(i, t) == {j \in 1 .. i : TypeOfLine(events[j]) = t}

\* A finite set with one element more.
LEMMA OneElementMore ==
    ASSUME NEW S, IsFiniteSet(S), NEW x, x \notin S, NEW s, s = S \cup {x}
    PROVE  IsFiniteSet(s) /\ Cardinality(s) = Cardinality(S) + 1
BY FS_AddElement

\* What one line adds to the counts.
LEMMA CountsOne ==
    ASSUME NEW acc \in Tallies, NEW e \in NodeLines, NEW t \in LineTypes
    PROVE  /\ OfType(acc.count, t) \in Nat
           /\ OfType(Tally(acc, e).count, t) =
                 OfType(acc.count, t) + IF t = TypeOfLine(e) THEN 1 ELSE 0
<1> DEFINE u == TypeOfLine(e)
           counts == acc.count
<1>1. PICK D \in SUBSET LineTypes : counts \in [D -> Nat]
  BY DEF Tallies
<1>2. OfType(counts, t) \in Nat
  BY <1>1 DEF OfType
<1>3. Tally(acc, e).count = CountedOnce(counts, u)
  BY DEF Tally
<1> HIDE DEF u, counts
<1>4. OfType(CountedOnce(counts, u), t) = OfType(counts, t) + IF t = u THEN 1 ELSE 0
  <2>1. DOMAIN CountedOnce(counts, u) = D \cup {u}
    BY <1>1 DEF CountedOnce
  <2>2. CASE t \in D \cup {u}
    <3>1. CountedOnce(counts, u)[t] = OfType(counts, t) + IF t = u THEN 1 ELSE 0
      BY <1>1, <2>2 DEF CountedOnce, OfType
    <3> QED BY <2>1, <2>2, <3>1 DEF OfType
  <2>3. CASE t \notin D \cup {u}
    <3>1. t # u /\ t \notin DOMAIN counts
      BY <1>1, <2>3
    <3> QED BY <2>1, <2>3, <3>1 DEF OfType
  <2> QED BY <2>2, <2>3
<1> QED BY <1>2, <1>3, <1>4 DEF u, counts

\* The counts of a log are the numbers of its lines.
LEMMA CountsAll ==
    ASSUME NodeLogInv, NEW t \in LineTypes
    PROVE  /\ OfType(ContainerInsights!GetLogEventCountPerType, t) =
                 Cardinality(Came(Len(events), t))
           /\ IsFiniteSet(Came(Len(events), t))
<1> DEFINE n == Len(events)
<1>1. n \in Nat /\ \A i \in 1 .. n : events[i] \in NodeLines
  <2>1. events \in Seq(NodeLines)
    BY DEF NodeLogInv
  <2> QED BY <2>1
<1>2. PICK w \in [0 .. n -> Tallies] :
         /\ w[0] = [kept |-> "", count |-> NoCounts]
         /\ \A i \in 1 .. n : w[i] = Tally(w[i - 1], events[i])
         /\ ContainerInsights!GetLogEventCountPerType = w[n].count
  BY CountWalks
<1> HIDE DEF n
<1> DEFINE Right(i) == /\ IsFiniteSet(Came(i, t))
                       /\ OfType(w[i].count, t) = Cardinality(Came(i, t))
           T == {i \in 0 .. n : Right(i)}
<1>3. 0 \in T
  <2>1. Came(0, t) = {}
    BY DEF Came
  <2>2. OfType(w[0].count, t) = 0
    <3>1. w[0] = [kept |-> "", count |-> NoCounts]
      BY <1>2
    <3>2. w[0].count = NoCounts
      <4>1. ASSUME NEW x, x = [kept |-> "", count |-> NoCounts] PROVE x.count = NoCounts
        BY <4>1
      <4> QED BY <3>1, <4>1
    <3> QED BY <3>2 DEF NoCounts, OfType
  <2>3. 0 \in 0 .. n
    BY <1>1
  <2> QED BY <2>1, <2>2, <2>3, FS_EmptySet
<1>4. \A i \in 1 .. n : i - 1 \in T => i \in T
  <2> SUFFICES ASSUME NEW i \in 1 .. n, Right(i - 1) PROVE Right(i)
    <3>1. \A i \in 1 .. n : i \in 0 .. n
      BY <1>1
    <3> QED BY <3>1
  <2>1. i - 1 \in 0 .. n /\ i \notin 1 .. (i - 1) /\ 1 .. i = 1 .. (i - 1) \cup {i}
    BY <1>1
  <2>2. w[i - 1] \in Tallies /\ events[i] \in NodeLines
    BY <1>1, <1>2, <2>1
  <2>3. OfType(w[i].count, t) =
           OfType(w[i - 1].count, t) + IF t = TypeOfLine(events[i]) THEN 1 ELSE 0
    <3>1. w[i] = Tally(w[i - 1], events[i])
      BY <1>2
    <3> QED BY <2>2, <3>1, CountsOne
  <2>4. IsFiniteSet(Came(i - 1, t)) /\ Cardinality(Came(i - 1, t)) \in Nat
    BY FS_CardinalityType
  <2>5. CASE t = TypeOfLine(events[i])
    <3>1. Came(i, t) = Came(i - 1, t) \cup {i} /\ i \notin Came(i - 1, t)
      BY <2>1, <2>5 DEF Came
    <3>2. IsFiniteSet(Came(i, t)) /\ Cardinality(Came(i, t)) = Cardinality(Came(i - 1, t)) + 1
      <4> DEFINE before == Came(i - 1, t)
                 after == Came(i, t)
      <4>1. IsFiniteSet(before) /\ i \notin before /\ after = before \cup {i}
        BY <2>4, <3>1
      <4> HIDE DEF before, after
      <4>2. IsFiniteSet(after) /\ Cardinality(after) = Cardinality(before) + 1
        BY <4>1, OneElementMore
      <4> QED BY <4>2 DEF before, after
    <3> QED BY <2>3, <2>4, <2>5, <3>2
  <2>6. CASE t # TypeOfLine(events[i])
    <3>1. Came(i, t) = Came(i - 1, t)
      BY <2>1, <2>6 DEF Came
    <3>2. OfType(w[i].count, t) = OfType(w[i - 1].count, t)
      BY <2>2, <2>3, <2>6, CountsOne
    <3> QED BY <2>4, <3>1, <3>2
  <2> QED BY <2>5, <2>6
<1>5. n \in T
  <2>1. n \in 0 .. n
    BY <1>1
  <2> HIDE DEF T
  <2> QED BY <1>1, <1>3, <1>4, <2>1, LogP!UpToEnd
<1> QED BY <1>2, <1>5 DEF n

\* The numbers of lines of the two types that are counted.
LEMMA NumberIsCount ==
    ASSUME NodeLogInv, NEW t \in {"NodeAWSNeuron", "NodeAWSNeuronCore"}
    PROVE  /\ ContainerInsights!Number(t) = OfType(ContainerInsights!GetLogEventCountPerType, t)
           /\ ContainerInsights!Number(t) \in Nat
           /\ IsFiniteSet(Came(Len(events), t))
           /\ ContainerInsights!Number(t) = Cardinality(Came(Len(events), t))
<1>1. t \in LineTypes /\ t # ""
  BY DEF LineTypes
<1>2. DOMAIN events = 1 .. Len(events)
  <2>1. events \in Seq(NodeLines)
    BY DEF NodeLogInv
  <2> QED BY <2>1
<1>3. {i \in DOMAIN events : events[i].json /\ events[i].type = t} = Came(Len(events), t)
  BY <1>1, <1>2 DEF Came, TypeOfLine
<1>4. /\ IsFiniteSet(Came(Len(events), t))
      /\ OfType(ContainerInsights!GetLogEventCountPerType, t) = Cardinality(Came(Len(events), t))
  BY <1>1, CountsAll
<1> QED BY <1>3, <1>4, FS_CardinalityType
        DEF ContainerInsights!Number, ContainerInsights!Cardinality, Cardinality

\* So the frequencies that are judged are those of the log.
LEMMA FrequenciesExact ==
    ASSUME ContainerInsights!CiAssumption, NodeLogInv
    PROVE  ContainerInsights!FrequencyIsExact
<1> DEFINE F == ContainerInsights!EksClusterFrequencyValidationMap
           counts == ContainerInsights!GetLogEventCountPerType
<1>1. /\ DOMAIN F = {"NodeAWSNeuron", "NodeAWSNeuronCore"}
      /\ \A t \in DOMAIN F : F[t] \in Nat /\ F[t] # 0
  BY DEF ContainerInsights!EksClusterFrequencyValidationMap, ContainerInsights!CiAssumption
<1>2. ASSUME NEW t \in DOMAIN F
      PROVE  t \in DOMAIN counts /\ counts[t] = F[t] <=> ContainerInsights!Number(t) = F[t]
  <2>1. ContainerInsights!Number(t) = OfType(counts, t)
    BY <1>1, NumberIsCount
  <2> HIDE DEF F, counts
  <2> QED BY <1>1, <2>1 DEF OfType
<1> QED BY <1>2 DEF ContainerInsights!FrequencyIsExact, ContainerInsights!ValidateLogsFrequency

\* What the decoding carries from line to line, and what it does with one.
OfNeuronCore(e) == e.json /\ e.type = "NodeAWSNeuronCore"
Core(acc, e) == IF e.core # -1 THEN e.core ELSE acc.core
Util(acc, e) == IF e.util # -1 THEN e.util ELSE acc.util

Filled(of, core, util) ==
    IF -1 \in {core, util} THEN of
    ELSE [c \in DOMAIN of \cup {core} |-> IF c = core THEN util ELSE of[c]]

Decode(acc, e) ==
    IF ~OfNeuronCore(e) THEN acc
    ELSE [core |-> Core(acc, e), util |-> Util(acc, e),
          of |-> Filled(acc.of, Core(acc, e), Util(acc, e))]

CoreWalks == [core : Slots, util : Slots,
              of : UNION {[D -> 0 .. Cores - 1] : D \in SUBSET (0 .. Cores - 1)}]

\* What a line says of a core is of its type.
LEMMA DecodeTyped ==
    ASSUME NEW acc \in CoreWalks, NEW e \in NodeLines
    PROVE  Decode(acc, e) \in CoreWalks
<1> DEFINE core == Core(acc, e)
           util == Util(acc, e)
<1>1. core \in Slots /\ util \in Slots
  BY DEF Core, Util, NodeLines, CoreWalks
<1>2. PICK D \in SUBSET (0 .. Cores - 1) : acc.of \in [D -> 0 .. Cores - 1]
  BY DEF CoreWalks
<1> HIDE DEF core, util
<1>3. Filled(acc.of, core, util) \in UNION {[E -> 0 .. Cores - 1] : E \in SUBSET (0 .. Cores - 1)}
  <2>1. CASE -1 \in {core, util}
    BY <1>2, <2>1 DEF Filled
  <2>2. CASE -1 \notin {core, util}
    <3>1. core \in 0 .. Cores - 1 /\ util \in 0 .. Cores - 1
      BY <1>1, <2>2 DEF Slots
    <3>2. Filled(acc.of, core, util) \in [D \cup {core} -> 0 .. Cores - 1]
      BY <1>2, <2>2, <3>1 DEF Filled
    <3>3. D \cup {core} \in SUBSET (0 .. Cores - 1)
      BY <3>1
    <3> QED BY <3>2, <3>3
  <2> QED BY <2>1, <2>2
<1> QED BY <1>1, <1>3 DEF Decode, CoreWalks, core, util

\* GetNeuronCoreUtilizationPerCore is a walk over the lines.
LEMMA CoresWalk ==
    ASSUME NodeLogInv
    PROVE  \E w \in [0 .. Len(events) -> CoreWalks] :
              /\ w[0] = [core |-> -1, util |-> -1, of |-> NoCounts]
              /\ \A i \in 1 .. Len(events) : w[i] = Decode(w[i - 1], events[i])
              /\ ContainerInsights!GetNeuronCoreUtilizationPerCore = w[Len(events)].of
<1> DEFINE n == Len(events)
           base == [core |-> -1, util |-> -1, of |-> NoCounts]
           step == [i \in 1 .. n |-> [acc \in CoreWalks |-> Decode(acc, events[i])]]
           Rec(f) == [s \in SUBSET (DOMAIN events) |->
                        IF s = {} THEN base
                        ELSE Decode(f[s \ {LogP!Max(s)}], events[LogP!Max(s)])]
           iter == CHOOSE f : f = Rec(f)
<1>1. n \in Nat /\ DOMAIN events = 1 .. n /\ \A i \in 1 .. n : events[i] \in NodeLines
  <2>1. events \in Seq(NodeLines)
    BY DEF NodeLogInv
  <2> QED BY <2>1
<1>2. base \in CoreWalks
  <2>1. NoCounts \in [{} -> 0 .. Cores - 1] /\ {} \in SUBSET (0 .. Cores - 1)
    BY DEF NoCounts
  <2>2. NoCounts \in UNION {[D -> 0 .. Cores - 1] : D \in SUBSET (0 .. Cores - 1)}
    BY <2>1
  <2> QED BY <2>2 DEF CoreWalks, Slots
<1>3. ASSUME NEW acc \in CoreWalks, NEW i \in 1 .. n PROVE Decode(acc, events[i]) \in CoreWalks
  BY <1>1, DecodeTyped
<1>4. step \in [1 .. n -> [CoreWalks -> CoreWalks]]
  BY <1>3
<1>5. PICK f \in [SUBSET (1 .. n) -> CoreWalks] : LogP!FoldOf(n, base, step, f)
  <2> HIDE DEF n, base, step
  <2> QED BY <1>1, <1>2, <1>4, LogP!FoldExists
<1>6. \A s \in SUBSET (1 .. n) : s # {} => LogP!Max(s) \in s
  <2> TAKE s \in SUBSET (1 .. n)
  <2>1. s \in SUBSET (0 .. n)
    BY <1>1
  <2> QED BY <1>1, <2>1, LogP!MaxOfBounded
<1>7. f = Rec(f)
  <2>1. ASSUME NEW s \in SUBSET (1 .. n)
        PROVE  f[s] = IF s = {} THEN base ELSE Decode(f[s \ {LogP!Max(s)}], events[LogP!Max(s)])
    <3>1. CASE s = {}
      BY <1>5, <3>1 DEF LogP!FoldOf
    <3>2. CASE s # {}
      <4>1. LogP!Max(s) \in 1 .. n /\ f[s \ {LogP!Max(s)}] \in CoreWalks
        BY <1>5, <1>6, <3>2
      <4>2. step[LogP!Max(s)][f[s \ {LogP!Max(s)}]] =
               Decode(f[s \ {LogP!Max(s)}], events[LogP!Max(s)])
        BY <4>1
      <4> HIDE DEF step
      <4> QED BY <1>5, <3>2, <4>2 DEF LogP!FoldOf
    <3> QED BY <3>1, <3>2
  <2>2. f = [s \in SUBSET (1 .. n) |-> f[s]]
    BY <1>5
  <2> HIDE DEF base
  <2> QED BY <1>1, <2>1, <2>2
<1>8. iter = Rec(iter)
  <2> HIDE DEF Rec
  <2> QED BY <1>7
<1>9. ContainerInsights!GetNeuronCoreUtilizationPerCore = iter[1 .. n].of
  BY <1>1 DEF ContainerInsights!GetNeuronCoreUtilizationPerCore, ContainerInsights!OfCore,
     ContainerInsights!Empty, ContainerInsights!None, NoCounts, Decode, Core, Util, Filled,
     OfNeuronCore,
     ContainerInsights!FoldLeft, ContainerInsights!MapThenFoldSet, ContainerInsights!Max, LogP!Max
<1> HIDE DEF iter
<1>10. \A s \in SUBSET (1 .. n) :
          iter[s] = IF s = {} THEN base
                    ELSE Decode(iter[s \ {LogP!Max(s)}], events[LogP!Max(s)])
  <2> HIDE DEF base, n
  <2> QED BY <1>1, <1>8
<1> DEFINE w == [i \in 0 .. n |-> iter[1 .. i]]
<1>11. w[0] = base
  <2>1. 1 .. 0 = {} /\ {} \in SUBSET (1 .. n)
    OBVIOUS
  <2>2. w[0] = iter[1 .. 0]
    BY <1>1
  <2> QED BY <1>10, <2>1, <2>2
<1>12. ASSUME NEW i \in 1 .. n PROVE w[i] = Decode(w[i - 1], events[i])
  <2>1. i \in 0 .. n /\ i - 1 \in 0 .. n /\ i \in Nat
    BY <1>1
  <2>2. /\ 1 .. i \in SUBSET (1 .. n) /\ 1 .. i # {}
        /\ LogP!Max(1 .. i) = i /\ (1 .. i) \ {i} = 1 .. (i - 1)
    <3> HIDE DEF n
    <3> QED BY <1>1, LogP!PartsOfWalk
  <2>6. w[i] = iter[1 .. i] /\ w[i - 1] = iter[1 .. (i - 1)]
    BY <2>1
  <2> HIDE DEF w, base
  <2> QED BY <1>10, <2>2, <2>6
<1>13. w[n] = iter[1 .. n]
  BY <1>1
<1>14. w \in [0 .. n -> CoreWalks]
  <2> DEFINE T == {i \in 0 .. n : w[i] \in CoreWalks}
  <2>1. 0 \in T
    <3>1. 0 \in 0 .. n
      BY <1>1
    <3> HIDE DEF w, n, base
    <3> QED BY <1>2, <1>11, <3>1
  <2>2. \A i \in 1 .. n : i - 1 \in T => i \in T
    <3> TAKE i \in 1 .. n
    <3>1. i \in 0 .. n
      BY <1>1
    <3> HIDE DEF w, n
    <3> QED BY <1>3, <1>12, <3>1
  <2>3. \A i \in 0 .. n : i \in T
    <3> HIDE DEF T, n
    <3> QED BY <1>1, <2>1, <2>2, LogP!UpToEnd
  <2>4. \A i \in 0 .. n : w[i] \in CoreWalks
    <3> HIDE DEF w
    <3> QED BY <2>3
  <2> QED BY <2>4
<1> HIDE DEF w, base
<1> QED BY <1>9, <1>11, <1>12, <1>13, <1>14 DEF base

\* A walk of the decoding over the log.
CoreWalk(w) ==
    /\ w \in [0 .. Len(events) -> CoreWalks]
    /\ w[0] = [core |-> -1, util |-> -1, of |-> NoCounts]
    /\ \A i \in 1 .. Len(events) : w[i] = Decode(w[i - 1], events[i])

\* The lines of a node log, one by one.
LEMMA NodeLinesTyped ==
    ASSUME NodeLogInv
    PROVE  /\ Len(events) \in Nat /\ DOMAIN events = 1 .. Len(events)
           /\ \A i \in 1 .. Len(events) :
                 /\ events[i] \in NodeLines
                 /\ OfNeuronCore(events[i]) <=> i \in ContainerInsights!OfNode
           /\ ContainerInsights!OfNode \subseteq 1 .. Len(events)
<1>1. events \in Seq(NodeLines)
  BY DEF NodeLogInv
<1>2. /\ Len(events) \in Nat /\ DOMAIN events = 1 .. Len(events)
      /\ \A i \in 1 .. Len(events) : events[i] \in NodeLines
  BY <1>1
<1>3. \A i \in 1 .. Len(events) : events[i].type = "NodeAWSNeuronCore" => events[i].json
  BY DEF NodeLogInv
<1> QED BY <1>2, <1>3 DEF OfNeuronCore, ContainerInsights!OfNode

\* One line of the walk.
LEMMA WalkLine ==
    ASSUME NodeLogInv, NEW w, CoreWalk(w), NEW i \in 1 .. Len(events)
    PROVE  /\ i - 1 \in 0 .. Len(events) /\ i \in 0 .. Len(events) /\ i \in Nat
           /\ w[i - 1] \in CoreWalks /\ w[i] \in CoreWalks /\ events[i] \in NodeLines
           /\ i \notin ContainerInsights!OfNode => w[i] = w[i - 1]
           /\ i \in ContainerInsights!OfNode =>
                 /\ w[i].core = Core(w[i - 1], events[i])
                 /\ w[i].util = Util(w[i - 1], events[i])
                 /\ w[i].of = Filled(w[i - 1].of, w[i].core, w[i].util)
<1>1. Len(events) \in Nat /\ events[i] \in NodeLines
      /\ (OfNeuronCore(events[i]) <=> i \in ContainerInsights!OfNode)
  BY NodeLinesTyped
<1>2. i - 1 \in 0 .. Len(events) /\ i \in 0 .. Len(events) /\ i \in Nat
  BY <1>1
<1>3. w[i - 1] \in CoreWalks /\ w[i] \in CoreWalks /\ w[i] = Decode(w[i - 1], events[i])
  BY <1>2 DEF CoreWalk
<1>4. ASSUME i \notin ContainerInsights!OfNode PROVE w[i] = w[i - 1]
  BY <1>1, <1>3, <1>4 DEF Decode
<1>5. ASSUME i \in ContainerInsights!OfNode
      PROVE  /\ w[i].core = Core(w[i - 1], events[i])
             /\ w[i].util = Util(w[i - 1], events[i])
             /\ w[i].of = Filled(w[i - 1].of, w[i].core, w[i].util)
  <2> DEFINE x == w[i]
             core == Core(w[i - 1], events[i])
             util == Util(w[i - 1], events[i])
             of == Filled(w[i - 1].of, core, util)
  <2>1. x = [core |-> core, util |-> util, of |-> of]
    BY <1>1, <1>3, <1>5 DEF Decode
  <2>2. x.core = core /\ x.util = util /\ x.of = of
    <3> HIDE DEF x, core, util, of
    <3> QED BY <2>1
  <2> QED BY <2>2
<1> QED BY <1>1, <1>2, <1>3, <1>4, <1>5

-------------------------------------------------------------------------------
(* If no line is partial, each core is judged by its own last line.        *)

Later(j, i) == {k \in ContainerInsights!OfNode : j < k /\ k <= i}

OwnLines(w, i) ==
    /\ \A c : c \in DOMAIN w[i].of <=>
                 \E j \in ContainerInsights!OfNode : j <= i /\ events[j].core = c
    /\ \A j \in ContainerInsights!OfNode :
          j <= i /\ (\A k \in Later(j, i) : events[k].core # events[j].core) =>
             w[i].of[events[j].core] = events[j].util

\* What the lines of one core leave is what its last line says.
LEMMA OwnLinesHold ==
    ASSUME NodeLogInv, NEW w, CoreWalk(w), ~ContainerInsights!Partial
    PROVE  OwnLines(w, Len(events))
<1> DEFINE n == Len(events)
           N == ContainerInsights!OfNode
           T == {i \in 0 .. n : OwnLines(w, i)}
<1>1. n \in Nat /\ N \subseteq 1 .. n
  BY NodeLinesTyped
<1>2. \A j \in N : events[j].core # -1 /\ events[j].util # -1
  BY DEF ContainerInsights!Partial, ContainerInsights!None
<1>3. 0 \in T
  <2>1. ~ \E j \in N : j <= 0
    BY <1>1
  <2>2. ASSUME NEW x, x = [core |-> -1, util |-> -1, of |-> NoCounts] PROVE DOMAIN x.of = {}
    BY <2>2 DEF NoCounts
  <2>3. DOMAIN w[0].of = {}
    BY <2>2 DEF CoreWalk
  <2>4. 0 \in 0 .. n
    BY <1>1
  <2> QED BY <2>1, <2>3, <2>4 DEF OwnLines
<1>4. \A i \in 1 .. n : i - 1 \in T => i \in T
  <2> SUFFICES ASSUME NEW i \in 1 .. n, OwnLines(w, i - 1) PROVE OwnLines(w, i)
    BY WalkLine
  <2>1. i \in Nat /\ w[i - 1] \in CoreWalks /\ w[i] \in CoreWalks /\ events[i] \in NodeLines
    BY WalkLine
  <2>2. \A j \in N : j \in Nat /\ (j <= i <=> j <= i - 1 \/ j = i)
    BY <1>1, <2>1
  <2>3. CASE i \notin N
    <3>1. w[i] = w[i - 1]
      BY <2>3, WalkLine
    <3>2. \A j \in N : j <= i <=> j <= i - 1
      BY <2>2, <2>3
    <3>3. \A j \in N : Later(j, i) = Later(j, i - 1)
      BY <3>2 DEF Later
    <3> QED BY <3>1, <3>2, <3>3 DEF OwnLines
  <2>4. CASE i \in N
    <3> DEFINE core == events[i].core
               util == events[i].util
               of == w[i - 1].of
    <3>1. core \in Slots /\ util \in Slots /\ core # -1 /\ util # -1
      BY <1>2, <2>1, <2>4 DEF NodeLines
    <3>2. w[i].core = core /\ w[i].util = util /\ w[i].of = Filled(of, core, util)
      <4>1. w[i].core = core /\ w[i].util = util
        BY <2>4, <3>1, WalkLine DEF Core, Util
      <4> QED BY <2>4, <4>1, WalkLine
    <3>3. PICK D \in SUBSET (0 .. Cores - 1) : of \in [D -> 0 .. Cores - 1]
      BY <2>1 DEF CoreWalks
    <3> HIDE DEF core, util, of
    <3>4. /\ DOMAIN w[i].of = D \cup {core} /\ w[i].of[core] = util
          /\ \A c \in D : c # core => w[i].of[c] = of[c]
      <4>1. -1 \notin {core, util}
        BY <3>1
      <4>2. /\ DOMAIN Filled(of, core, util) = D \cup {core}
            /\ Filled(of, core, util)[core] = util
            /\ \A c \in D : c # core => Filled(of, core, util)[c] = of[c]
        BY <3>1, <3>3, <4>1 DEF Filled
      <4>3. w[i].of = Filled(of, core, util)
        BY <3>2
      <4> QED BY <4>2, <4>3
    <3>5. D = DOMAIN of
      BY <3>3
    <3>6. ASSUME NEW c
          PROVE  c \in DOMAIN w[i].of <=> \E j \in N : j <= i /\ events[j].core = c
      <4>1. c \in D <=> \E j \in N : j <= i - 1 /\ events[j].core = c
        BY <3>5 DEF OwnLines, of
      <4>2. (\E j \in N : j <= i /\ events[j].core = c) <=>
               (\E j \in N : j <= i - 1 /\ events[j].core = c) \/ c = core
        BY <2>2, <2>4 DEF core
      <4> QED BY <3>4, <4>1, <4>2
    <3>7. ASSUME NEW j \in N, j <= i, \A k \in Later(j, i) : events[k].core # events[j].core
          PROVE  w[i].of[events[j].core] = events[j].util
      <4>1. CASE j = i
        BY <3>4, <4>1 DEF core, util
      <4>2. CASE j # i
        <5>1. j <= i - 1 /\ j < i
          BY <2>1, <2>2, <3>7, <4>2
        <5>2. i \in Later(j, i) /\ Later(j, i - 1) \subseteq Later(j, i)
          BY <2>1, <2>2, <2>4, <5>1 DEF Later
        <5>3. events[j].core # core
          BY <3>7, <5>2 DEF core
        <5>4. of[events[j].core] = events[j].util
          BY <3>7, <5>1, <5>2 DEF OwnLines, of
        <5>5. events[j].core \in D
          BY <3>5, <5>1 DEF OwnLines, of
        <5> QED BY <3>4, <5>3, <5>4, <5>5
      <4> QED BY <4>1, <4>2
    <3> QED BY <3>6, <3>7 DEF OwnLines
  <2> QED BY <2>3, <2>4
<1>5. n \in 0 .. n
  BY <1>1
<1>6. \A i \in 0 .. n : i \in T
  <2> HIDE DEF T, n
  <2> QED BY <1>1, <1>3, <1>4, LogP!UpToEnd
<1> QED BY <1>5, <1>6

\* As many different cores as there are cores are all of them.
LEMMA CoresFilled ==
    ASSUME ContainerInsights!CiAssumption, NEW D \in SUBSET (0 .. Cores - 1)
    PROVE  /\ IsFiniteSet(D) /\ Cardinality(D) \in Nat
           /\ Cardinality(D) = Cores <=> D = 0 .. Cores - 1
<1> DEFINE S == 0 .. Cores - 1
<1>1. Cores \in Nat /\ Cores # 0
  BY DEF ContainerInsights!CiAssumption
<1>2. IsFiniteSet(S) /\ Cardinality(S) = Cores
  <2>1. 0 \in Int /\ Cores - 1 \in Int /\ ~(0 > Cores - 1) /\ (Cores - 1) - 0 + 1 = Cores
    BY <1>1
  <2> QED BY <2>1, FS_Interval
<1> HIDE DEF S
<1>3. D \subseteq S
  BY DEF S
<1>4. /\ IsFiniteSet(D) /\ Cardinality(D) <= Cardinality(S)
      /\ Cardinality(D) = Cardinality(S) => D = S
  BY <1>2, <1>3, FS_Subset
<1> QED BY <1>2, <1>4, FS_CardinalityType DEF S

\* The last line of a core is there if the core has a line at all.
LEMMA LastLine ==
    ASSUME NodeLogInv, NEW c, \E j \in ContainerInsights!OfNode : events[j].core = c
    PROVE  \E i \in ContainerInsights!OfNode :
              /\ events[i].core = c /\ ContainerInsights!LastOf(c) = events[i].util
              /\ \A k \in Later(i, Len(events)) : events[k].core # c
<1> DEFINE own == {i \in ContainerInsights!OfNode : events[i].core = c}
           n == Len(events)
<1>1. n \in Nat /\ ContainerInsights!OfNode \subseteq 1 .. n
  BY NodeLinesTyped
<1>2. own \in SUBSET (0 .. n) /\ own # {}
  <2>1. \A i \in 1 .. n : i \in 0 .. n
    BY <1>1
  <2> HIDE DEF n
  <2> QED BY <1>1, <2>1
<1>3. LogP!Max(own) \in own /\ \A y \in own : y <= LogP!Max(own)
  <2> HIDE DEF own, n
  <2> QED BY <1>1, <1>2, LogP!MaxOfBounded
<1> DEFINE last == CHOOSE i \in own : \A j \in own : j <= i
<1>4. last \in own /\ \A j \in own : j <= last
  <2> HIDE DEF own
  <2> QED BY <1>3
<1>5. ContainerInsights!LastOf(c) = events[last].util
  BY <1>2 DEF ContainerInsights!LastOf
<1> HIDE DEF last
<1>6. ASSUME NEW k \in Later(last, n) PROVE events[k].core # c
  <2>1. k \in ContainerInsights!OfNode /\ last < k /\ k \in Nat /\ last \in Nat
    BY <1>1, <1>4 DEF Later
  <2>2. ~(k <= last)
    BY <2>1
  <2> QED BY <1>4, <2>1, <2>2
<1> QED BY <1>4, <1>5, <1>6

Decoded == ContainerInsights!GetNeuronCoreUtilizationPerCore

\* What the decoding leaves for a core is what its last line says.
LEMMA LastIsKept ==
    ASSUME ContainerInsights!CiAssumption, NodeLogInv, ~ContainerInsights!Partial
    PROVE  /\ DOMAIN Decoded \in SUBSET (0 .. Cores - 1)
           /\ \A c \in 0 .. Cores - 1 :
                 ContainerInsights!LastOf(c) = IF c \in DOMAIN Decoded THEN Decoded[c] ELSE -1
<1> DEFINE n == Len(events)
           of == ContainerInsights!GetNeuronCoreUtilizationPerCore
           N == ContainerInsights!OfNode
<1>1. PICK w \in [0 .. n -> CoreWalks] :
         /\ w[0] = [core |-> -1, util |-> -1, of |-> NoCounts]
         /\ \A i \in 1 .. n : w[i] = Decode(w[i - 1], events[i])
         /\ of = w[n].of
  BY CoresWalk
<1>2. OwnLines(w, n)
  BY <1>1, OwnLinesHold DEF CoreWalk
<1>3. n \in Nat /\ N \subseteq 1 .. n
  BY NodeLinesTyped
<1>4. \A j \in N : j <= n
  BY <1>3
<1> HIDE DEF n, of
<1>5. DOMAIN of \in SUBSET (0 .. Cores - 1)
  <2>1. w[n] \in CoreWalks
    BY <1>1, <1>3
  <2> QED BY <1>1, <2>1 DEF CoreWalks
<1>6. ASSUME NEW c \in 0 .. Cores - 1
      PROVE  ContainerInsights!LastOf(c) = IF c \in DOMAIN of THEN of[c] ELSE -1
  <2>1. c \in DOMAIN of <=> \E j \in N : events[j].core = c
    BY <1>1, <1>2, <1>4 DEF OwnLines
  <2>2. CASE c \in DOMAIN of
    <3>1. PICK i \in N : /\ events[i].core = c /\ ContainerInsights!LastOf(c) = events[i].util
                         /\ \A k \in Later(i, n) : events[k].core # c
      BY <2>1, <2>2, LastLine DEF n
    <3>2. of[c] = events[i].util
      BY <1>1, <1>2, <1>4, <3>1 DEF OwnLines
    <3> QED BY <2>2, <3>1, <3>2
  <2>3. CASE c \notin DOMAIN of
    BY <2>1, <2>3 DEF ContainerInsights!LastOf, ContainerInsights!None
  <2> QED BY <2>2, <2>3
<1> QED BY <1>5, <1>6 DEF of, Decoded

\* The value of a core is that of its own last line.
LEMMA OwnIsExact ==
    ASSUME ContainerInsights!CiAssumption, NodeLogInv, ~ContainerInsights!Partial
    PROVE  ContainerInsights!ValidateNeuronCoreUtilizationValuesLogs <=>
              \A c \in 0 .. Cores - 1 : ContainerInsights!LastOf(c) = c
<1> DEFINE of == ContainerInsights!GetNeuronCoreUtilizationPerCore
           D == DOMAIN of
<1>1. D \in SUBSET (0 .. Cores - 1)
      /\ \A c \in 0 .. Cores - 1 : ContainerInsights!LastOf(c) = IF c \in D THEN of[c] ELSE -1
  BY LastIsKept DEF Decoded
<1>2. Cardinality(D) = Cores <=> D = 0 .. Cores - 1
  <2> HIDE DEF D
  <2> QED BY <1>1, CoresFilled
<1>3. ContainerInsights!ValidateNeuronCoreUtilizationValuesLogs <=>
         Cardinality(D) = Cores /\ \A c \in D : of[c] = c
  BY DEF ContainerInsights!ValidateNeuronCoreUtilizationValuesLogs,
         ContainerInsights!Cardinality, Cardinality
<1> HIDE DEF D, of
<1>4. \A c \in 0 .. Cores - 1 : c # -1
  BY DEF ContainerInsights!CiAssumption
<1> QED BY <1>1, <1>2, <1>3, <1>4

-------------------------------------------------------------------------------
(* In a minute whose frequencies are right no line is partial.             *)

\* What is filled in, and what is carried on, is of a line.
FromLines(w, i) ==
    /\ \A c \in DOMAIN w[i].of :
          \E j \in ContainerInsights!OfNode :
             /\ j <= i /\ w[j].core = c /\ w[j].util # -1 /\ w[i].of[c] = w[j].util
    /\ \/ w[i].core = -1 /\ w[i].util = -1
       \/ \E j \in ContainerInsights!OfNode :
             j <= i /\ w[j].core = w[i].core /\ w[j].util = w[i].util

\* Nothing is in the result that no line says.
LEMMA FromLinesHold ==
    ASSUME NodeLogInv, NEW w, CoreWalk(w)
    PROVE  \A i \in 0 .. Len(events) : FromLines(w, i)
<1> DEFINE n == Len(events)
           N == ContainerInsights!OfNode
           T == {i \in 0 .. n : FromLines(w, i)}
<1>1. n \in Nat /\ N \subseteq 1 .. n
  BY NodeLinesTyped
<1>2. 0 \in T
  <2>1. ASSUME NEW x, x = [core |-> -1, util |-> -1, of |-> NoCounts]
        PROVE  DOMAIN x.of = {} /\ x.core = -1 /\ x.util = -1
    BY <2>1 DEF NoCounts
  <2>2. DOMAIN w[0].of = {} /\ w[0].core = -1 /\ w[0].util = -1
    BY <2>1 DEF CoreWalk
  <2>3. 0 \in 0 .. n
    BY <1>1
  <2> QED BY <2>2, <2>3 DEF FromLines
<1>3. \A i \in 1 .. n : i - 1 \in T => i \in T
  <2> SUFFICES ASSUME NEW i \in 1 .. n, FromLines(w, i - 1) PROVE FromLines(w, i)
    BY WalkLine
  <2>1. i \in Nat /\ w[i - 1] \in CoreWalks /\ w[i] \in CoreWalks
    BY WalkLine
  <2>2. \A j \in N : j <= i - 1 => j <= i
    BY <1>1, <2>1
  <2>3. CASE i \notin N
    BY <2>2, <2>3, WalkLine DEF FromLines
  <2>4. CASE i \in N
    <3> DEFINE core == w[i].core
               util == w[i].util
               of == w[i - 1].of
    <3>1. core \in Slots /\ util \in Slots /\ w[i].of = Filled(of, core, util) /\ i <= i
      BY <2>1, <2>4, WalkLine DEF CoreWalks
    <3>2. PICK D \in SUBSET (0 .. Cores - 1) : of \in [D -> 0 .. Cores - 1]
      BY <2>1 DEF CoreWalks
    <3>3. ASSUME NEW c \in DOMAIN of
          PROVE  \E j \in N : j <= i /\ w[j].core = c /\ w[j].util # -1 /\ of[c] = w[j].util
      BY <2>2 DEF FromLines
    <3>4. ASSUME NEW c \in DOMAIN w[i].of
          PROVE  \E j \in N : j <= i /\ w[j].core = c /\ w[j].util # -1 /\ w[i].of[c] = w[j].util
      <4>1. CASE -1 \in {core, util}
        <5>1. w[i].of = of
          <6> HIDE DEF core, util, of
          <6>1. Filled(of, core, util) = of
            BY <4>1 DEF Filled
          <6> QED BY <3>1, <6>1
        <5> QED BY <3>3, <5>1
      <4>2. CASE -1 \notin {core, util}
        <5>1. /\ DOMAIN w[i].of = D \cup {core} /\ w[i].of[core] = util
              /\ \A d \in D : d # core => w[i].of[d] = of[d]
          <6> HIDE DEF core, util, of
          <6>1. /\ DOMAIN Filled(of, core, util) = D \cup {core}
                /\ Filled(of, core, util)[core] = util
                /\ \A d \in D : d # core => Filled(of, core, util)[d] = of[d]
            BY <3>1, <3>2, <4>2 DEF Filled
          <6> QED BY <3>1, <6>1
        <5>2. CASE c = core
          BY <2>4, <3>1, <4>2, <5>1, <5>2
        <5>3. CASE c # core
          <6>1. c \in D /\ D = DOMAIN of
            BY <3>2, <5>1, <5>3
          <6>2. w[i].of[c] = of[c]
            BY <5>1, <5>3, <6>1
          <6> QED BY <3>3, <6>1, <6>2
        <5> QED BY <5>2, <5>3
      <4> QED BY <4>1, <4>2
    <3> QED BY <2>4, <3>1, <3>4 DEF FromLines
  <2> QED BY <2>3, <2>4
<1>4. \A i \in 0 .. n : i \in T
  <2> HIDE DEF T, n
  <2> QED BY <1>1, <1>2, <1>3, LogP!UpToEnd
<1> QED BY <1>4

\* If there are as many lines as cores, and all cores are filled in, then no two
\* lines fill in the same.
LEMMA OneLineEach ==
    ASSUME ContainerInsights!CiAssumption, NodeLogInv, NEW w, CoreWalk(w),
           ContainerInsights!Number("NodeAWSNeuronCore") = Cores,
           Cardinality(DOMAIN w[Len(events)].of) = Cores
    PROVE  /\ \A j \in ContainerInsights!OfNode : w[j].core \in DOMAIN w[Len(events)].of
           /\ \A j, k \in ContainerInsights!OfNode : w[j].core = w[k].core => j = k
<1> DEFINE n == Len(events)
           N == ContainerInsights!OfNode
           D == DOMAIN w[n].of
           f == [j \in N |-> w[j].core]
           R == {f[j] : j \in N}
<1>1. n \in Nat /\ n \in 0 .. n /\ N \subseteq 1 .. n /\ DOMAIN events = 1 .. n
  BY NodeLinesTyped
<1>2. D \in SUBSET (0 .. Cores - 1)
  <2>1. w[n] \in CoreWalks
    BY <1>1 DEF CoreWalk
  <2> QED BY <2>1 DEF CoreWalks
<1>3. IsFiniteSet(N) /\ Cardinality(N) = Cores
  <2>1. N = Came(n, "NodeAWSNeuronCore")
    <3>1. \A i \in 1 .. n : i \in N <=> TypeOfLine(events[i]) = "NodeAWSNeuronCore"
      BY NodeLinesTyped DEF TypeOfLine, OfNeuronCore
    <3> QED BY <1>1, <3>1 DEF Came
  <2>2. /\ IsFiniteSet(Came(n, "NodeAWSNeuronCore"))
        /\ Cardinality(Came(n, "NodeAWSNeuronCore")) = Cores
    BY NumberIsCount
  <2> QED BY <2>1, <2>2
<1>4. D \subseteq R
  <2>1. FromLines(w, n)
    BY <1>1, FromLinesHold
  <2> QED BY <2>1 DEF FromLines
<1>5. f \in Surjection(N, R)
  BY DEF Surjection
<1> HIDE DEF D, N, R, f
<1>6. IsFiniteSet(R) /\ Cardinality(R) <= Cores /\ Cardinality(R) \in Nat
  <2>1. IsFiniteSet(R) /\ Cardinality(R) <= Cardinality(N)
    BY <1>3, <1>5, FS_Surjection
  <2> QED BY <1>3, <2>1, FS_CardinalityType
<1>7. D = R /\ Cardinality(R) = Cores
  <2>1. Cardinality(D) = Cores
    BY DEF D
  <2>2. /\ Cardinality(D) <= Cardinality(R)
        /\ Cardinality(D) = Cardinality(R) => D = R
    BY <1>4, <1>6, FS_Subset
  <2>3. Cores \in Nat
    BY DEF ContainerInsights!CiAssumption
  <2> QED BY <1>6, <2>1, <2>2, <2>3
<1>8. f \in Injection(N, R)
  BY <1>3, <1>5, <1>6, <1>7, FS_SurjSameCardinalityImpliesInj
<1>9. \A j \in N : w[j].core \in D
  BY <1>7 DEF R, f
<1>10. \A j, k \in N : w[j].core = w[k].core => j = k
  <2>1. \A j, k \in N : f[j] = f[k] => j = k
    BY <1>8 DEF Injection, IsInjective
  <2> QED BY <2>1 DEF f
<1> QED BY <1>9, <1>10 DEF D, N

\* If the lines keep step with the cores none of them is partial.
LEMMA NoPartialInStep ==
    ASSUME ContainerInsights!CiAssumption, NodeLogInv,
           ContainerInsights!ValidateNeuronCoreUtilizationValuesLogs,
           ContainerInsights!Number("NodeAWSNeuronCore") = Cores
    PROVE  ~ContainerInsights!Partial
<1> DEFINE n == Len(events)
           N == ContainerInsights!OfNode
           of == ContainerInsights!GetNeuronCoreUtilizationPerCore
<1>1. PICK w \in [0 .. n -> CoreWalks] :
         /\ w[0] = [core |-> -1, util |-> -1, of |-> NoCounts]
         /\ \A i \in 1 .. n : w[i] = Decode(w[i - 1], events[i])
         /\ of = w[n].of
  BY CoresWalk
<1>2. CoreWalk(w)
  BY <1>1 DEF CoreWalk
<1>3. n \in Nat /\ n \in 0 .. n /\ N \subseteq 1 .. n
  BY NodeLinesTyped
<1>4. Cardinality(DOMAIN of) = Cores /\ \A c \in DOMAIN of : of[c] = c
  BY DEF ContainerInsights!ValidateNeuronCoreUtilizationValuesLogs,
         ContainerInsights!Cardinality, Cardinality
<1>5. /\ \A j \in N : w[j].core \in DOMAIN of
      /\ \A j, k \in N : w[j].core = w[k].core => j = k
  BY <1>1, <1>2, <1>4, OneLineEach
<1>6. DOMAIN of \in SUBSET (0 .. Cores - 1)
  <2>1. w[n] \in CoreWalks
    BY <1>1, <1>3
  <2> QED BY <1>1, <2>1 DEF CoreWalks
<1>7. \A i \in 0 .. n : FromLines(w, i)
  BY <1>2, FromLinesHold
<1> HIDE DEF of
<1>8. \A j \in N : w[j].core # -1 /\ w[j].util # -1 /\ w[j].util = w[j].core
  <2> TAKE j \in N
  <2>1. w[j].core \in DOMAIN of
    BY <1>5
  <2>2. PICK k \in N : w[k].core = w[j].core /\ w[k].util # -1 /\ of[w[j].core] = w[k].util
    BY <1>1, <1>3, <1>7, <2>1 DEF FromLines
  <2>3. k = j
    BY <1>5, <2>2
  <2>4. w[j].core # -1
    <3>1. ~(-1 \in 0 .. Cores - 1)
      BY DEF ContainerInsights!CiAssumption
    <3> QED BY <1>6, <2>1, <3>1
  <2> QED BY <1>4, <2>1, <2>2, <2>3, <2>4
<1>9. ASSUME NEW j \in N, events[j].core = -1 \/ events[j].util = -1 PROVE FALSE
  <2>1. /\ j \in 1 .. n /\ j \in Nat /\ j - 1 \in 0 .. n
        /\ w[j].core = Core(w[j - 1], events[j])
        /\ w[j].util = Util(w[j - 1], events[j])
    BY <1>2, <1>3, WalkLine
  <2>2. \/ w[j - 1].core = -1 /\ w[j - 1].util = -1
        \/ \E k \in N : k <= j - 1 /\ w[k].core = w[j - 1].core /\ w[k].util = w[j - 1].util
    BY <1>7, <2>1 DEF FromLines
  <2>3. ASSUME NEW k \in N, k <= j - 1 PROVE k # j
    BY <2>1, <2>3
  <2>4. CASE events[j].core = -1
    <3>1. w[j].core = w[j - 1].core
      BY <2>1, <2>4 DEF Core
    <3> QED BY <1>5, <1>8, <2>2, <2>3, <3>1
  <2>5. CASE events[j].util = -1
    <3>1. w[j].util = w[j - 1].util
      BY <2>1, <2>5 DEF Util
    <3> QED BY <1>5, <1>8, <2>2, <2>3, <3>1
  <2> QED BY <1>9, <2>4, <2>5
<1> QED BY <1>9 DEF ContainerInsights!Partial, ContainerInsights!None

\* So the utilization of each core is exact.
LEMMA CoresExact ==
    ASSUME ContainerInsights!CiAssumption, NodeLogInv
    PROVE  ContainerInsights!CoresAreExact
<1>1. ASSUME ~ContainerInsights!Partial
      PROVE  ContainerInsights!ValidateNeuronCoreUtilizationValuesLogs <=>
                \A c \in 0 .. Cores - 1 : ContainerInsights!LastOf(c) = c
  BY <1>1, OwnIsExact
<1>2. ASSUME ContainerInsights!ValidateNeuronCoreUtilizationValuesLogs,
             ContainerInsights!ValidateLogsFrequency
      PROVE  ~ContainerInsights!Partial
  <2>1. ContainerInsights!Number("NodeAWSNeuronCore") = Cores
    BY <1>2, FrequenciesExact DEF ContainerInsights!FrequencyIsExact,
       ContainerInsights!EksClusterFrequencyValidationMap
  <2> QED BY <1>2, <2>1, NoPartialInStep
<1> QED BY <1>1, <1>2 DEF ContainerInsights!CoresAreExact

-------------------------------------------------------------------------------
(* Each helper keeps its own invariant, and the others leave it alone.     *)

\* A step of a loop, side by side with the others.
LEMMA LoopStep ==
    ASSUME HelpersAssumption, PollsInv, Polls!PollsNext \/ UNCHANGED <<loopVars, now>>
    PROVE  PollsInv'
<1>1. Polls!PollsAssumption
  BY DEF HelpersAssumption
<1>2. [Polls!PollsNext]_(Polls!pollVars)
  BY DEF Polls!pollVars, loopVars
<1> QED BY <1>1, <1>2, StepPollsInv

\* A step of the client, side by side with the others.
LEMMA ClientStep ==
    ASSUME HelpersAssumption, ClientP!IInv, OtelClient!Next \/ UNCHANGED clientVars
    PROVE  ClientP!IInv'
<1>1. ClientP!ClientAssumption
  BY SameClient DEF HelpersAssumption
<1>2. [ClientP!Next]_(ClientP!vars)
  BY SameClient DEF ClientP!vars, ClientP!clientVars, ClientP!assertVars, clientVars
<1> QED BY <1>1, <1>2, ClientP!StepIInv

\* A step of a sender, side by side with the others.
LEMMA SenderStep ==
    ASSUME HelpersAssumption, SendersP!SInv, LoadSenders!LsNext \/ UNCHANGED senderVars
    PROVE  SendersP!SInv'
<1>1. SendersP!SendersAssumption
  BY SameSenders DEF HelpersAssumption
<1>2. [SendersP!LsNext]_(SendersP!senderVars)
  BY SameSenders DEF SendersP!senderVars, senderVars
<1> QED BY <1>1, <1>2, SendersP!StepSInv

-------------------------------------------------------------------------------
(* The arithmetic of the checks.                                           *)

\* Division keeps the order and the sign.
LEMMA DivKeepsOrder ==
    ASSUME NEW m \in Nat \ {0}, NEW a \in Int, NEW b \in Int
    PROVE  /\ a \div m \in Int
           /\ a <= b => a \div m <= b \div m
           /\ a < 0 => a \div m < 0
           /\ a >= 0 => a \div m >= 0
<1>1. \A x \in Int : x \div m \in Int /\ m * (x \div m) <= x /\ x < m * (x \div m) + m
  OBVIOUS
<1>2. \A p, q \in Int : p < q => m * p + m <= m * q
  <2> TAKE p, q \in Int
  <2>1. \A d \in Nat : m * d \in Nat
    OBVIOUS
  <2>2. ASSUME p < q PROVE m * p + m <= m * q
    <3>1. q - p - 1 \in Nat
      BY <2>2
    <3>2. m * (q - p - 1) >= 0
      BY <2>1, <3>1
    <3>3. m * (q - p - 1) = m * q - m * p - m
      OBVIOUS
    <3>4. m * p \in Int /\ m * q \in Int
      OBVIOUS
    <3> QED BY <3>2, <3>3, <3>4
  <2> QED BY <2>2
<1> DEFINE x == a \div m
           y == b \div m
<1>3. x \in Int /\ y \in Int /\ m * x \in Int /\ m * y \in Int
  BY <1>1
<1>4. m * x <= a /\ a < m * x + m /\ m * y <= b /\ b < m * y + m
  BY <1>1
<1>5. /\ y < x => m * y + m <= m * x
      /\ x < 0 => m * x + m <= m * 0
      /\ 0 <= x => 0 <= m * x
  <2>1. 0 <= x => m * 0 <= m * x
    BY <1>2, <1>3
  <2> HIDE DEF x, y
  <2> QED BY <1>2, <1>3, <2>1
<1> HIDE DEF x, y
<1>6. a <= b => x <= y
  BY <1>3, <1>4, <1>5
<1>7. a < 0 => x < 0
  BY <1>3, <1>4, <1>5
<1>8. a >= 0 => x >= 0
  BY <1>3, <1>4, <1>5
<1> QED BY <1>3, <1>6, <1>7, <1>8 DEF x, y

\* The places of the values below v, and of those not above it.
Below(data, v) == {i \in DOMAIN data : data[i] < v}
UpToValue(data, v) == {i \in DOMAIN data : data[i] <= v}
ValuesOf(data) == {data[i] : i \in DOMAIN data}

\* The places below a value and up to it are finitely many.
LEMMA PlacesCounted ==
    ASSUME NEW data \in Seq(Nat), NEW v \in Nat
    PROVE  /\ Len(data) \in Nat /\ DOMAIN data = 1 .. Len(data)
           /\ \A i \in DOMAIN data : data[i] \in Nat
           /\ IsFiniteSet(DOMAIN data) /\ Cardinality(DOMAIN data) = Len(data)
           /\ IsFiniteSet(Below(data, v)) /\ Cardinality(Below(data, v)) \in Nat
           /\ IsFiniteSet(UpToValue(data, v)) /\ Cardinality(UpToValue(data, v)) \in 0 .. Len(data)
<1>1. /\ Len(data) \in Nat /\ DOMAIN data = 1 .. Len(data)
      /\ \A i \in DOMAIN data : data[i] \in Nat
  OBVIOUS
<1>2. IsFiniteSet(DOMAIN data) /\ Cardinality(DOMAIN data) = Len(data)
  <2> DEFINE n == Len(data)
  <2> HIDE DEF n
  <2>1. 1 \in Int /\ n \in Int /\ (IF 1 > n THEN 0 ELSE n - 1 + 1) = n
    BY <1>1 DEF n
  <2>2. IsFiniteSet(1 .. n) /\ Cardinality(1 .. n) = (IF 1 > n THEN 0 ELSE n - 1 + 1)
    BY <2>1, FS_Interval, Zenon
  <2>3. IsFiniteSet(1 .. n) /\ Cardinality(1 .. n) = n
    BY <2>1, <2>2
  <2> QED BY <1>1, <2>3 DEF n
<1>3. Below(data, v) \subseteq DOMAIN data /\ UpToValue(data, v) \subseteq DOMAIN data
  BY DEF Below, UpToValue
<1>4. /\ IsFiniteSet(Below(data, v))
      /\ IsFiniteSet(UpToValue(data, v))
      /\ Cardinality(UpToValue(data, v)) <= Cardinality(DOMAIN data)
  BY <1>2, <1>3, FS_Subset
<1>5. Cardinality(Below(data, v)) \in Nat /\ Cardinality(UpToValue(data, v)) \in Nat
  BY <1>4, FS_CardinalityType
<1> QED BY <1>1, <1>2, <1>4, <1>5

\* Below the least value that k values do not exceed there are less than k.
LEMMA RankExists ==
    ASSUME NEW data \in Seq(Nat), NEW k \in 1 .. Len(data)
    PROVE  \E v \in ValuesOf(data) : /\ Cardinality(Below(data, v)) < k
                                     /\ Cardinality(UpToValue(data, v)) >= k
<1> DEFINE n == Len(data)
           T == {v \in ValuesOf(data) : Cardinality(UpToValue(data, v)) >= k}
<1>1. /\ n \in Nat /\ DOMAIN data = 1 .. n /\ \A i \in DOMAIN data : data[i] \in Nat
      /\ Cardinality(DOMAIN data) = n /\ k \in Nat /\ k # 0
  <2>1. 0 \in Nat
    OBVIOUS
  <2>2. /\ n \in Nat /\ DOMAIN data = 1 .. n /\ \A i \in DOMAIN data : data[i] \in Nat
        /\ Cardinality(DOMAIN data) = n
    BY <2>1, PlacesCounted
  <2> QED BY <2>2
<1>2. ValuesOf(data) \subseteq Nat /\ 1 \in DOMAIN data
  BY <1>1 DEF ValuesOf
<1>3. PICK bound \in Nat : \A v \in ValuesOf(data) : v <= bound
  <2> DEFINE Bounded(i, b) == \A j \in 1 .. i : data[j] <= b
             U == {i \in 0 .. n : \E b \in Nat : Bounded(i, b)}
  <2>1. 0 \in U
    <3>1. 0 \in Nat /\ 0 \in 0 .. n /\ Bounded(0, 0)
      BY <1>1
    <3> QED BY <3>1
  <2>2. \A i \in 1 .. n : i - 1 \in U => i \in U
    <3> SUFFICES ASSUME NEW i \in 1 .. n, NEW b \in Nat, Bounded(i - 1, b)
                 PROVE  \E c \in Nat : Bounded(i, c)
      <4>1. \A i \in 1 .. n : i \in 0 .. n
        BY <1>1
      <4> HIDE DEF Bounded, n
      <4> QED BY <4>1
    <3>1. data[i] \in Nat /\ \A j \in 1 .. i : data[j] \in Nat /\ (j \in 1 .. (i - 1) \/ j = i)
      BY <1>1
    <3>2. \A j \in 1 .. (i - 1) : data[j] <= b
      OBVIOUS
    <3>3. CASE data[i] <= b
      <4>1. \A j \in 1 .. i : data[j] <= b
        BY <3>1, <3>2, <3>3
      <4> QED BY <4>1
    <3>4. CASE b < data[i]
      <4>1. \A j \in 1 .. i : data[j] <= data[i]
        BY <3>1, <3>2, <3>4
      <4> QED BY <3>1, <4>1
    <3> HIDE DEF Bounded
    <3> QED BY <3>1, <3>3, <3>4
  <2>3. \A i \in 0 .. n : i \in U
    <3> HIDE DEF U, n
    <3> QED BY <1>1, <2>1, <2>2, LogP!UpToEnd
  <2>4. n \in U
    <3>1. n \in 0 .. n
      BY <1>1
    <3> HIDE DEF U, n
    <3> QED BY <2>3, <3>1
  <2>5. PICK b \in Nat : Bounded(n, b)
    BY <2>4
  <2> QED BY <1>1, <2>5 DEF ValuesOf
<1>4. \A s \in SUBSET ValuesOf(data) : s # {} => \E x \in s : \A y \in s : y <= x
  <2> TAKE s \in SUBSET ValuesOf(data)
  <2>1. s \subseteq 0 .. bound
    BY <1>2, <1>3
  <2> QED BY <2>1, LogP!MaxOfBounded
<1>5. T # {}
  <2>1. ValuesOf(data) # {}
    BY <1>2 DEF ValuesOf
  <2>2. PICK x \in ValuesOf(data) : \A y \in ValuesOf(data) : y <= x
    BY <1>4, <2>1
  <2>3. UpToValue(data, x) = DOMAIN data
    BY <2>2 DEF UpToValue, ValuesOf
  <2> QED BY <1>1, <2>2, <2>3
<1>6. PICK v \in T : \A y \in T : v <= y
  BY <1>2, <1>5, LogP!LeastNumber
<1>7. Cardinality(Below(data, v)) < k
  <2> DEFINE s == {x \in ValuesOf(data) : x < v}
  <2>1. CASE s = {}
    <3>1. Below(data, v) = {}
      BY <2>1 DEF Below, ValuesOf
    <3> QED BY <1>1, <3>1, FS_EmptySet
  <2>2. CASE s # {}
    <3>1. PICK x \in s : \A y \in s : y <= x
      BY <1>4, <2>2
    <3>2. x \in ValuesOf(data) /\ x < v /\ x \in Nat /\ v \in Nat
      BY <1>2
    <3>3. Below(data, v) = UpToValue(data, x)
      <4>1. ASSUME NEW i \in DOMAIN data PROVE data[i] < v <=> data[i] <= x
        <5>1. data[i] \in ValuesOf(data) /\ data[i] \in Nat
          BY <1>1 DEF ValuesOf
        <5> QED BY <3>1, <3>2, <5>1
      <4> QED BY <4>1 DEF Below, UpToValue
    <3>4. x \notin T
      BY <1>6, <3>2
    <3>5. ~(Cardinality(UpToValue(data, x)) >= k)
      BY <3>2, <3>4
    <3>6. Cardinality(UpToValue(data, x)) \in Nat
      BY <3>2, PlacesCounted
    <3> QED BY <1>1, <3>3, <3>5, <3>6
  <2> QED BY <2>1, <2>2
<1> QED BY <1>6, <1>7

\* What Ranked chooses has its rank.
LEMMA RankedIs ==
    ASSUME NEW data \in Seq(Nat), NEW k \in 1 .. Len(data)
    PROVE  /\ ValidatorChecks!Ranked(data, k) \in ValuesOf(data)
           /\ Cardinality(Below(data, ValidatorChecks!Ranked(data, k))) < k
           /\ Cardinality(UpToValue(data, ValidatorChecks!Ranked(data, k))) >= k
<1>1. \E v \in ValuesOf(data) : /\ Cardinality(Below(data, v)) < k
                                /\ Cardinality(UpToValue(data, v)) >= k
  BY RankExists
<1>2. ValidatorChecks!Ranked(data, k) =
         CHOOSE v \in ValuesOf(data) : /\ Cardinality(Below(data, v)) < k
                                       /\ Cardinality(UpToValue(data, v)) >= k
  BY DEF ValidatorChecks!Ranked, ValidatorChecks!ToSet, ValidatorChecks!Cardinality, Cardinality,
         ValuesOf, Below, UpToValue
<1> QED BY <1>1, <1>2

\* The first of the sorted values is the least, the last the greatest.
LEMMA RankedEnds ==
    ASSUME NEW data \in Seq(Nat), data # <<>>
    PROVE  /\ ValidatorChecks!Ranked(data, 1) \in ValuesOf(data)
           /\ \A v \in ValuesOf(data) : ValidatorChecks!Ranked(data, 1) <= v
           /\ ValidatorChecks!Ranked(data, Len(data)) \in ValuesOf(data)
           /\ \A v \in ValuesOf(data) : v <= ValidatorChecks!Ranked(data, Len(data))
<1> DEFINE first == ValidatorChecks!Ranked(data, 1)
           last == ValidatorChecks!Ranked(data, Len(data))
<1>1. Len(data) \in Nat /\ Len(data) # 0
  BY EmptySeq
<1>2. /\ first \in ValuesOf(data) /\ Cardinality(Below(data, first)) < 1
      /\ last \in ValuesOf(data) /\ Cardinality(UpToValue(data, last)) >= Len(data)
  <2>1. 1 \in 1 .. Len(data) /\ Len(data) \in 1 .. Len(data)
    BY <1>1
  <2> QED BY <2>1, RankedIs
<1> HIDE DEF first, last
<1>3. /\ ValuesOf(data) \subseteq Nat /\ IsFiniteSet(DOMAIN data)
      /\ Cardinality(DOMAIN data) = Len(data)
  <2>1. 0 \in Nat
    OBVIOUS
  <2> QED BY <2>1, PlacesCounted DEF ValuesOf
<1>4. Below(data, first) = {}
  <2>1. IsFiniteSet(Below(data, first)) /\ Cardinality(Below(data, first)) \in Nat
    BY <1>2, <1>3, PlacesCounted
  <2>2. Cardinality(Below(data, first)) = 0
    BY <1>2, <2>1
  <2> QED BY <2>1, <2>2, FS_EmptySet
<1>5. UpToValue(data, last) = DOMAIN data
  <2>1. Cardinality(UpToValue(data, last)) = Cardinality(DOMAIN data)
    <3>1. Cardinality(UpToValue(data, last)) \in 0 .. Len(data)
      BY <1>2, <1>3, PlacesCounted
    <3> QED BY <1>1, <1>2, <1>3, <3>1
  <2>2. UpToValue(data, last) \subseteq DOMAIN data
    BY DEF UpToValue
  <2> QED BY <1>3, <2>1, <2>2, FS_Subset
<1>6. \A v \in ValuesOf(data) : first <= v
  <2>1. \A i \in DOMAIN data : ~(data[i] < first)
    BY <1>4 DEF Below
  <2>2. \A i \in DOMAIN data : data[i] \in Nat /\ first \in Nat
    BY <1>2, <1>3 DEF ValuesOf
  <2>3. \A i \in DOMAIN data : first <= data[i]
    BY <2>1, <2>2
  <2> QED BY <2>3 DEF ValuesOf
<1>7. \A v \in ValuesOf(data) : v <= last
  BY <1>5 DEF UpToValue, ValuesOf
<1> QED BY <1>2, <1>6, <1>7 DEF first, last

-------------------------------------------------------------------------------
(* The statistics of a performance test.                                   *)

LastOf(name) == name[Len(name)]

\* Two words in a row.
LEMMA TwoWords ==
    ASSUME NEW v, NEW w
    PROVE  Len(<<v>> \o <<w>>) = 2 /\ (<<v>> \o <<w>>)[2] = w
<1> DEFINE S == {v, w}
           p == <<v>>
           q == <<w>>
           r == p \o q
<1>1. p \in Seq(S) /\ q \in Seq(S) /\ Len(p) = 1 /\ Len(q) = 1 /\ q[1] = w
  OBVIOUS
<1> HIDE DEF p, q, S
<1>2. /\ Len(r) = Len(p) + Len(q)
      /\ \A i \in 1 .. Len(r) : r[i] = IF i <= Len(p) THEN p[i] ELSE q[i - Len(p)]
  BY <1>1, ConcatProperties
<1> HIDE DEF r
<1>3. Len(r) = 2 /\ r[2] = q[1]
  BY <1>1, <1>2
<1> QED BY <1>1, <1>3 DEF p, q, r

\* The parts of a job.
LEMMA JobIs ==
    ASSUME NEW ty, NEW o, NEW r, NEW rc, NEW it, NEW j, j = ValidatorChecks!Job(ty, o, r, rc, it)
    PROVE  /\ j.type = ty /\ j.os = o /\ j.rate = ValidatorChecks!DataRate(r)
           /\ j.receiver = rc /\ j.items = it
BY DEF ValidatorChecks!Job

OneMetric(t, r) ==
    ValidatorChecks!Job("stress", t[1], r, t[2], <<ValidatorChecks!Metric(t[3], 0)>>)
PairOf(p) ==
    ValidatorChecks!Job("stress", "linux", "1000", "emf",
                        <<ValidatorChecks!Metric(p[1], 0), ValidatorChecks!Metric(p[2], 0)>>)

\* A stress test has one metric at some rate, or two.
LEMMA StressJobIs ==
    ASSUME NEW j \in ValidatorChecks!StressJobs
    PROVE  \/ \E t \in ValidatorChecks!StressTests :
                 \E r \in ValidatorChecks!Rates \cup {"<values_per_minute>"} : j = OneMetric(t, r)
           \/ \E p \in ValidatorChecks!TwoMetrics : j = PairOf(p)
<1> DEFINE Texts == ValidatorChecks!Rates \cup {"<values_per_minute>"}
           Of(t) == {OneMetric(t, r) : r \in Texts}
           Ones == {Of(t) : t \in ValidatorChecks!StressTests}
           Pairs == {PairOf(p) : p \in ValidatorChecks!TwoMetrics}
<1>1. ValidatorChecks!StressJobs = Pairs \cup UNION Ones
  BY DEF ValidatorChecks!StressJobs, OneMetric, PairOf
<1>2. ASSUME j \in UNION Ones
      PROVE  \E t \in ValidatorChecks!StressTests : \E r \in Texts : j = OneMetric(t, r)
  <2> HIDE DEF Texts
  <2>1. PICK s \in Ones : j \in s
    BY <1>2
  <2>2. PICK t \in ValidatorChecks!StressTests : s = Of(t)
    BY <2>1
  <2> QED BY <2>1, <2>2
<1>3. ASSUME j \in Pairs
      PROVE  \E p \in ValidatorChecks!TwoMetrics : j = PairOf(p)
  BY <1>3
<1> HIDE DEF Ones, Texts, Pairs
<1>4. CASE j \in UNION Ones
  BY <1>2, <1>4 DEF Texts
<1>5. CASE j \in Pairs
  BY <1>3, <1>5
<1>6. j \in UNION Ones \/ j \in Pairs
  BY <1>1
<1> QED BY <1>4, <1>5, <1>6

\* The jobs are told apart by their type.
LEMMA JobTypes ==
    /\ \A j \in ValidatorChecks!FeatureJobs : j.type = "feature"
    /\ \A j \in ValidatorChecks!StressJobs : j.type = "stress"
    /\ \A j \in ValidatorChecks!PerformanceJobs : j.type = "performance"
<1>2. \A j \in ValidatorChecks!FeatureJobs : j.type = "feature"
  <2> TAKE j \in ValidatorChecks!FeatureJobs
  <2>1. PICK items \in ValidatorChecks!FeatureTests :
           j = ValidatorChecks!Job("feature", "windows", "2", "system", items)
    BY DEF ValidatorChecks!FeatureJobs
  <2> QED BY <2>1, JobIs
<1>3. \A j \in ValidatorChecks!StressJobs : j.type = "stress"
  <2> TAKE j \in ValidatorChecks!StressJobs
  <2>1. \A t, r : \A i : i = OneMetric(t, r) => i.type = "stress"
    BY JobIs DEF OneMetric
  <2>2. \A p : \A i : i = PairOf(p) => i.type = "stress"
    BY JobIs DEF PairOf
  <2> QED BY <2>1, <2>2, StressJobIs
<1>4. \A j \in ValidatorChecks!PerformanceJobs : j.type = "performance"
  BY JobIs DEF ValidatorChecks!PerformanceJobs
<1> QED BY <1>2, <1>3, <1>4

\* The two performance tests: two metrics each, and their names end in different words.
LEMMA PerformancePairs ==
    ASSUME job \in ValidatorChecks!Jobs, job.type = "performance"
    PROVE  /\ Len(job.items) = 2
           /\ \A i \in 1 .. 2 : /\ job.items[i].kind = "metric"
                                /\ ValidatorChecks!LastWord(job.items[i].name) =
                                      LastOf(job.items[i].name)
           /\ LastOf(job.items[1].name) # LastOf(job.items[2].name)
<1>1. job \in ValidatorChecks!PerformanceJobs
  <2>1. job \notin ValidatorChecks!FeatureJobs /\ job \notin ValidatorChecks!StressJobs
    BY JobTypes
  <2> QED BY <2>1 DEF ValidatorChecks!Jobs
<1> DEFINE m(name) == ValidatorChecks!Metric(name, 0)
<1>2. \A name : m(name).kind = "metric" /\ m(name).name = name
  BY DEF ValidatorChecks!Metric
<1>3. CASE job.os = "linux" /\ job.items = <<m(<<"mem_total">>), m(<<"net_packets_sent">>)>>
  <2> HIDE DEF m
  <2>1. \A w : ValidatorChecks!LastWord(<<w>>) = w
    <3> TAKE w
    <3>1. ValidatorChecks!Label(<<w>>) = <<"InstanceId">> \o <<w>>
      BY <1>3 DEF ValidatorChecks!Label
    <3>2. Len(<<"InstanceId">> \o <<w>>) = 2 /\ (<<"InstanceId">> \o <<w>>)[2] = w
      BY TwoWords
    <3> QED BY <3>1, <3>2 DEF ValidatorChecks!LastWord
  <2>2. \A w : LastOf(<<w>>) = w
    BY DEF LastOf
  <2>3. /\ Len(job.items) = 2
        /\ job.items[1] = m(<<"mem_total">>) /\ job.items[2] = m(<<"net_packets_sent">>)
    BY <1>3
  <2>4. \A i \in 1 .. 2 : i = 1 \/ i = 2
    OBVIOUS
  <2>5. /\ job.items[1].name = <<"mem_total">> /\ job.items[2].name = <<"net_packets_sent">>
        /\ job.items[1].kind = "metric" /\ job.items[2].kind = "metric"
    BY <1>2, <2>3
  <2>6. /\ ValidatorChecks!LastWord(job.items[1].name) = "mem_total"
        /\ LastOf(job.items[1].name) = "mem_total"
        /\ ValidatorChecks!LastWord(job.items[2].name) = "net_packets_sent"
        /\ LastOf(job.items[2].name) = "net_packets_sent"
    BY <2>1, <2>2, <2>5
  <2> QED BY <2>3, <2>4, <2>5, <2>6
<1>4. CASE /\ job.os = "windows"
           /\ job.items = <<m(<<"procstat", "cpu_usage">>), m(<<"procstat", "memory_rss">>)>>
  <2> HIDE DEF m
  <2>1. \A v, w : ValidatorChecks!LastWord(<<v, w>>) = w /\ LastOf(<<v, w>>) = w
    BY <1>4 DEF ValidatorChecks!LastWord, ValidatorChecks!Label, LastOf
  <2>3. /\ Len(job.items) = 2
        /\ job.items[1] = m(<<"procstat", "cpu_usage">>)
        /\ job.items[2] = m(<<"procstat", "memory_rss">>)
    BY <1>4
  <2>4. \A i \in 1 .. 2 : i = 1 \/ i = 2
    OBVIOUS
  <2>5. /\ job.items[1].name = <<"procstat", "cpu_usage">>
        /\ job.items[2].name = <<"procstat", "memory_rss">>
        /\ job.items[1].kind = "metric" /\ job.items[2].kind = "metric"
    BY <1>2, <2>3
  <2>6. /\ ValidatorChecks!LastWord(job.items[1].name) = "cpu_usage"
        /\ LastOf(job.items[1].name) = "cpu_usage"
        /\ ValidatorChecks!LastWord(job.items[2].name) = "memory_rss"
        /\ LastOf(job.items[2].name) = "memory_rss"
    BY <2>1, <2>5
  <2> QED BY <2>3, <2>4, <2>5, <2>6
<1>5. \/ /\ job.os = "linux"
         /\ job.items = <<m(<<"mem_total">>), m(<<"net_packets_sent">>)>>
      \/ /\ job.os = "windows"
         /\ job.items = <<m(<<"procstat", "cpu_usage">>), m(<<"procstat", "memory_rss">>)>>
  <2>1. CASE job = ValidatorChecks!Job("performance", "linux", "1000", "emf",
                       <<m(<<"mem_total">>), m(<<"net_packets_sent">>)>>)
    <3> HIDE DEF m
    <3> QED BY <2>1, JobIs
  <2>2. CASE job = ValidatorChecks!Job("performance", "windows", "1000", "logs",
                       <<m(<<"procstat", "cpu_usage">>), m(<<"procstat", "memory_rss">>)>>)
    <3> HIDE DEF m
    <3> QED BY <2>2, JobIs
  <2>3. \/ job = ValidatorChecks!Job("performance", "linux", "1000", "emf",
                       <<m(<<"mem_total">>), m(<<"net_packets_sent">>)>>)
        \/ job = ValidatorChecks!Job("performance", "windows", "1000", "logs",
                       <<m(<<"procstat", "cpu_usage">>), m(<<"procstat", "memory_rss">>)>>)
    BY <1>1 DEF ValidatorChecks!PerformanceJobs
  <2> QED BY <2>1, <2>2, <2>3
<1> QED BY <1>3, <1>4, <1>5

Points == Values \cup {-2}

\* What is packed, of a job and its answers.
LabelOf(j, name) == IF j.os = "windows" THEN name ELSE <<"InstanceId">> \o name
WordOf(j, name) == LabelOf(j, name)[Len(LabelOf(j, name))]
ConvertedOf(j, s, i) ==
    [k \in DOMAIN s[i].values |->
        IF WordOf(j, j.items[i].name) \in ValidatorChecks!InBytes
        THEN s[i].values[k] \div Mega ELSE s[i].values[k]]
PackedOf(j, s, r) ==
    /\ Len(s) = Len(j.items)
    /\ \A i \in DOMAIN s :
          ValidatorChecks!NoneNegative(ConvertedOf(j, s, i)) /\ Len(s[i].values) # 1
    /\ r = [n \in {WordOf(j, j.items[i].name) : i \in DOMAIN s} |->
              ValidatorChecks!Stats(ConvertedOf(j, s,
                  ValidatorChecks!Max({i \in DOMAIN s : WordOf(j, j.items[i].name) = n})))]

\* The same, of the state, in the words of the code.
PackedAs(r) ==
    /\ Len(saw) = Len(job.items)
    /\ \A i \in DOMAIN saw :
          ValidatorChecks!NoneNegative(ValidatorChecks!Converted(i)) /\ Len(saw[i].values) # 1
    /\ r = [n \in {ValidatorChecks!LastWord(job.items[i].name) : i \in DOMAIN saw} |->
                    ValidatorChecks!Stats(ValidatorChecks!Converted(
                        ValidatorChecks!Max({i \in DOMAIN saw :
                            ValidatorChecks!LastWord(job.items[i].name) = n})))]

\* The one is the other.
LEMMA PackedIs == ASSUME NEW r PROVE PackedOf(job, saw, r) <=> PackedAs(r)
BY ZenonT(40) DEF PackedOf, PackedAs, ConvertedOf, WordOf, LabelOf, ValidatorChecks!LastWord,
       ValidatorChecks!Label, ValidatorChecks!Converted

Packed == PackedOf(job, saw, results)

\* The answers so far, the statistics, and what a pass takes.
PerformanceInv ==
    job.type = "performance" =>
        /\ \A i \in DOMAIN saw : saw[i].values \in Seq(Points)
        /\ verdict \in {"checking", "passed", "failed", "panic"}
        /\ results # <<>> => Packed
        /\ verdict = "passed" => recorded /\ results # <<>>

AnswersGiven == [err : BOOLEAN, values : Seq(Points), countErr : BOOLEAN, counts : Seq(Nat),
                 events : Seq(ValidatorChecks!Hit(1) \cup ValidatorChecks!Hit(2))]

\* The job is one of the jobs, and its answers are answers.
ChecksTypeOK ==
    /\ job \in ValidatorChecks!Jobs
    /\ saw \in Seq(AnswersGiven) /\ Len(saw) <= Len(job.items)

\* The values of a metric whose statistics were taken, and their units.
LEMMA ConvertedIs ==
    ASSUME ValidatorChecks!ChecksAssumption, NEW i, saw[i].values \in Seq(Points),
           ValidatorChecks!NoneNegative(ValidatorChecks!Converted(i)), Len(saw[i].values) # 1,
           NEW unit,
           unit = IF ValidatorChecks!LastWord(job.items[i].name) \in ValidatorChecks!InBytes
                  THEN Mega ELSE 1
    PROVE  /\ unit \in Nat \ {0}
           /\ saw[i].values \in Seq(Nat) /\ ValidatorChecks!Converted(i) \in Seq(Nat)
           /\ Len(ValidatorChecks!Converted(i)) = Len(saw[i].values)
           /\ Len(saw[i].values) \in Nat /\ Len(saw[i].values) >= 2
           /\ \A k \in DOMAIN saw[i].values :
                 ValidatorChecks!Converted(i)[k] = saw[i].values[k] \div unit
<1> DEFINE data == saw[i].values
           n == Len(data)
           c == ValidatorChecks!Converted(i)
<1>1. /\ n \in Nat /\ DOMAIN data = 1 .. n /\ \A k \in 1 .. n : data[k] \in Points
      /\ Points \subseteq Int
  BY DEF Points, ValidatorChecks!ChecksAssumption
<1>2. unit \in Nat \ {0}
  BY DEF ValidatorChecks!ChecksAssumption
<1>3. \A v \in Int : v \div 1 = v
  OBVIOUS
<1>4. c = [k \in 1 .. n |-> data[k] \div unit]
  <2>1. c = [k \in DOMAIN data |->
                IF ValidatorChecks!LastWord(job.items[i].name) \in ValidatorChecks!InBytes
                THEN data[k] \div Mega ELSE data[k]]
    BY DEF ValidatorChecks!Converted
  <2>2. \A k \in 1 .. n : data[k] \in Int /\ data[k] \div 1 = data[k]
    BY <1>1, <1>3
  <2> HIDE DEF c, data, n
  <2>3. CASE ValidatorChecks!LastWord(job.items[i].name) \in ValidatorChecks!InBytes
    BY <1>1, <2>1, <2>3
  <2>4. CASE ValidatorChecks!LastWord(job.items[i].name) \notin ValidatorChecks!InBytes
    BY <1>1, <2>1, <2>2, <2>4
  <2> QED BY <2>3, <2>4
<1>5. DOMAIN c = 1 .. n /\ c # <<>> /\ \A k \in 1 .. n : c[k] >= 0 /\ c[k] = data[k] \div unit
  BY <1>4 DEF ValidatorChecks!NoneNegative
<1>6. \A k \in 1 .. n : data[k] \in Nat /\ c[k] \in Nat
  <2> TAKE k \in 1 .. n
  <2> HIDE DEF c, data, n
  <2>1. data[k] \in Int
    BY <1>1
  <2>2. data[k] \div unit \in Int /\ (data[k] < 0 => data[k] \div unit < 0)
    BY <1>2, <2>1, DivKeepsOrder
  <2>3. c[k] >= 0 /\ c[k] = data[k] \div unit
    BY <1>5
  <2> QED BY <2>1, <2>2, <2>3
<1>7. n # 0
  <2>1. n = 0 => c = <<>>
    <3> HIDE DEF c, data
    <3> QED BY <1>4
  <2> QED BY <1>5, <2>1
<1>8. data \in Seq(Nat) /\ c \in Seq(Nat) /\ Len(c) = n
  <2>1. c \in [1 .. n -> Nat]
    <3> HIDE DEF c, data, n
    <3> QED BY <1>4, <1>5, <1>6
  <2>2. \A s \in [1 .. n -> Nat] : s \in Seq(Nat) /\ Len(s) = n
    BY <1>1
  <2>3. data \in Seq(Nat)
    <3>1. data = [k \in 1 .. n |-> data[k]]
      BY <1>1
    <3>2. data \in [1 .. n -> Nat]
      <4> HIDE DEF data, n
      <4> QED BY <1>6, <3>1
    <3> QED BY <2>2, <3>2
  <2> QED BY <2>1, <2>2, <2>3
<1>10. n # 1
  OBVIOUS
<1> HIDE DEF c, data, n
<1>9. n >= 2
  BY <1>1, <1>7, <1>10
<1> QED BY <1>1, <1>2, <1>5, <1>8, <1>9 DEF c, data, n

\* The ends of a set of numbers.
LEMMA EndsOfSet ==
    ASSUME NEW S, S \subseteq Int, NEW m \in S
    PROVE  /\ (\A v \in S : m <= v) => ValidatorChecks!Min(S) = m
           /\ (\A v \in S : v <= m) => ValidatorChecks!Max(S) = m
<1>1. ASSUME \A v \in S : m <= v PROVE ValidatorChecks!Min(S) = m
  <2> DEFINE x == ValidatorChecks!Min(S)
  <2>1. x \in S /\ \A y \in S : x <= y
    BY <1>1 DEF ValidatorChecks!Min
  <2> HIDE DEF x
  <2>2. x <= m /\ m <= x /\ x \in Int /\ m \in Int
    BY <1>1, <2>1
  <2> QED BY <2>2 DEF x
<1>2. ASSUME \A v \in S : v <= m PROVE ValidatorChecks!Max(S) = m
  <2> DEFINE x == ValidatorChecks!Max(S)
  <2>1. x \in S /\ \A y \in S : x >= y
    BY <1>2 DEF ValidatorChecks!Max
  <2> HIDE DEF x
  <2>2. x <= m /\ m <= x /\ x \in Int /\ m \in Int
    BY <1>2, <2>1
  <2> QED BY <2>2 DEF x
<1> QED BY <1>1, <1>2

\* The statistics of values divided by their unit are those of the values, divided.
LEMMA StatsOf ==
    ASSUME NEW data \in Seq(Nat), NEW c \in Seq(Nat), Len(c) = Len(data), Len(data) >= 2,
           NEW unit \in Nat \ {0}, \A k \in DOMAIN data : c[k] = data[k] \div unit
    PROVE  LET values == ValidatorChecks!ToSet(data)
               stats == ValidatorChecks!Stats(c)
           IN  /\ values # {}
               /\ stats.min = ValidatorChecks!Min(values) \div unit
               /\ ValidatorChecks!Min(values) >= 0
               /\ stats.max = ValidatorChecks!Max(values) \div unit
               /\ stats.p99 \in stats.min .. stats.max
<1> DEFINE n == Len(data)
           k == (n * 99) \div 100
           low == ValidatorChecks!Ranked(c, 1)
           high == ValidatorChecks!Ranked(c, n)
           p99 == ValidatorChecks!Ranked(c, k)
           rawLow == ValidatorChecks!Ranked(data, 1)
           rawHigh == ValidatorChecks!Ranked(data, n)
<1>1. /\ n \in Nat /\ n >= 2 /\ DOMAIN data = 1 .. n /\ DOMAIN c = 1 .. n
      /\ \A i \in 1 .. n : data[i] \in Nat /\ c[i] \in Nat
  OBVIOUS
<1>2. data # <<>> /\ c # <<>>
  BY <1>1
<1>3. /\ rawLow \in ValuesOf(data) /\ \A v \in ValuesOf(data) : rawLow <= v
      /\ rawHigh \in ValuesOf(data) /\ \A v \in ValuesOf(data) : v <= rawHigh
  BY <1>2, RankedEnds
<1>4. /\ low \in ValuesOf(c) /\ \A v \in ValuesOf(c) : low <= v
      /\ high \in ValuesOf(c) /\ \A v \in ValuesOf(c) : v <= high
  BY <1>2, RankedEnds
<1>5. k \in 1 .. Len(c)
  <2>1. n * 99 >= 198 /\ n * 99 <= n * 100
    BY <1>1
  <2>2. k >= 1 /\ k <= n /\ k \in Int
    BY <1>1, <2>1
  <2> QED BY <1>1, <2>2
<1>6. p99 \in ValuesOf(c)
  <2> HIDE DEF k
  <2> QED BY <1>5, RankedIs
<1>7. /\ ValuesOf(data) \subseteq Nat /\ ValuesOf(c) \subseteq Nat
      /\ ValidatorChecks!ToSet(data) = ValuesOf(data)
  BY <1>1 DEF ValuesOf, ValidatorChecks!ToSet
<1>8. /\ ValidatorChecks!Stats(c).min = low /\ ValidatorChecks!Stats(c).max = high
      /\ ValidatorChecks!Stats(c).p99 = p99
  <2>1. Len(c) = n
    OBVIOUS
  <2> HIDE DEF n
  <2>2. ValidatorChecks!Stats(c) =
          [min |-> low, max |-> high, sum |-> ValidatorChecks!Total(c), n |-> n,
           p99 |-> p99, period |-> Period \div n]
    BY <2>1 DEF ValidatorChecks!Stats
  <2> HIDE DEF low, high, p99
  <2> QED BY <2>2
<1> HIDE DEF n, k, low, high, p99, rawLow, rawHigh
<1>9. /\ low \in Nat /\ high \in Nat /\ p99 \in Nat /\ rawLow \in Nat /\ rawHigh \in Nat
  BY <1>3, <1>4, <1>6, <1>7
<1>10. /\ ValidatorChecks!Min(ValuesOf(data)) = rawLow
       /\ ValidatorChecks!Max(ValuesOf(data)) = rawHigh
  <2>1. ValuesOf(data) \subseteq Int
    BY <1>7
  <2> QED BY <1>3, <2>1, EndsOfSet
<1>11. \A a, b \in Nat : a <= b => a \div unit <= b \div unit
  <2> SUFFICES ASSUME NEW a \in Nat, NEW b \in Nat, a <= b PROVE a \div unit <= b \div unit
    OBVIOUS
  <2>1. a \in Int /\ b \in Int
    OBVIOUS
  <2> QED BY <2>1, DivKeepsOrder
<1>12. low = rawLow \div unit
  <2>1. PICK i \in 1 .. n : c[i] = low
    BY <1>1, <1>4 DEF ValuesOf
  <2>2. PICK j \in 1 .. n : data[j] = rawLow
    BY <1>1, <1>3 DEF ValuesOf
  <2>3. c[i] \in ValuesOf(c) /\ c[j] \in ValuesOf(c) /\ data[i] \in ValuesOf(data)
    BY <1>1 DEF ValuesOf
  <2>4. low = data[i] \div unit /\ rawLow \div unit = c[j]
    BY <1>1, <2>1, <2>2
  <2>5. low <= rawLow \div unit
    BY <1>4, <2>3, <2>4
  <2>6. rawLow \div unit <= low
    BY <1>1, <1>3, <1>9, <1>11, <2>3, <2>4
  <2>7. rawLow \div unit \in Int
    BY <1>9
  <2> QED BY <1>9, <2>5, <2>6, <2>7
<1>13. high = rawHigh \div unit
  <2>1. PICK i \in 1 .. n : c[i] = high
    BY <1>1, <1>4 DEF ValuesOf
  <2>2. PICK j \in 1 .. n : data[j] = rawHigh
    BY <1>1, <1>3 DEF ValuesOf
  <2>3. c[i] \in ValuesOf(c) /\ c[j] \in ValuesOf(c) /\ data[i] \in ValuesOf(data)
    BY <1>1 DEF ValuesOf
  <2>4. high = data[i] \div unit /\ rawHigh \div unit = c[j]
    BY <1>1, <2>1, <2>2
  <2>5. rawHigh \div unit <= high
    BY <1>4, <2>3, <2>4
  <2>6. high <= rawHigh \div unit
    BY <1>1, <1>3, <1>9, <1>11, <2>3, <2>4
  <2>7. rawHigh \div unit \in Int
    BY <1>9
  <2> QED BY <1>9, <2>5, <2>6, <2>7
<1>14. p99 \in low .. high
  BY <1>4, <1>6, <1>9
<1> QED BY <1>3, <1>7, <1>8, <1>9, <1>10, <1>12, <1>13, <1>14

\* The invariant gives a complete packet.
LEMMA PacketFromInv ==
    ASSUME ValidatorChecks!ChecksAssumption, ChecksTypeOK, PerformanceInv
    PROVE  ValidatorChecks!PacketComplete
<1> SUFFICES ASSUME job.type = "performance", verdict = "passed"
             PROVE  /\ recorded
                    /\ \A i \in DOMAIN saw :
                          LET values == ValidatorChecks!ToSet(saw[i].values)
                              name == LastOf(job.items[i].name)
                              unit == IF name \in ValidatorChecks!InBytes THEN Mega ELSE 1
                          IN  /\ name \in DOMAIN results /\ values # {}
                              /\ results[name].min = ValidatorChecks!Min(values) \div unit
                              /\ ValidatorChecks!Min(values) >= 0
                              /\ results[name].max = ValidatorChecks!Max(values) \div unit
                              /\ results[name].p99 \in results[name].min .. results[name].max
  BY DEF ValidatorChecks!PacketComplete, LastOf
<1>1. recorded /\ PackedAs(results) /\ \A i \in DOMAIN saw : saw[i].values \in Seq(Points)
  BY PackedIs DEF PerformanceInv, Packed
<1>2. /\ Len(job.items) = 2
      /\ \A i \in 1 .. 2 : ValidatorChecks!LastWord(job.items[i].name) = LastOf(job.items[i].name)
      /\ LastOf(job.items[1].name) # LastOf(job.items[2].name)
  BY PerformancePairs DEF ChecksTypeOK
<1>3. DOMAIN saw = 1 .. 2
  <2>1. saw \in Seq(AnswersGiven)
    BY DEF ChecksTypeOK
  <2>2. DOMAIN saw = 1 .. Len(saw)
    BY <2>1
  <2> QED BY <1>1, <1>2, <2>2 DEF PackedAs
<1> SUFFICES ASSUME NEW i \in 1 .. 2
             PROVE  LET values == ValidatorChecks!ToSet(saw[i].values)
                        name == LastOf(job.items[i].name)
                        unit == IF name \in ValidatorChecks!InBytes THEN Mega ELSE 1
                    IN  /\ name \in DOMAIN results /\ values # {}
                        /\ results[name].min = ValidatorChecks!Min(values) \div unit
                        /\ ValidatorChecks!Min(values) >= 0
                        /\ results[name].max = ValidatorChecks!Max(values) \div unit
                        /\ results[name].p99 \in results[name].min .. results[name].max
  BY <1>1, <1>3
<1> DEFINE name == LastOf(job.items[i].name)
           unit == IF name \in ValidatorChecks!InBytes THEN Mega ELSE 1
           data == saw[i].values
           c == ValidatorChecks!Converted(i)
<1>4. name = ValidatorChecks!LastWord(job.items[i].name)
  BY <1>2
<1>5. /\ unit \in Nat \ {0} /\ data \in Seq(Nat) /\ c \in Seq(Nat) /\ Len(c) = Len(data)
      /\ Len(data) >= 2 /\ \A k \in DOMAIN data : c[k] = data[k] \div unit
  <2>1. /\ saw[i].values \in Seq(Points) /\ Len(saw[i].values) # 1
        /\ ValidatorChecks!NoneNegative(ValidatorChecks!Converted(i))
    BY <1>1, <1>3 DEF PackedAs
  <2>2. unit = IF ValidatorChecks!LastWord(job.items[i].name) \in ValidatorChecks!InBytes
               THEN Mega ELSE 1
    BY <1>4
  <2> HIDE DEF unit
  <2> QED BY <2>1, <2>2, ConvertedIs
<1>6. {j \in DOMAIN saw : ValidatorChecks!LastWord(job.items[j].name) = name} = {i}
  <2>1. \A j \in 1 .. 2 : j = 1 \/ j = 2
    OBVIOUS
  <2>2. \A j \in 1 .. 2 : ValidatorChecks!LastWord(job.items[j].name) = name <=> j = i
    BY <1>2, <2>1
  <2> QED BY <1>3, <2>2
<1>7. ValidatorChecks!Max({i}) = i
  <2>1. {i} \subseteq Int /\ i \in {i} /\ \A v \in {i} : v <= i
    OBVIOUS
  <2> QED BY <2>1, EndsOfSet
<1>8. name \in DOMAIN results /\ results[name] = ValidatorChecks!Stats(c)
  <2> DEFINE names == {ValidatorChecks!LastWord(job.items[j].name) : j \in DOMAIN saw}
             stats(w) == ValidatorChecks!Stats(ValidatorChecks!Converted(
                            ValidatorChecks!Max({j \in DOMAIN saw :
                                ValidatorChecks!LastWord(job.items[j].name) = w})))
  <2>1. results = [w \in names |-> stats(w)]
    BY <1>1 DEF PackedAs
  <2>2. name \in names
    BY <1>3, <1>4
  <2>3. stats(name) = ValidatorChecks!Stats(c)
    BY <1>6, <1>7
  <2> HIDE DEF names, stats, name, c
  <2> QED BY <2>1, <2>2, <2>3
<1> DEFINE values == ValidatorChecks!ToSet(data)
           s == ValidatorChecks!Stats(c)
<1>9. /\ values # {} /\ s.min = ValidatorChecks!Min(values) \div unit
      /\ ValidatorChecks!Min(values) >= 0 /\ s.max = ValidatorChecks!Max(values) \div unit
      /\ s.p99 \in s.min .. s.max
  <2> HIDE DEF c, data, unit
  <2> QED BY <1>5, StatsOf
<1>10. results[name] = s
  BY <1>8
<1> HIDE DEF s, c
<1> QED BY <1>8, <1>9, <1>10

-------------------------------------------------------------------------------
(* What may be asked of an item, and what may be answered.                 *)

\* A function on the first numbers is a sequence.
LEMMA SeqOf ==
    ASSUME NEW S, NEW n \in Nat, NEW s, s \in UNION {[1 .. k -> S] : k \in 0 .. n}
    PROVE  s \in Seq(S) /\ Len(s) \in 0 .. n
<1>1. PICK k \in 0 .. n : s \in [1 .. k -> S]
  OBVIOUS
<1>2. k \in Nat
  OBVIOUS
<1>3. s \in Seq(S) /\ Len(s) = k
  BY <1>1, <1>2
<1> QED BY <1>3

\* The answers of CloudWatch are short sequences of points, samples and lines.
LEMMA Replies ==
    ASSUME ValidatorChecks!ChecksAssumption
    PROVE  /\ \A n \in Nat : \A s \in ValidatorChecks!Series(n) :
                 s \in Seq(Points) /\ Len(s) \in 0 .. n
           /\ \A s \in ValidatorChecks!Counts : s \in Seq(Nat) /\ Len(s) \in 0 .. 2
           /\ \A s \in UNION {[1 .. k -> ValidatorChecks!Hit(1) \cup ValidatorChecks!Hit(2)] :
                                 k \in 0 .. 2} :
                 /\ s \in Seq(ValidatorChecks!Hit(1) \cup ValidatorChecks!Hit(2))
                 /\ Len(s) \in 0 .. 2
           /\ <<>> \in Seq(Points) /\ <<>> \in Seq(Nat) /\ Len(<<>>) = 0
           /\ <<>> \in Seq(ValidatorChecks!Hit(1) \cup ValidatorChecks!Hit(2))
<1>1. ASSUME NEW n \in Nat, NEW s \in ValidatorChecks!Series(n)
      PROVE  s \in Seq(Points) /\ Len(s) \in 0 .. n
  <2>1. s \in UNION {[1 .. k -> Points] : k \in 0 .. n}
    BY DEF ValidatorChecks!Series, Points
  <2> QED BY <2>1, SeqOf
<1>2. ASSUME NEW s \in ValidatorChecks!Counts PROVE s \in Seq(Nat) /\ Len(s) \in 0 .. 2
  <2>1. SampleCount \in Nat /\ SampleCount - 1 \in Nat
    BY DEF ValidatorChecks!ChecksAssumption
  <2>2. \/ s = <<>>
        \/ \E n \in Nat : s = <<n>>
        \/ \E n \in Nat : s = <<1, n>>
    BY <2>1 DEF ValidatorChecks!Counts
  <2>3. \A n \in Nat : <<n>> \in Seq(Nat) /\ Len(<<n>>) = 1
    OBVIOUS
  <2>4. \A n \in Nat : <<1, n>> \in Seq(Nat) /\ Len(<<1, n>>) = 2
    OBVIOUS
  <2>5. <<>> \in Seq(Nat) /\ Len(<<>>) = 0
    OBVIOUS
  <2>6. CASE s = <<>>
    BY <2>5, <2>6
  <2>7. ASSUME NEW n \in Nat, s = <<n>> PROVE s \in Seq(Nat) /\ Len(s) \in 0 .. 2
    <3>1. s \in Seq(Nat) /\ Len(s) = 1
      BY <2>3, <2>7
    <3> QED BY <3>1
  <2>8. ASSUME NEW n \in Nat, s = <<1, n>> PROVE s \in Seq(Nat) /\ Len(s) \in 0 .. 2
    <3>1. s \in Seq(Nat) /\ Len(s) = 2
      BY <2>4, <2>8
    <3> QED BY <3>1
  <2> QED BY <2>2, <2>6, <2>7, <2>8
<1>3. ASSUME NEW s \in UNION {[1 .. k -> ValidatorChecks!Hit(1) \cup ValidatorChecks!Hit(2)] :
                                 k \in 0 .. 2}
      PROVE  /\ s \in Seq(ValidatorChecks!Hit(1) \cup ValidatorChecks!Hit(2))
             /\ Len(s) \in 0 .. 2
  <2>1. 2 \in Nat
    OBVIOUS
  <2> QED BY <2>1, SeqOf
<1>4. \A S : <<>> \in Seq(S) /\ Len(<<>>) = 0
  OBVIOUS
<1> QED BY <1>1, <1>2, <1>3, <1>4

\* An answer is made of its parts.
LEMMA AnswerGiven ==
    ASSUME NEW e \in BOOLEAN, NEW vs \in Seq(Points), NEW ce \in BOOLEAN, NEW cs \in Seq(Nat),
           NEW es \in Seq(ValidatorChecks!Hit(1) \cup ValidatorChecks!Hit(2))
    PROVE  [err |-> e, values |-> vs, countErr |-> ce, counts |-> cs, events |-> es]
              \in AnswersGiven
BY DEF AnswersGiven

Kinds == {"metric", "app signal", "traces", "log"}

\* The answers to an item are of the kind of the item.
LEMMA AnswersTyped ==
    ASSUME ValidatorChecks!ChecksAssumption, NEW item, item.kind \in Kinds,
           NEW a \in ValidatorChecks!Answers(item)
    PROVE  /\ a \in AnswersGiven
           /\ \/ a.err
              \/ /\ ~a.err
                 /\ item.kind = "log" => Len(a.events) \in 0 .. 2
                 /\ item.kind = "app signal" => Len(a.values) \in 0 .. 2
                 /\ item.kind = "metric" /\ job.type # "performance" =>
                       Len(a.values) \in 0 .. 1 /\ Len(a.counts) \in 0 .. 2
<1> DEFINE Lines == UNION {[1 .. k -> ValidatorChecks!Hit(1) \cup ValidatorChecks!Hit(2)] :
                              k \in 0 .. 2}
<1>1. CASE a = ValidatorChecks!CallFails
  BY <1>1, Replies DEF ValidatorChecks!CallFails, AnswersGiven
<1>2. ASSUME NEW vs, NEW cs, NEW es, a \in ValidatorChecks!Answer(vs, cs, es)
      PROVE  /\ a = [err |-> a.err, values |-> a.values, countErr |-> a.countErr,
                     counts |-> a.counts, events |-> a.events]
             /\ ~a.err /\ a.values \in vs /\ a.countErr \in BOOLEAN
             /\ a.counts \in cs \cup {<<>>} /\ a.events \in es
  BY <1>2 DEF ValidatorChecks!Answer
<1>3. ASSUME NEW vs, NEW cs, NEW es, a \in ValidatorChecks!Answer(vs, cs, es),
             \A v \in vs : v \in Seq(Points), \A v \in cs : v \in Seq(Nat),
             \A v \in es : v \in Seq(ValidatorChecks!Hit(1) \cup ValidatorChecks!Hit(2))
      PROVE  a \in AnswersGiven
  <2>1. a.values \in Seq(Points) /\ a.countErr \in BOOLEAN /\ a.counts \in Seq(Nat) /\ ~a.err
    BY <1>2, <1>3, Replies
  <2>2. a.events \in Seq(ValidatorChecks!Hit(1) \cup ValidatorChecks!Hit(2))
    BY <1>2, <1>3
  <2>3. a.err = FALSE
    BY <1>3 DEF ValidatorChecks!Answer
  <2>4. a = [err |-> a.err, values |-> a.values, countErr |-> a.countErr,
             counts |-> a.counts, events |-> a.events]
    BY <1>2, <1>3
  <2>5. a.err \in BOOLEAN
    BY <2>3
  <2>6. [err |-> a.err, values |-> a.values, countErr |-> a.countErr,
         counts |-> a.counts, events |-> a.events] \in AnswersGiven
    BY <2>1, <2>2, <2>5, AnswerGiven
  <2> QED BY <2>4, <2>6, Zenon
<1> DEFINE None == {<<>>}
<1>9. \A v \in None : /\ v \in Seq(Points) /\ v \in Seq(Nat) /\ Len(v) = 0
                      /\ v \in Seq(ValidatorChecks!Hit(1) \cup ValidatorChecks!Hit(2))
  BY Replies
<1>4. CASE item.kind = "traces" /\ a # ValidatorChecks!CallFails
  <2>1. a \in ValidatorChecks!Answer(None, None, None)
    BY <1>4 DEF ValidatorChecks!Answers
  <2> HIDE DEF None
  <2>3. a \in AnswersGiven
    BY <1>3, <1>9, <2>1
  <2>4. ~a.err
    BY <1>2, <2>1
  <2> QED BY <1>4, <2>3, <2>4
<1>5. CASE item.kind = "log" /\ a # ValidatorChecks!CallFails
  <2>1. a \in ValidatorChecks!Answer(None, None, Lines)
    BY <1>5 DEF ValidatorChecks!Answers
  <2>2. \A v \in Lines : /\ v \in Seq(ValidatorChecks!Hit(1) \cup ValidatorChecks!Hit(2))
                         /\ Len(v) \in 0 .. 2
    BY Replies
  <2> HIDE DEF Lines
  <2> HIDE DEF None
  <2>3. a \in AnswersGiven
    BY <1>3, <1>9, <2>1, <2>2
  <2>4. ~a.err /\ Len(a.events) \in 0 .. 2
    BY <1>2, <2>1, <2>2
  <2> QED BY <1>5, <2>3, <2>4
<1>6. CASE item.kind = "app signal" /\ a # ValidatorChecks!CallFails
  <2>1. a \in ValidatorChecks!Answer(ValidatorChecks!Series(2), None, None)
    BY <1>6 DEF ValidatorChecks!Answers
  <2>2. \A v \in ValidatorChecks!Series(2) : v \in Seq(Points) /\ Len(v) \in 0 .. 2
    BY Replies
  <2> HIDE DEF None
  <2>3. a \in AnswersGiven
    BY <1>3, <1>9, <2>1, <2>2
  <2>4. ~a.err /\ Len(a.values) \in 0 .. 2
    BY <1>2, <2>1, <2>2
  <2> QED BY <1>6, <2>3, <2>4
<1>7. CASE item.kind = "metric" /\ job.type = "performance" /\ a # ValidatorChecks!CallFails
  <2>1. a \in ValidatorChecks!Answer(ValidatorChecks!Series(MaxPoints), None, None)
    BY <1>7 DEF ValidatorChecks!Answers
  <2>2. \A v \in ValidatorChecks!Series(MaxPoints) : v \in Seq(Points)
    BY Replies DEF ValidatorChecks!ChecksAssumption
  <2> HIDE DEF None
  <2>3. a \in AnswersGiven
    BY <1>3, <1>9, <2>1, <2>2
  <2>4. ~a.err
    BY <1>2, <2>1
  <2> QED BY <1>7, <2>3, <2>4
<1>8. CASE item.kind = "metric" /\ job.type # "performance" /\ a # ValidatorChecks!CallFails
  <2>1. a \in ValidatorChecks!Answer(ValidatorChecks!Series(1), ValidatorChecks!Counts, None)
    BY <1>8 DEF ValidatorChecks!Answers
  <2>2. \A v \in ValidatorChecks!Series(1) : v \in Seq(Points) /\ Len(v) \in 0 .. 1
    BY Replies
  <2>3. \A v \in ValidatorChecks!Counts : v \in Seq(Nat) /\ Len(v) \in 0 .. 2
    BY Replies
  <2> HIDE DEF None
  <2>4. a \in AnswersGiven
    BY <1>3, <1>9, <2>1, <2>2, <2>3
  <2>5. ~a.err /\ Len(a.values) \in 0 .. 1 /\ a.counts \in ValidatorChecks!Counts \cup {<<>>}
    BY <1>2, <2>1, <2>2
  <2>6. Len(a.counts) \in 0 .. 2
    BY <2>3, <2>5, Replies
  <2> QED BY <1>8, <2>4, <2>5, <2>6
<1> QED BY <1>1, <1>4, <1>5, <1>6, <1>7, <1>8 DEF Kinds

Swap == <<"procstat_memory_swap">>

Bounded(os, receiver, name) ==
    /\ receiver \in ValidatorChecks!Receivers(os)
    /\ name \in DOMAIN ValidatorChecks!Bound(os, receiver)
    /\ ValidatorChecks!Bound(os, receiver)[name] = IF name = Swap THEN 0 ELSE 10

\* Each metric of a stress test has a bound in the table of its system and receiver.
LEMMA LinuxBounds ==
    ASSUME NEW receiver \in ValidatorChecks!LinuxReceivers, NEW name,
           \/ name \in ValidatorChecks!AgentMetrics
           \/ name \in ValidatorChecks!NetMetrics /\ receiver # "prometheus"
    PROVE  Bounded("linux", receiver, name)
<1> DEFINE D == ValidatorChecks!AgentMetrics \cup
                (IF receiver = "prometheus" THEN {} ELSE ValidatorChecks!NetMetrics)
<1>1. ValidatorChecks!Bound("linux", receiver) = [m \in D |-> IF m = Swap THEN 0 ELSE 10]
  BY DEF ValidatorChecks!Bound, ValidatorChecks!LinuxBound, Swap
<1>2. name \in D
  OBVIOUS
<1>3. receiver \in ValidatorChecks!Receivers("linux")
  BY DEF ValidatorChecks!Receivers
<1> HIDE DEF D
<1> QED BY <1>1, <1>2, <1>3 DEF Bounded

\* The Windows table bounds every metric of the Windows tests.
LEMMA WindowsBounds ==
    ASSUME NEW receiver \in ValidatorChecks!WindowsReceivers,
           NEW name \in ValidatorChecks!WindowsMetrics
    PROVE  Bounded("windows", receiver, name)
<1>1. name # Swap
  <2>1. \A v, w : <<v, w>> # Swap
    <3> TAKE v, w
    <3>1. Len(<<v, w>>) = 2 /\ Len(Swap) = 1
      BY DEF Swap
    <3> QED BY <3>1
  <2>2. <<"Bytes_Sent_Per_Sec">> # Swap /\ <<"Packets_Sent_Per_Sec">> # Swap
    <3>1. /\ <<"Bytes_Sent_Per_Sec">>[1] = "Bytes_Sent_Per_Sec"
          /\ <<"Packets_Sent_Per_Sec">>[1] = "Packets_Sent_Per_Sec"
          /\ Swap[1] = "procstat_memory_swap"
      BY DEF Swap
    <3> QED BY <3>1
  <2> QED BY <2>1, <2>2 DEF ValidatorChecks!WindowsMetrics
<1>2. ValidatorChecks!Bound("windows", receiver) = [m \in ValidatorChecks!WindowsMetrics |-> 10]
  BY DEF ValidatorChecks!Bound, ValidatorChecks!WindowsBound
<1>3. receiver \in ValidatorChecks!Receivers("windows")
  BY DEF ValidatorChecks!Receivers
<1> QED BY <1>1, <1>2, <1>3 DEF Bounded

FeatureItem(item) ==
    \/ \E v \in {0, 10} : item = ValidatorChecks!Metric(<<"cpu_time_active">>, v)
    \/ item = ValidatorChecks!AppSignal
    \/ item = ValidatorChecks!Traces
    \/ item \in ValidatorChecks!FeatureLogs

StressItem(item) ==
    \E name : /\ item = ValidatorChecks!Metric(name, 0)
              /\ Bounded(job.os, job.receiver, name)

\* The items of each kind of test.
LEMMA ItemsOfFeature ==
    ASSUME job \in ValidatorChecks!FeatureJobs
    PROVE  /\ Len(job.items) \in {2, 3}
           /\ \A i \in 1 .. Len(job.items) : FeatureItem(job.items[i])
<1>1. PICK items \in ValidatorChecks!FeatureTests :
         job = ValidatorChecks!Job("feature", "windows", "2", "system", items)
  BY DEF ValidatorChecks!FeatureJobs
<1>2. job.items = items
  BY <1>1, JobIs
<1>3. \A x \in ValidatorChecks!FeatureItems : FeatureItem(x)
  BY DEF ValidatorChecks!FeatureItems, FeatureItem
<1>4. CASE items \in ValidatorChecks!FeatureItems \X {ValidatorChecks!Traces}
  <2>1. /\ Len(items) = 2 /\ items[1] \in ValidatorChecks!FeatureItems
        /\ items[2] = ValidatorChecks!Traces
    BY <1>4
  <2>2. \A i \in 1 .. 2 : i = 1 \/ i = 2
    OBVIOUS
  <2> QED BY <1>2, <1>3, <2>1, <2>2 DEF FeatureItem
<1>5. CASE items \in ValidatorChecks!FeatureItems \X {ValidatorChecks!Traces} \X
                     ValidatorChecks!FeatureLogs
  <2>1. /\ Len(items) = 3 /\ items[1] \in ValidatorChecks!FeatureItems
        /\ items[2] = ValidatorChecks!Traces /\ items[3] \in ValidatorChecks!FeatureLogs
    BY <1>5
  <2>2. \A i \in 1 .. 3 : i = 1 \/ i = 2 \/ i = 3
    OBVIOUS
  <2> QED BY <1>2, <1>3, <2>1, <2>2 DEF FeatureItem
<1> QED BY <1>4, <1>5 DEF ValidatorChecks!FeatureTests

\* The items of a stress test have bounds.
LEMMA ItemsOfStress ==
    ASSUME job \in ValidatorChecks!StressJobs
    PROVE  /\ Len(job.items) \in {1, 2}
           /\ \A i \in 1 .. Len(job.items) : StressItem(job.items[i])
<1>1. ASSUME NEW t \in ValidatorChecks!StressTests, NEW r, job = OneMetric(t, r)
      PROVE  /\ Len(job.items) = 1
             /\ \A i \in 1 .. Len(job.items) : StressItem(job.items[i])
  <2>1. /\ job.os = t[1] /\ job.receiver = t[2]
        /\ job.items = <<ValidatorChecks!Metric(t[3], 0)>>
    BY <1>1, JobIs DEF OneMetric
  <2>2. Bounded(t[1], t[2], t[3])
    <3>1. CASE t \in {"linux"} \X ValidatorChecks!LinuxReceivers \X ValidatorChecks!AgentMetrics
      <4>1. /\ t[1] = "linux" /\ t[2] \in ValidatorChecks!LinuxReceivers
            /\ t[3] \in ValidatorChecks!AgentMetrics
        BY <3>1
      <4> QED BY <4>1, LinuxBounds
    <3>2. CASE t \in {"linux"} \X (ValidatorChecks!LinuxReceivers \ {"prometheus"})
                     \X ValidatorChecks!NetMetrics
      <4>1. /\ t[1] = "linux" /\ t[2] \in ValidatorChecks!LinuxReceivers /\ t[2] # "prometheus"
            /\ t[3] \in ValidatorChecks!NetMetrics
        BY <3>2
      <4> QED BY <4>1, LinuxBounds
    <3>3. CASE t \in {"windows"} \X {"logs", "system"} \X ValidatorChecks!WindowsMetrics
      <4>1. /\ t[1] = "windows" /\ t[2] \in {"logs", "system"}
            /\ t[3] \in ValidatorChecks!WindowsMetrics
        BY <3>3
      <4>2. t[2] \in ValidatorChecks!WindowsReceivers
        BY <4>1 DEF ValidatorChecks!WindowsReceivers
      <4> QED BY <4>1, <4>2, WindowsBounds
    <3> QED BY <3>1, <3>2, <3>3 DEF ValidatorChecks!StressTests
  <2>3. Len(job.items) = 1 /\ job.items[1] = ValidatorChecks!Metric(t[3], 0)
    BY <2>1
  <2>4. \A i \in 1 .. 1 : i = 1
    OBVIOUS
  <2> QED BY <2>1, <2>2, <2>3, <2>4 DEF StressItem
<1>2. ASSUME NEW p \in ValidatorChecks!TwoMetrics, job = PairOf(p)
      PROVE  /\ Len(job.items) = 2
             /\ \A i \in 1 .. Len(job.items) : StressItem(job.items[i])
  <2>1. /\ job.os = "linux" /\ job.receiver = "emf"
        /\ job.items = <<ValidatorChecks!Metric(p[1], 0), ValidatorChecks!Metric(p[2], 0)>>
    BY <1>2, JobIs DEF PairOf
  <2>2. \A w \in {Swap, <<"net_bytes_sent">>} : Bounded("linux", "emf", w)
    <3>1. /\ "emf" \in ValidatorChecks!LinuxReceivers /\ Swap \in ValidatorChecks!AgentMetrics
          /\ <<"net_bytes_sent">> \in ValidatorChecks!NetMetrics
      BY DEF ValidatorChecks!LinuxReceivers, ValidatorChecks!AgentMetrics,
             ValidatorChecks!NetMetrics, Swap
    <3>2. Bounded("linux", "emf", Swap)
      BY <3>1, LinuxBounds
    <3>3. Bounded("linux", "emf", <<"net_bytes_sent">>)
      BY <3>1, LinuxBounds
    <3> QED BY <3>2, <3>3
  <2>3. p[1] \in {Swap, <<"net_bytes_sent">>} /\ p[2] \in {Swap, <<"net_bytes_sent">>}
    BY DEF ValidatorChecks!TwoMetrics, Swap
  <2>4. /\ Len(job.items) = 2 /\ job.items[1] = ValidatorChecks!Metric(p[1], 0)
        /\ job.items[2] = ValidatorChecks!Metric(p[2], 0)
    BY <2>1
  <2>5. \A i \in 1 .. 2 : i = 1 \/ i = 2
    OBVIOUS
  <2>6. Bounded("linux", "emf", p[1]) /\ Bounded("linux", "emf", p[2])
    BY <2>2, <2>3
  <2> QED BY <2>1, <2>4, <2>5, <2>6 DEF StressItem
<1> QED BY <1>1, <1>2, StressJobIs

\* The items of every job.
LEMMA JobItems ==
    ASSUME job \in ValidatorChecks!Jobs
    PROVE  /\ job.type \in {"feature", "stress", "performance"} /\ Len(job.items) \in Nat
           /\ job.type = "feature" => job \in ValidatorChecks!FeatureJobs
           /\ job.type = "stress" => job \in ValidatorChecks!StressJobs
           /\ \A i \in 1 .. Len(job.items) :
                 /\ job.items[i].kind \in Kinds
                 /\ job.type = "performance" => job.items[i].kind = "metric"
<1>1. /\ job.type \in {"feature", "stress", "performance"}
      /\ job.type = "feature" => job \in ValidatorChecks!FeatureJobs
      /\ job.type = "stress" => job \in ValidatorChecks!StressJobs
  BY JobTypes DEF ValidatorChecks!Jobs
<1>2. ASSUME NEW item, FeatureItem(item) PROVE item.kind \in Kinds
  <2>1. \A v : ValidatorChecks!Metric(<<"cpu_time_active">>, v).kind = "metric"
    BY DEF ValidatorChecks!Metric
  <2>2. ValidatorChecks!AppSignal.kind = "app signal" /\ ValidatorChecks!Traces.kind = "traces"
    BY DEF ValidatorChecks!AppSignal, ValidatorChecks!Traces
  <2>3. \A l \in ValidatorChecks!FeatureLogs : l.kind = "log"
    BY DEF ValidatorChecks!FeatureLogs
  <2>4. item.kind \in {"metric", "app signal", "traces", "log"}
    BY <1>2, <2>1, <2>2, <2>3 DEF FeatureItem
  <2> QED BY <2>4 DEF Kinds
<1>3. ASSUME NEW item, StressItem(item) PROVE item.kind \in Kinds
  BY <1>3 DEF StressItem, Kinds, ValidatorChecks!Metric
<1>4. CASE job.type = "feature"
  <2>1. /\ Len(job.items) \in {2, 3}
        /\ \A i \in 1 .. Len(job.items) : FeatureItem(job.items[i])
    BY <1>1, <1>4, ItemsOfFeature
  <2> QED BY <1>1, <1>2, <1>4, <2>1
<1>5. CASE job.type = "stress"
  <2>1. /\ Len(job.items) \in {1, 2}
        /\ \A i \in 1 .. Len(job.items) : StressItem(job.items[i])
    BY <1>1, <1>5, ItemsOfStress
  <2> QED BY <1>1, <1>3, <1>5, <2>1
<1>6. CASE job.type = "performance"
  <2>1. Len(job.items) = 2 /\ \A i \in 1 .. 2 : job.items[i].kind = "metric"
    BY <1>6, PerformancePairs
  <2>2. "metric" \in Kinds /\ 2 \in Nat
    BY DEF Kinds
  <2> QED BY <1>1, <1>6, <2>1, <2>2
<1> QED BY <1>1, <1>4, <1>5, <1>6

-------------------------------------------------------------------------------
(* What the checks of an item say.                                         *)

\* The total adds up one number after the other.
LEMMA TotalWalks ==
    ASSUME NEW seq \in Seq(Nat)
    PROVE  \E w \in [0 .. Len(seq) -> Nat] :
              /\ w[0] = 0
              /\ \A i \in 1 .. Len(seq) : w[i] = w[i - 1] + seq[i]
              /\ ValidatorChecks!Total(seq) = w[Len(seq)]
<1> DEFINE n == Len(seq)
           step == [i \in 1 .. n |-> [acc \in Nat |-> acc + seq[i]]]
           Rec(f) == [s \in SUBSET (DOMAIN seq) |->
                        IF s = {} THEN 0
                        ELSE f[s \ {LogP!Max(s)}] + seq[LogP!Max(s)]]
           iter == CHOOSE f : f = Rec(f)
<1>1. n \in Nat /\ DOMAIN seq = 1 .. n /\ \A i \in 1 .. n : seq[i] \in Nat
  OBVIOUS
<1>3. ASSUME NEW acc \in Nat, NEW i \in 1 .. n PROVE acc + seq[i] \in Nat
  BY <1>1
<1>4. step \in [1 .. n -> [Nat -> Nat]] /\ 0 \in Nat
  BY <1>3
<1>5. PICK f \in [SUBSET (1 .. n) -> Nat] : LogP!FoldOf(n, 0, step, f)
  <2> HIDE DEF n, step
  <2> QED BY <1>1, <1>4, LogP!FoldExists
<1>6. \A s \in SUBSET (1 .. n) : s # {} => LogP!Max(s) \in s
  <2> TAKE s \in SUBSET (1 .. n)
  <2>1. s \in SUBSET (0 .. n)
    BY <1>1
  <2> QED BY <1>1, <2>1, LogP!MaxOfBounded
<1>7. f = Rec(f)
  <2>1. ASSUME NEW s \in SUBSET (1 .. n)
        PROVE  f[s] = IF s = {} THEN 0 ELSE f[s \ {LogP!Max(s)}] + seq[LogP!Max(s)]
    <3>1. CASE s = {}
      BY <1>5, <3>1 DEF LogP!FoldOf
    <3>2. CASE s # {}
      <4>1. LogP!Max(s) \in 1 .. n /\ f[s \ {LogP!Max(s)}] \in Nat
        BY <1>5, <1>6, <3>2
      <4>2. step[LogP!Max(s)][f[s \ {LogP!Max(s)}]] = f[s \ {LogP!Max(s)}] + seq[LogP!Max(s)]
        BY <4>1
      <4> HIDE DEF step
      <4> QED BY <1>5, <3>2, <4>2 DEF LogP!FoldOf
    <3> QED BY <3>1, <3>2
  <2>2. f = [s \in SUBSET (1 .. n) |-> f[s]]
    BY <1>5
  <2> QED BY <1>1, <2>1, <2>2
<1>8. iter = Rec(iter)
  <2> HIDE DEF Rec
  <2> QED BY <1>7
<1>9. ValidatorChecks!Total(seq) = iter[1 .. n]
  BY <1>1 DEF ValidatorChecks!Total, ValidatorChecks!FoldLeft, ValidatorChecks!MapThenFoldSet,
     ValidatorChecks!Max, LogP!Max
<1> HIDE DEF iter
<1>10. \A s \in SUBSET (1 .. n) :
          iter[s] = IF s = {} THEN 0 ELSE iter[s \ {LogP!Max(s)}] + seq[LogP!Max(s)]
  <2> HIDE DEF n
  <2> QED BY <1>1, <1>8
<1> DEFINE w == [i \in 0 .. n |-> iter[1 .. i]]
<1>11. w[0] = 0
  <2>1. 1 .. 0 = {} /\ {} \in SUBSET (1 .. n)
    OBVIOUS
  <2>2. w[0] = iter[1 .. 0]
    BY <1>1
  <2> QED BY <1>10, <2>1, <2>2
<1>12. ASSUME NEW i \in 1 .. n PROVE w[i] = w[i - 1] + seq[i]
  <2>1. i \in 0 .. n /\ i - 1 \in 0 .. n /\ i \in Nat
    BY <1>1
  <2>2. /\ 1 .. i \in SUBSET (1 .. n) /\ 1 .. i # {}
        /\ LogP!Max(1 .. i) = i /\ (1 .. i) \ {i} = 1 .. (i - 1)
    <3> HIDE DEF n
    <3> QED BY <1>1, LogP!PartsOfWalk
  <2>6. w[i] = iter[1 .. i] /\ w[i - 1] = iter[1 .. (i - 1)]
    BY <2>1
  <2> HIDE DEF w
  <2> QED BY <1>10, <2>2, <2>6
<1>13. w[n] = iter[1 .. n]
  BY <1>1
<1>14. w \in [0 .. n -> Nat]
  <2> DEFINE T == {i \in 0 .. n : w[i] \in Nat}
  <2>1. 0 \in T
    <3>1. 0 \in 0 .. n
      BY <1>1
    <3> HIDE DEF w, n
    <3> QED BY <1>11, <3>1
  <2>2. \A i \in 1 .. n : i - 1 \in T => i \in T
    <3> TAKE i \in 1 .. n
    <3>1. i \in 0 .. n
      BY <1>1
    <3> HIDE DEF w, n
    <3> QED BY <1>3, <1>12, <3>1
  <2>3. \A i \in 0 .. n : i \in T
    <3> HIDE DEF T, n
    <3> QED BY <1>1, <2>1, <2>2, LogP!UpToEnd
  <2>4. \A i \in 0 .. n : w[i] \in Nat
    <3> HIDE DEF w
    <3> QED BY <2>3
  <2> QED BY <2>4
<1> HIDE DEF w
<1> QED BY <1>9, <1>11, <1>12, <1>13, <1>14

\* Totals of no, one and two numbers.
LEMMA TotalOfFew ==
    ASSUME NEW seq \in Seq(Nat), Len(seq) \in 0 .. 2
    PROVE  /\ ValidatorChecks!Total(seq) \in Nat
           /\ Len(seq) = 0 => ValidatorChecks!Total(seq) = 0
           /\ Len(seq) = 1 => ValidatorChecks!Total(seq) = seq[1]
           /\ Len(seq) = 2 => ValidatorChecks!Total(seq) = seq[1] + seq[2]
<1>1. PICK w \in [0 .. Len(seq) -> Nat] :
              /\ w[0] = 0
              /\ \A i \in 1 .. Len(seq) : w[i] = w[i - 1] + seq[i]
              /\ ValidatorChecks!Total(seq) = w[Len(seq)]
  BY TotalWalks
<1>2. CASE Len(seq) = 0
  BY <1>1, <1>2
<1>3. CASE Len(seq) = 1
  <2>1. seq[1] \in Nat /\ w[1] = w[0] + seq[1]
    BY <1>1, <1>3
  <2> QED BY <1>1, <1>3, <2>1
<1>4. CASE Len(seq) = 2
  <2>1. seq[1] \in Nat /\ w[1] = w[0] + seq[1] /\ seq[2] \in Nat /\ w[2] = w[1] + seq[2]
    BY <1>1, <1>4
  <2> QED BY <1>1, <1>4, <2>1
<1> QED BY <1>2, <1>3, <1>4

With(a, words) == {e \in ValidatorChecks!ToSet(a.events) : {"line"} \cup words \subseteq e.msg}
WithBoth(item, a) ==
    [w \in 1 .. 2 |-> IF w = 1 THEN Cardinality(With(a, {"level"}))
                      ELSE IF "id" \in item.by THEN Cardinality(With(a, {"id"})) ELSE 0]

\* What the checks accept.
GoodAnswer(item, a) ==
    /\ ~a.err
    /\ item.kind = "app signal" =>
          a.values # <<>> /\ ValidatorChecks!Min(ValidatorChecks!ToSet(a.values)) >= 0
    /\ item.kind = "metric" =>
          /\ ~a.countErr
          /\ SampleCount - ValidatorChecks!Total(a.counts) \in 0 .. ValidatorChecks!Slack
          /\ \E v \in ValidatorChecks!ToSet(a.values) :
                ValidatorChecks!Near(item.name, item.value, v, 0)
    /\ item.kind = "log" =>
          /\ a.events # <<>>
          /\ Cardinality(ValidatorChecks!ToSet(a.events)) = Len(a.events)
          /\ IF item.source = "file" THEN Cardinality(With(a, {})) >= item.lines
             ELSE ValidatorChecks!Total(WithBoth(item, a)) >= item.lines

\* What an item is to meet, of the item and its answer.
MetBy(item, a, low, enough) ==
    /\ ~a.err
    /\ item.kind = "app signal" =>
          a.values # <<>> /\ ValidatorChecks!Min(ValidatorChecks!ToSet(a.values)) >= 0
    /\ item.kind = "metric" =>
          /\ ~a.countErr
          /\ SampleCount - ValidatorChecks!Total(a.counts) \in 0 .. ValidatorChecks!Slack
          /\ \E v \in ValidatorChecks!ToSet(a.values) :
                ValidatorChecks!Near(item.name, item.value, v, low)
    /\ item.kind = "log" =>
          a.events # <<>> /\ Cardinality(ValidatorChecks!ToSet(a.events)) = Len(a.events) /\ enough

All(item, a) == Cardinality(ValidatorChecks!With(item, a)) >= item.lines
Half(item, a) == Cardinality(item.by) * Cardinality(ValidatorChecks!WithAny(item, a)) >= item.lines

\* Good and LetPass, of an item and its answer.
LEMMA GoodIs ==
    \A i :
        /\ ValidatorChecks!Good(i) <=>
              /\ ValidatorChecks!RateKnown
              /\ MetBy(job.items[i], saw[i], 7, All(job.items[i], saw[i]))
        /\ ValidatorChecks!LetPass(i) <=>
              /\ ValidatorChecks!RateKnown
              /\ MetBy(job.items[i], saw[i], 0, Half(job.items[i], saw[i]))
              /\ job.type = "stress" \/ (job.items[i].kind = "log"
                                          /\ job.items[i].source = "WindowsEvents")
BY DEF ValidatorChecks!Good, ValidatorChecks!LetPass, ValidatorChecks!Meets, MetBy, All, Half,
       ValidatorChecks!Cardinality, Cardinality

\* The parts of an answer.
LEMMA AnswerParts ==
    ASSUME NEW a \in AnswersGiven, ValidatorChecks!ChecksAssumption
    PROVE  /\ a.err \in BOOLEAN /\ a.values \in Seq(Points) /\ Points \subseteq Int
           /\ a.countErr \in BOOLEAN /\ a.counts \in Seq(Nat)
           /\ a.events \in Seq(ValidatorChecks!Hit(1) \cup ValidatorChecks!Hit(2))
<1>1. /\ a.err \in BOOLEAN /\ a.values \in Seq(Points)
      /\ a.countErr \in BOOLEAN /\ a.counts \in Seq(Nat)
      /\ a.events \in Seq(ValidatorChecks!Hit(1) \cup ValidatorChecks!Hit(2))
  BY DEF AnswersGiven
<1>2. Points \subseteq Int
  BY DEF Points, ValidatorChecks!ChecksAssumption
<1> QED BY <1>1, <1>2

\* Of the values there is a least one, and none is negative if that one is not.
LEMMA AppSignalRight ==
    ASSUME NEW a \in AnswersGiven, Len(a.values) \in 0 .. 2, ValidatorChecks!ChecksAssumption
    PROVE  ValidatorChecks!NoneNegative(a.values) <=>
              a.values # <<>> /\ ValidatorChecks!Min(ValidatorChecks!ToSet(a.values)) >= 0
<1> DEFINE vs == a.values
           S == ValidatorChecks!ToSet(vs)
<1>1. /\ vs \in Seq(Points) /\ Points \subseteq Int
      /\ \A i \in DOMAIN vs : vs[i] \in Int
  <2>1. vs \in Seq(Points) /\ Points \subseteq Int
    BY AnswerParts
  <2> HIDE DEF vs
  <2>2. \A i \in DOMAIN vs : vs[i] \in Points
    BY <2>1
  <2> QED BY <2>1, <2>2
<1>2. S \subseteq Int /\ S = {vs[i] : i \in DOMAIN vs}
  BY <1>1 DEF ValidatorChecks!ToSet
<1>3. CASE Len(vs) = 0
  <2>1. vs = <<>>
    BY <1>1, <1>3
  <2> QED BY <2>1 DEF ValidatorChecks!NoneNegative
<1>4. ASSUME Len(vs) # 0 PROVE vs # <<>> /\ \E m \in S : \A v \in S : m <= v
  <2>1. CASE Len(vs) = 1
    <3>1. DOMAIN vs = {1}
      BY <1>1, <2>1
    <3>2. S = {vs[1]} /\ vs[1] \in Int
      BY <1>1, <1>2, <3>1
    <3> HIDE DEF S
    <3> QED BY <2>1, <3>2
  <2>2. CASE Len(vs) = 2
    <3>1. DOMAIN vs = {1, 2}
      BY <1>1, <2>2
    <3>2. S = {vs[1], vs[2]} /\ vs[1] \in Int /\ vs[2] \in Int
      BY <1>1, <1>2, <3>1
    <3>3. vs # <<>>
      BY <2>2
    <3> HIDE DEF S, vs
    <3>4. CASE vs[1] <= vs[2]
      BY <3>2, <3>3, <3>4
    <3>5. CASE vs[2] <= vs[1]
      BY <3>2, <3>3, <3>5
    <3> QED BY <3>2, <3>4, <3>5
  <2>3. Len(vs) \in {1, 2}
    BY <1>4
  <2> QED BY <2>1, <2>2, <2>3
<1>5. CASE Len(vs) # 0
  <2>1. PICK m \in S : \A v \in S : m <= v
    BY <1>4, <1>5
  <2> HIDE DEF S, vs
  <2>2. ValidatorChecks!Min(S) = m /\ m \in Int
    BY <1>2, <2>1, EndsOfSet
  <2>3. ValidatorChecks!NoneNegative(vs) <=> \A v \in S : v >= 0
    BY <1>2, <1>4, <1>5 DEF ValidatorChecks!NoneNegative
  <2>4. (\A v \in S : v >= 0) <=> m >= 0
    BY <1>2, <2>1, <2>2
  <2> QED BY <1>4, <1>5, <2>2, <2>3, <2>4 DEF S, vs
<1> QED BY <1>3, <1>5

One(b) == IF b THEN 1 ELSE 0
HasLine(e) == "line" \in e.msg
LevelIn(e) == One(HasLine(e) /\ "level" \in e.msg)
IdIn(e) == One(HasLine(e) /\ "id" \in e.msg)

\* The size of a part of two different things.
LEMMA PartOfTwo ==
    ASSUME NEW x, NEW y, x # y, NEW s, s \subseteq {x, y}
    PROVE  Cardinality(s) = One(x \in s) + One(y \in s)
<1>1. s = {} \/ s = {x} \/ s = {y} \/ s = {x, y}
  OBVIOUS
<1>2. /\ IsFiniteSet({}) /\ Cardinality({}) = 0
      /\ IsFiniteSet({x}) /\ Cardinality({x}) = 1
      /\ IsFiniteSet({y}) /\ Cardinality({y}) = 1
  BY FS_EmptySet, FS_Singleton
<1>3. Cardinality({x, y}) = 2
  <2>1. {x, y} = {x} \cup {y} /\ y \notin {x}
    OBVIOUS
  <2>2. Cardinality({x} \cup {y}) = Cardinality({x}) + 1
    BY <1>2, <2>1, FS_AddElement
  <2> QED BY <1>2, <2>1, <2>2
<1> QED BY <1>1, <1>2, <1>3 DEF One

\* A part of one thing is all of it or nothing.
LEMMA PartOfOne ==
    ASSUME NEW x, NEW s, s \subseteq {x}
    PROVE  Cardinality(s) = One(x \in s)
<1>1. s = {} \/ s = {x}
  OBVIOUS
<1>2. Cardinality({}) = 0 /\ Cardinality({x}) = 1
  BY FS_EmptySet, FS_Singleton
<1> QED BY <1>1, <1>2 DEF One

\* A part of one thing is all of it or nothing.
Counted1(item, e) ==
    IF ~HasLine(e) THEN 0 ELSE IF item.source = "file" THEN 1 ELSE Cardinality(item.by \cap e.msg)

\* What an event counts by its level and its id.
LEMMA EventCounts ==
    ASSUME NEW item \in ValidatorChecks!FeatureLogs, NEW e
    PROVE  /\ Counted1(item, e) \in Nat
           /\ item.source = "file" => Counted1(item, e) = One(HasLine(e))
           /\ item.source # "file" =>
                 Counted1(item, e) = LevelIn(e) + IF "id" \in item.by THEN IdIn(e) ELSE 0
<1>1. CASE item.source = "file"
  BY <1>1 DEF Counted1, One
<1>2. ASSUME item.source # "file" PROVE item.by = {"level"} \/ item.by = {"level", "id"}
  BY <1>2 DEF ValidatorChecks!FeatureLogs
<1>3. CASE item.source # "file" /\ item.by = {"level"}
  <2>1. Cardinality(item.by \cap e.msg) = One("level" \in item.by \cap e.msg)
    <3>1. item.by \cap e.msg \subseteq {"level"}
      BY <1>3
    <3> QED BY <3>1, PartOfOne
  <2>2. "id" \notin item.by /\ ("level" \in item.by \cap e.msg <=> "level" \in e.msg)
    BY <1>3
  <2> QED BY <1>3, <2>1, <2>2 DEF Counted1, One, LevelIn
<1>4. CASE item.source # "file" /\ item.by = {"level", "id"}
  <2>1. Cardinality(item.by \cap e.msg) =
           One("level" \in item.by \cap e.msg) + One("id" \in item.by \cap e.msg)
    <3> DEFINE part == item.by \cap e.msg
    <3>1. part \subseteq {"level", "id"} /\ "level" # "id"
      BY <1>4
    <3> HIDE DEF part
    <3>2. \A x, y : x # y /\ part \subseteq {x, y} =>
             Cardinality(part) = One(x \in part) + One(y \in part)
      BY PartOfTwo
    <3>3. Cardinality(part) = One("level" \in part) + One("id" \in part)
      BY <3>1, <3>2
    <3> QED BY <3>3 DEF part
  <2>2. /\ "id" \in item.by
        /\ "level" \in item.by \cap e.msg <=> "level" \in e.msg
        /\ "id" \in item.by \cap e.msg <=> "id" \in e.msg
    BY <1>4
  <2> QED BY <1>4, <2>1, <2>2 DEF Counted1, One, LevelIn, IdIn
<1> QED BY <1>1, <1>2, <1>3, <1>4

\* All that the events count, and the events with the words.
LEMMA CountsRight ==
    ASSUME NEW item \in ValidatorChecks!FeatureLogs, NEW a \in AnswersGiven,
           ValidatorChecks!ChecksAssumption, Len(a.events) \in 1 .. 2,
           \A i, j \in DOMAIN a.events : a.events[i] = a.events[j] => i = j
    PROVE  /\ item.source = "file" =>
                 ValidatorChecks!Count(item, a.events) = Cardinality(With(a, {}))
           /\ item.source # "file" =>
                 ValidatorChecks!Count(item, a.events) =
                    ValidatorChecks!Total(WithBoth(item, a))
           /\ ValidatorChecks!Count(item, a.events) \in Nat
<1> DEFINE es == a.events
           n == Len(es)
           counts == [i \in DOMAIN es |-> Counted1(item, es[i])]
           both == WithBoth(item, a)
<1>1. n \in 1 .. 2 /\ DOMAIN es = 1 .. n
  <2>1. es \in Seq(ValidatorChecks!Hit(1) \cup ValidatorChecks!Hit(2))
    BY AnswerParts
  <2> QED BY <2>1
<1>2. ValidatorChecks!Count(item, a.events) = ValidatorChecks!Total(counts)
  BY DEF ValidatorChecks!Count, Counted1, HasLine, ValidatorChecks!Cardinality, Cardinality
<1>3. \A i \in 1 .. n : Counted1(item, es[i]) \in Nat
  BY EventCounts
<1>4. counts \in Seq(Nat) /\ Len(counts) = n /\ \A i \in 1 .. n : counts[i] = Counted1(item, es[i])
  <2>1. counts \in [1 .. n -> Nat]
    <3> HIDE DEF n
    <3> QED BY <1>1, <1>3
  <2>2. n \in Nat
    BY <1>1
  <2> HIDE DEF n, counts
  <2>3. counts \in Seq(Nat) /\ Len(counts) = n
    BY <2>1, <2>2
  <2> QED BY <1>1, <2>3 DEF counts
<1>5. ValidatorChecks!ToSet(es) = {es[i] : i \in 1 .. n}
  BY <1>1 DEF ValidatorChecks!ToSet
<1>6. /\ \A e : e \in With(a, {}) <=> e \in {es[i] : i \in 1 .. n} /\ HasLine(e)
      /\ \A e : e \in With(a, {"level"}) <=>
                   e \in {es[i] : i \in 1 .. n} /\ HasLine(e) /\ "level" \in e.msg
      /\ \A e : e \in With(a, {"id"}) <=>
                   e \in {es[i] : i \in 1 .. n} /\ HasLine(e) /\ "id" \in e.msg
  BY <1>5 DEF With, HasLine
<1>7. /\ both \in Seq(Nat) => ValidatorChecks!Total(both) = both[1] + both[2]
      /\ both[1] = Cardinality(With(a, {"level"}))
      /\ both[2] = IF "id" \in item.by THEN Cardinality(With(a, {"id"})) ELSE 0
  <2>1. /\ DOMAIN both = 1 .. 2 /\ both[1] = Cardinality(With(a, {"level"}))
        /\ both[2] = IF "id" \in item.by THEN Cardinality(With(a, {"id"})) ELSE 0
    BY DEF WithBoth
  <2> HIDE DEF both
  <2>2. ASSUME both \in Seq(Nat) PROVE Len(both) = 2
    BY <2>1, <2>2
  <2> QED BY <2>1, <2>2, TotalOfFew
<1>8. \A k \in Nat : \A l \in Nat : both[1] = k /\ both[2] = l => both \in Seq(Nat)
  <2> TAKE k \in Nat, l \in Nat
  <2>1. ASSUME both[1] = k, both[2] = l PROVE both \in [1 .. 2 -> Nat]
    <3>1. both = [w \in 1 .. 2 |-> both[w]]
      BY DEF WithBoth
    <3>2. \A w \in 1 .. 2 : w = 1 \/ w = 2
      OBVIOUS
    <3> HIDE DEF both
    <3> QED BY <2>1, <3>1, <3>2
  <2>2. [1 .. 2 -> Nat] \subseteq Seq(Nat)
    OBVIOUS
  <2> QED BY <2>1, <2>2
<1>9. ValidatorChecks!Count(item, a.events) \in Nat
  BY <1>1, <1>2, <1>4, TotalOfFew
<1>10. CASE n = 1
  <2>1. /\ {es[i] : i \in 1 .. n} = {es[1]} /\ 1 \in 1 .. n
    BY <1>10
  <2>2. /\ Cardinality(With(a, {})) = One(HasLine(es[1]))
        /\ Cardinality(With(a, {"level"})) = LevelIn(es[1])
        /\ Cardinality(With(a, {"id"})) = IdIn(es[1])
    <3>1. /\ With(a, {}) \subseteq {es[1]} /\ With(a, {"level"}) \subseteq {es[1]}
          /\ With(a, {"id"}) \subseteq {es[1]}
      BY <1>6, <2>1
    <3>2. /\ es[1] \in With(a, {}) <=> HasLine(es[1])
          /\ es[1] \in With(a, {"level"}) <=> HasLine(es[1]) /\ "level" \in es[1].msg
          /\ es[1] \in With(a, {"id"}) <=> HasLine(es[1]) /\ "id" \in es[1].msg
      BY <1>6, <2>1
    <3> HIDE DEF es
    <3>3. /\ Cardinality(With(a, {})) = One(es[1] \in With(a, {}))
          /\ Cardinality(With(a, {"level"})) = One(es[1] \in With(a, {"level"}))
          /\ Cardinality(With(a, {"id"})) = One(es[1] \in With(a, {"id"}))
      BY <3>1, PartOfOne
    <3> QED BY <3>2, <3>3 DEF One, LevelIn, IdIn
  <2>3. ValidatorChecks!Total(counts) = Counted1(item, es[1])
    <3> HIDE DEF counts, n, es
    <3> QED BY <1>3, <1>4, <1>10, <2>1, TotalOfFew
  <2>4. LevelIn(es[1]) \in Nat /\ IdIn(es[1]) \in Nat /\ 0 \in Nat
    BY DEF LevelIn, IdIn, One
  <2> HIDE DEF both, counts, es, n
  <2>5. /\ both[1] \in Nat /\ both[2] \in Nat
        /\ both[1] = LevelIn(es[1])
        /\ both[2] = IF "id" \in item.by THEN IdIn(es[1]) ELSE 0
    BY <1>7, <2>2, <2>4
  <2>6. ValidatorChecks!Total(both) = both[1] + both[2]
    BY <1>7, <1>8, <2>5
  <2> QED BY <1>2, <1>9, <2>2, <2>3, <2>5, <2>6, EventCounts DEF both, es
<1>11. CASE n = 2
  <2>1. /\ {es[i] : i \in 1 .. n} = {es[1], es[2]} /\ 1 \in 1 .. n /\ 2 \in 1 .. n
    BY <1>11
  <2>2. es[1] # es[2]
    BY <1>1, <2>1
  <2>3. /\ Cardinality(With(a, {})) = One(HasLine(es[1])) + One(HasLine(es[2]))
        /\ Cardinality(With(a, {"level"})) = LevelIn(es[1]) + LevelIn(es[2])
        /\ Cardinality(With(a, {"id"})) = IdIn(es[1]) + IdIn(es[2])
    <3>1. /\ With(a, {}) \subseteq {es[1], es[2]} /\ With(a, {"level"}) \subseteq {es[1], es[2]}
          /\ With(a, {"id"}) \subseteq {es[1], es[2]}
      BY <1>6, <2>1
    <3>2. \A k \in {1, 2} :
             /\ es[k] \in With(a, {}) <=> HasLine(es[k])
             /\ es[k] \in With(a, {"level"}) <=> HasLine(es[k]) /\ "level" \in es[k].msg
             /\ es[k] \in With(a, {"id"}) <=> HasLine(es[k]) /\ "id" \in es[k].msg
      BY <1>6, <2>1
    <3> DEFINE Sum(s) == One(es[1] \in s) + One(es[2] \in s)
    <3>3. /\ Cardinality(With(a, {})) = Sum(With(a, {}))
          /\ Cardinality(With(a, {"level"})) = Sum(With(a, {"level"}))
          /\ Cardinality(With(a, {"id"})) = Sum(With(a, {"id"}))
      <4> HIDE DEF es
      <4> QED BY <2>2, <3>1, PartOfTwo
    <3> HIDE DEF es
    <3> QED BY <3>2, <3>3 DEF One, LevelIn, IdIn
  <2>4. ValidatorChecks!Total(counts) = Counted1(item, es[1]) + Counted1(item, es[2])
    <3> HIDE DEF counts, n, es
    <3> QED BY <1>3, <1>4, <1>11, <2>1, TotalOfFew
  <2>5. \A k \in {1, 2} : LevelIn(es[k]) \in Nat /\ IdIn(es[k]) \in Nat
    BY DEF LevelIn, IdIn, One
  <2> HIDE DEF both, counts, es, n
  <2>6. /\ both[1] \in Nat /\ both[2] \in Nat
        /\ both[1] = LevelIn(es[1]) + LevelIn(es[2])
        /\ both[2] = IF "id" \in item.by THEN IdIn(es[1]) + IdIn(es[2]) ELSE 0
    BY <1>7, <2>3, <2>5
  <2>7. ValidatorChecks!Total(both) = both[1] + both[2]
    BY <1>7, <1>8, <2>6
  <2>8. CASE item.source = "file"
    <3>1. /\ Counted1(item, es[1]) = One(HasLine(es[1]))
          /\ Counted1(item, es[2]) = One(HasLine(es[2]))
      BY <2>8, EventCounts
    <3> QED BY <1>2, <1>9, <2>3, <2>4, <2>8, <3>1 DEF es
  <2>9. CASE item.source # "file"
    <3>1. /\ Counted1(item, es[1]) = LevelIn(es[1]) + IF "id" \in item.by THEN IdIn(es[1]) ELSE 0
          /\ Counted1(item, es[2]) = LevelIn(es[2]) + IF "id" \in item.by THEN IdIn(es[2]) ELSE 0
      BY <2>9, EventCounts
    <3>2. Counted1(item, es[1]) + Counted1(item, es[2]) = both[1] + both[2]
      BY <2>5, <2>6, <3>1
    <3> QED BY <1>2, <1>9, <2>4, <2>7, <2>9, <3>2 DEF es, both
  <2> QED BY <2>8, <2>9
<1> QED BY <1>1, <1>10, <1>11

\* With at most one value, that there is a good one is that the first is good.
LEMMA OneValue ==
    ASSUME NEW a \in AnswersGiven, ValidatorChecks!ChecksAssumption, Len(a.values) \in 0 .. 1
    PROVE  /\ Len(a.values) = 0 => a.values = <<>> /\ ValidatorChecks!ToSet(a.values) = {}
           /\ Len(a.values) = 1 => /\ a.values # <<>> /\ a.values[1] \in Points
                                   /\ ValidatorChecks!ToSet(a.values) = {a.values[1]}
<1> DEFINE vs == a.values
<1>1. vs \in Seq(Points)
  BY AnswerParts
<1> HIDE DEF vs
<1>2. ASSUME Len(vs) = 0 PROVE vs = <<>> /\ ValidatorChecks!ToSet(vs) = {}
  <2>1. DOMAIN vs = {}
    BY <1>1, <1>2
  <2> QED BY <1>1, <1>2, <2>1 DEF ValidatorChecks!ToSet
<1>3. ASSUME Len(vs) = 1
      PROVE  vs # <<>> /\ vs[1] \in Points /\ ValidatorChecks!ToSet(vs) = {vs[1]}
  <2>1. DOMAIN vs = {1}
    BY <1>1, <1>3
  <2> QED BY <1>1, <1>3, <2>1 DEF ValidatorChecks!ToSet
<1> QED BY <1>2, <1>3 DEF vs

\* The samples are judged as they should be.
LEMMA SamplesRight ==
    ASSUME NEW a \in AnswersGiven, ValidatorChecks!ChecksAssumption, Len(a.counts) \in 0 .. 2,
           NEW slack \in 0 .. SampleCount
    PROVE  ValidatorChecks!SampleCountOK(a, SampleCount - slack, SampleCount) <=>
              ~a.countErr /\ SampleCount - ValidatorChecks!Total(a.counts) \in 0 .. slack
<1>1. ValidatorChecks!Total(a.counts) \in Nat /\ SampleCount \in Nat /\ slack \in Nat
  <2>1. a.counts \in Seq(Nat)
    BY AnswerParts
  <2> QED BY <2>1, TotalOfFew DEF ValidatorChecks!ChecksAssumption
<1> DEFINE t == ValidatorChecks!Total(a.counts)
<1> HIDE DEF t
<1>2. t \in SampleCount - slack .. SampleCount <=> SampleCount - t \in 0 .. slack
  BY <1>1 DEF t
<1> QED BY <1>2 DEF ValidatorChecks!SampleCountOK, t

\* So is a metric of a feature test.
LEMMA MetricRight ==
    ASSUME NEW item, NEW name, NEW value \in {0, 10}, item = ValidatorChecks!Metric(name, value),
           NEW a \in AnswersGiven, ValidatorChecks!ChecksAssumption, job.type = "feature",
           Len(a.values) \in 0 .. 1, Len(a.counts) \in 0 .. 2
    PROVE  ValidatorChecks!ValidateMetric(item, a) = "ok" <=> GoodAnswer(item, a)
<1>1. item.kind = "metric" /\ item.name = name /\ item.value = value
  BY DEF ValidatorChecks!Metric
<1>2. ValidatorChecks!Slack = 0
  BY DEF ValidatorChecks!Slack
<1>3. ValidatorChecks!SampleCountOK(a, SampleCount, SampleCount) <=>
         ~a.countErr /\ SampleCount - ValidatorChecks!Total(a.counts) \in 0 .. ValidatorChecks!Slack
  <2>1. SampleCount \in Nat /\ SampleCount - 0 = SampleCount /\ 0 \in 0 .. SampleCount
    BY DEF ValidatorChecks!ChecksAssumption
  <2>2. ValidatorChecks!SampleCountOK(a, SampleCount - 0, SampleCount) <=>
           ~a.countErr /\ SampleCount - ValidatorChecks!Total(a.counts) \in 0 .. 0
    BY <2>1, SamplesRight
  <2> QED BY <1>2, <2>1, <2>2
<1> DEFINE Samples == ValidatorChecks!SampleCountOK(a, SampleCount, SampleCount)
           Value == item.value # 0 /\ a.values[1] \notin item.value - 1 .. item.value + 1
<1>4. ValidatorChecks!ValidateMetric(item, a) = "ok" <=>
         ~a.err /\ a.values # <<>> /\ Samples /\ ~Value
  BY DEF ValidatorChecks!ValidateMetric
<1>5. GoodAnswer(item, a) <=>
         /\ ~a.err /\ Samples
         /\ \E v \in ValidatorChecks!ToSet(a.values) : ValidatorChecks!Near(name, value, v, 0)
  BY <1>1, <1>3 DEF GoodAnswer
<1>6. (\E v \in ValidatorChecks!ToSet(a.values) : ValidatorChecks!Near(name, value, v, 0))
         <=> a.values # <<>> /\ ~Value
  <2>1. CASE Len(a.values) = 0
    BY <2>1, OneValue
  <2>2. CASE Len(a.values) = 1
    <3>1. /\ a.values # <<>> /\ a.values[1] \in Int
          /\ ValidatorChecks!ToSet(a.values) = {a.values[1]}
      BY <2>2, OneValue, AnswerParts
    <3>2. ValidatorChecks!Near(name, value, a.values[1], 0) <=>
             value = 0 \/ a.values[1] - value \in -1 .. 1
      BY DEF ValidatorChecks!Near
    <3>3. a.values[1] - value \in -1 .. 1 <=> a.values[1] \in value - 1 .. value + 1
      BY <3>1
    <3> QED BY <1>1, <3>1, <3>2, <3>3
  <2> QED BY <2>1, <2>2
<1> HIDE DEF Samples, Value
<1> QED BY <1>4, <1>5, <1>6

\* What Good wants of a metric.
LEMMA GoodMetric ==
    ASSUME NEW item, NEW a, item.kind = "metric"
    PROVE  GoodAnswer(item, a) <=>
              /\ ~a.err /\ ~a.countErr
              /\ SampleCount - ValidatorChecks!Total(a.counts) \in 0 .. ValidatorChecks!Slack
              /\ \E v \in ValidatorChecks!ToSet(a.values) :
                    ValidatorChecks!Near(item.name, item.value, v, 0)
<1> DEFINE Samples == SampleCount - ValidatorChecks!Total(a.counts) \in 0 .. ValidatorChecks!Slack
           Value == \E v \in ValidatorChecks!ToSet(a.values) :
                       ValidatorChecks!Near(item.name, item.value, v, 0)
<1>1. GoodAnswer(item, a) <=>
         /\ ~a.err
         /\ item.kind = "app signal" =>
               a.values # <<>> /\ ValidatorChecks!Min(ValidatorChecks!ToSet(a.values)) >= 0
         /\ item.kind = "metric" => ~a.countErr /\ Samples /\ Value
         /\ item.kind = "log" =>
               /\ a.events # <<>>
               /\ Cardinality(ValidatorChecks!ToSet(a.events)) = Len(a.events)
               /\ IF item.source = "file" THEN Cardinality(With(a, {})) >= item.lines
                  ELSE ValidatorChecks!Total(WithBoth(item, a)) >= item.lines
  BY DEF GoodAnswer
<1> HIDE DEF Samples, Value
<1>2. item.kind # "app signal" /\ item.kind # "log"
  OBVIOUS
<1>3. GoodAnswer(item, a) <=> ~a.err /\ ~a.countErr /\ Samples /\ Value
  BY <1>1, <1>2
<1> QED BY <1>3 DEF Samples, Value

\* The check of a stress test, of its bound and its slack.
LEMMA StressCheckIs ==
    ASSUME NEW item, NEW a
    PROVE  ValidatorChecks!ValidateStressMetric(item, a) =
             LET bound == ValidatorChecks!Bound(job.os, job.receiver)
                 slack == IF job.os = "windows" THEN WindowsSlack ELSE LinuxSlack
             IN  IF a.err THEN "api"
                 ELSE IF a.values = <<>> THEN "missing"
                 ELSE IF ~(job.rate \in ValidatorChecks!Rates
                           /\ job.receiver \in ValidatorChecks!Receivers(job.os)) THEN "no rate"
                 ELSE IF item.name \notin DOMAIN bound THEN "no bound"
                 ELSE IF a.values[1] < 0 \/ 10 * a.values[1] > 13 * bound[item.name] THEN "value"
                 ELSE IF ~ValidatorChecks!SampleCountOK(a, SampleCount - slack, SampleCount)
                 THEN "samples" ELSE "ok"
BY DEF ValidatorChecks!ValidateStressMetric

\* So is a metric of a stress test.
LEMMA StressRight ==
    ASSUME NEW item, NEW name, item = ValidatorChecks!Metric(name, 0),
           Bounded(job.os, job.receiver, name),
           NEW a \in AnswersGiven, ValidatorChecks!ChecksAssumption, job.type = "stress",
           a.err \/ (Len(a.values) \in 0 .. 1 /\ Len(a.counts) \in 0 .. 2)
    PROVE  ValidatorChecks!ValidateStressMetric(item, a) = "ok" <=>
              GoodAnswer(item, a) /\ job.rate \in ValidatorChecks!Rates
<1>1. item.kind = "metric" /\ item.name = name /\ item.value = 0
  BY DEF ValidatorChecks!Metric
<1> DEFINE slack == IF job.os = "windows" THEN WindowsSlack ELSE LinuxSlack
           bound == ValidatorChecks!Bound(job.os, job.receiver)
           Samples == ValidatorChecks!SampleCountOK(a, SampleCount - slack, SampleCount)
           Value == a.values[1] < 0 \/ 10 * a.values[1] > 13 * bound[name]
<1>2. ValidatorChecks!Slack = slack /\ slack \in 0 .. SampleCount
  BY DEF ValidatorChecks!Slack, ValidatorChecks!ChecksAssumption
<1>3. CASE a.err
  BY <1>3 DEF ValidatorChecks!ValidateStressMetric, GoodAnswer
<1>4. CASE ~a.err
  <2>1. Len(a.values) \in 0 .. 1 /\ Len(a.counts) \in 0 .. 2
    BY <1>4
  <2>2. Samples <=> /\ ~a.countErr
                    /\ SampleCount - ValidatorChecks!Total(a.counts) \in 0 .. ValidatorChecks!Slack
    <3> HIDE DEF slack
    <3> QED BY <1>2, <2>1, SamplesRight
  <2>3. /\ job.receiver \in ValidatorChecks!Receivers(job.os)
        /\ name \in DOMAIN bound
        /\ bound[name] = IF name = Swap THEN 0 ELSE 10
    BY DEF Bounded
  <2>4. ValidatorChecks!ValidateStressMetric(item, a) = "ok" <=>
           a.values # <<>> /\ job.rate \in ValidatorChecks!Rates /\ ~Value /\ Samples
    <3>1. ValidatorChecks!ValidateStressMetric(item, a) =
            IF a.err THEN "api"
            ELSE IF a.values = <<>> THEN "missing"
            ELSE IF ~(job.rate \in ValidatorChecks!Rates
                      /\ job.receiver \in ValidatorChecks!Receivers(job.os)) THEN "no rate"
            ELSE IF item.name \notin DOMAIN bound THEN "no bound"
            ELSE IF a.values[1] < 0 \/ 10 * a.values[1] > 13 * bound[item.name] THEN "value"
            ELSE IF ~Samples THEN "samples" ELSE "ok"
      BY StressCheckIs
    <3> HIDE DEF Samples, bound
    <3> QED BY <1>1, <1>4, <2>3, <3>1
  <2>5. GoodAnswer(item, a) <=>
           /\ Samples
           /\ \E v \in ValidatorChecks!ToSet(a.values) : ValidatorChecks!Near(name, 0, v, 0)
    <3> DEFINE Total == SampleCount - ValidatorChecks!Total(a.counts)
                          \in 0 .. ValidatorChecks!Slack
               Some == \E v \in ValidatorChecks!ToSet(a.values) : ValidatorChecks!Near(name, 0, v, 0)
    <3>1. GoodAnswer(item, a) <=> ~a.err /\ ~a.countErr /\ Total /\ Some
      <4>1. GoodAnswer(item, a) <=>
               /\ ~a.err /\ ~a.countErr
               /\ SampleCount - ValidatorChecks!Total(a.counts) \in 0 .. ValidatorChecks!Slack
               /\ \E v \in ValidatorChecks!ToSet(a.values) :
                     ValidatorChecks!Near(item.name, item.value, v, 0)
        BY <1>1, GoodMetric
      <4> QED BY <1>1, <4>1
    <3>2. Samples <=> ~a.countErr /\ Total
      BY <2>2
    <3> HIDE DEF Samples, Total, Some
    <3>3. GoodAnswer(item, a) <=> Samples /\ Some
      BY <1>4, <3>1, <3>2
    <3> QED BY <3>3 DEF Some
  <2>7. /\ Len(a.values) = 0 => a.values = <<>> /\ ValidatorChecks!ToSet(a.values) = {}
        /\ Len(a.values) = 1 => /\ a.values # <<>> /\ a.values[1] \in Points
                                /\ ValidatorChecks!ToSet(a.values) = {a.values[1]}
    BY <2>1, OneValue, Zenon
  <2>6. (\E v \in ValidatorChecks!ToSet(a.values) : ValidatorChecks!Near(name, 0, v, 0))
           <=> a.values # <<>> /\ ~Value
    <3>1. CASE Len(a.values) = 0
      <4>1. a.values = <<>> /\ ValidatorChecks!ToSet(a.values) = {}
        BY <3>1, <2>7
      <4> HIDE DEF Value, Samples, bound, slack
      <4>2. ~\E v \in ValidatorChecks!ToSet(a.values) : ValidatorChecks!Near(name, 0, v, 0)
        BY <4>1
      <4> QED BY <4>1, <4>2
    <3>2. CASE Len(a.values) = 1
      <4>1. /\ a.values # <<>> /\ a.values[1] \in Int
            /\ ValidatorChecks!ToSet(a.values) = {a.values[1]}
        <5>1. /\ a.values # <<>> /\ a.values[1] \in Points
              /\ ValidatorChecks!ToSet(a.values) = {a.values[1]}
          BY <3>2, <2>7
        <5>2. Points \subseteq Int
          BY AnswerParts
        <5> QED BY <5>1, <5>2
      <4>2. ValidatorChecks!Near(name, 0, a.values[1], 0) <=>
               a.values[1] = 0 \/ (a.values[1] \in 1 .. 13 /\ name # Swap)
        BY DEF ValidatorChecks!Near, Swap
      <4> DEFINE v == a.values[1]
      <4>3. ~Value <=> v >= 0 /\ 10 * v <= 13 * bound[name]
        BY <2>3, <4>1
      <4> HIDE DEF v, Value, bound
      <4>4. CASE name = Swap
        <5>1. v \in Int /\ bound[name] = 0 /\ (~Value <=> v >= 0 /\ 10 * v <= 13 * bound[name])
          BY <2>3, <4>1, <4>3, <4>4 DEF v
        <5>2. ~Value <=> v = 0
          BY <5>1
        <5> QED BY <4>1, <4>2, <4>4, <5>2 DEF v
      <4>5. CASE name # Swap
        <5>1. v \in Int /\ bound[name] = 10 /\ (~Value <=> v >= 0 /\ 10 * v <= 13 * bound[name])
          BY <2>3, <4>1, <4>3, <4>5 DEF v
        <5>2. ~Value <=> v = 0 \/ v \in 1 .. 13
          BY <5>1
        <5> QED BY <4>1, <4>2, <4>5, <5>2 DEF v
      <4> QED BY <4>4, <4>5
    <3> QED BY <2>1, <3>1, <3>2
  <2> HIDE DEF Samples, Value
  <2> QED BY <2>4, <2>5, <2>6
<1> QED BY <1>3, <1>4

\* So is a log.
LEMMA LogRight ==
    ASSUME NEW item \in ValidatorChecks!FeatureLogs, NEW a \in AnswersGiven,
           ValidatorChecks!ChecksAssumption, Len(a.events) \in 0 .. 2, ~a.err
    PROVE  ValidatorChecks!ValidateLogs(item, a) = "ok" <=> GoodAnswer(item, a)
<1> DEFINE es == a.events
           n == Len(es)
           Distinct == \A i, j \in DOMAIN es : es[i] = es[j] => i = j
           S == ValidatorChecks!ToSet(es)
<1>1. /\ item.kind = "log" /\ item.lines \in 0 .. 2
  BY DEF ValidatorChecks!FeatureLogs
<1>2. n \in 0 .. 2 /\ DOMAIN es = 1 .. n /\ (es = <<>> <=> n = 0)
  <2>1. es \in Seq(ValidatorChecks!Hit(1) \cup ValidatorChecks!Hit(2))
    BY AnswerParts
  <2> HIDE DEF es
  <2> QED BY <2>1 DEF es
<1>3. ValidatorChecks!NoDuplicateLogs(es) <=> Distinct
  BY DEF ValidatorChecks!NoDuplicateLogs, ValidatorChecks!IsInjective
<1>4. S = {es[i] : i \in 1 .. n}
  BY <1>2 DEF ValidatorChecks!ToSet
<1>5. n # 0 => (Distinct <=> Cardinality(S) = n)
  <2>1. CASE n = 1
    <3>1. S = {es[1]} /\ Distinct
      BY <1>2, <1>4, <2>1
    <3> HIDE DEF S
    <3>2. Cardinality(S) = 1
      BY <3>1, FS_Singleton
    <3> QED BY <2>1, <3>1, <3>2
  <2>2. CASE n = 2
    <3>1. S = {es[1], es[2]} /\ (Distinct <=> es[1] # es[2])
      BY <1>2, <1>4, <2>2
    <3> HIDE DEF S, es, Distinct
    <3>2. CASE es[1] # es[2]
      <4>1. S \subseteq {es[1], es[2]} /\ es[1] \in S /\ es[2] \in S
        BY <3>1
      <4>2. Cardinality(S) = 2
        BY <3>2, <4>1, PartOfTwo DEF One
      <4> QED BY <2>2, <3>1, <3>2, <4>2
    <3>3. CASE es[1] = es[2]
      <4>1. S = {es[1]}
        BY <3>1, <3>3
      <4>2. Cardinality(S) = 1
        BY <4>1, FS_Singleton
      <4> QED BY <2>2, <3>1, <3>3, <4>2
    <3> QED BY <3>2, <3>3
  <2> QED BY <1>2, <2>1, <2>2
<1>6. ValidatorChecks!ValidateLogs(item, a) = "ok" <=>
         /\ es # <<>> /\ Distinct
         /\ ~(ValidatorChecks!Count(item, es) < item.lines)
  BY <1>3 DEF ValidatorChecks!ValidateLogs, ValidatorChecks!LogsNotEmpty
<1>7. GoodAnswer(item, a) <=>
         /\ es # <<>> /\ Cardinality(S) = n
         /\ IF item.source = "file" THEN Cardinality(With(a, {})) >= item.lines
            ELSE ValidatorChecks!Total(WithBoth(item, a)) >= item.lines
  BY <1>1 DEF GoodAnswer
<1>8. n # 0 /\ Distinct =>
         /\ item.source = "file" => ValidatorChecks!Count(item, es) = Cardinality(With(a, {}))
         /\ item.source # "file" =>
               ValidatorChecks!Count(item, es) = ValidatorChecks!Total(WithBoth(item, a))
         /\ ValidatorChecks!Count(item, es) \in Nat
  <2> SUFFICES ASSUME n # 0, Distinct
               PROVE  /\ item.source = "file" =>
                            ValidatorChecks!Count(item, es) = Cardinality(With(a, {}))
                      /\ item.source # "file" =>
                            ValidatorChecks!Count(item, es) =
                               ValidatorChecks!Total(WithBoth(item, a))
                      /\ ValidatorChecks!Count(item, es) \in Nat
    OBVIOUS
  <2>1. Len(a.events) \in 1 .. 2
    BY <1>2
  <2> QED BY <2>1, CountsRight
<1> HIDE DEF es, n, Distinct, S
<1>9. \A c \in Nat : ~(c < item.lines) <=> c >= item.lines
  BY <1>1
<1> QED BY <1>2, <1>5, <1>6, <1>7, <1>8, <1>9

\* Each event that has all the words of a Windows log is counted, and none is
\* counted more often than there are words.
LEMMA HalfAtLeast ==
    ASSUME NEW item \in ValidatorChecks!FeatureLogs, NEW a \in AnswersGiven,
           ValidatorChecks!ChecksAssumption, Len(a.events) \in 0 .. 2
    PROVE  /\ item.source = "file" => ValidatorChecks!With(item, a) = With(a, {})
           /\ item.source # "file" =>
                 /\ All(item, a) => ValidatorChecks!Total(WithBoth(item, a)) >= item.lines
                 /\ ValidatorChecks!Total(WithBoth(item, a)) >= item.lines => Half(item, a)
<1> DEFINE S == ValidatorChecks!ToSet(a.events)
           Level == With(a, {"level"})
           Id == With(a, {"id"})
           Any == ValidatorChecks!WithAny(item, a)
<1>1. item.lines \in 0 .. 2 /\ (item.source = "file" => item.by = {})
      /\ (item.source # "file" => item.by = {"level"} \/ item.by = {"level", "id"})
  BY DEF ValidatorChecks!FeatureLogs
<1>2. item.source = "file" => ValidatorChecks!With(item, a) = With(a, {})
  BY <1>1 DEF ValidatorChecks!With, With
<1>3. IsFiniteSet(S)
  <2>1. a.events \in Seq(ValidatorChecks!Hit(1) \cup ValidatorChecks!Hit(2))
    BY AnswerParts
  <2>2. S = {a.events[k] : k \in 1 .. Len(a.events)}
    BY <2>1 DEF ValidatorChecks!ToSet
  <2> HIDE DEF S
  <2>3. S = {} \/ S = {a.events[1]} \/ S = {a.events[1]} \cup {a.events[2]}
    <3>1. CASE Len(a.events) = 0
      BY <2>2, <3>1
    <3>2. CASE Len(a.events) = 1
      BY <2>2, <3>2
    <3>3. CASE Len(a.events) = 2
      BY <2>2, <3>3
    <3> QED BY <3>1, <3>2, <3>3
  <2>4. IsFiniteSet({}) /\ IsFiniteSet({a.events[1]}) /\ IsFiniteSet({a.events[2]})
    BY FS_EmptySet, FS_Singleton, Zenon
  <2>5. IsFiniteSet({a.events[1]} \cup {a.events[2]})
    BY <2>4, FS_Union, Zenon
  <2> QED BY <2>3, <2>4, <2>5, Zenon
<1>4. ASSUME item.source # "file"
      PROVE  /\ All(item, a) => ValidatorChecks!Total(WithBoth(item, a)) >= item.lines
             /\ ValidatorChecks!Total(WithBoth(item, a)) >= item.lines => Half(item, a)
  <2>1. /\ ValidatorChecks!With(item, a) \subseteq Level
        /\ Level \subseteq Any /\ ("id" \in item.by => Id \subseteq Any)
        /\ Any \subseteq S /\ Level \subseteq S /\ Id \subseteq S
    BY <1>1, <1>4 DEF ValidatorChecks!With, ValidatorChecks!WithAny, With
  <2> HIDE DEF S, Level, Id, Any
  <2>2. IsFiniteSet(Any) /\ IsFiniteSet(Level) /\ IsFiniteSet(Id)
    BY <1>3, <2>1, FS_Subset
  <2>3. /\ Cardinality(Level) \in Nat /\ Cardinality(Id) \in Nat /\ Cardinality(Any) \in Nat
        /\ Cardinality(Level) <= Cardinality(Any)
        /\ "id" \in item.by => Cardinality(Id) <= Cardinality(Any)
        /\ Cardinality(ValidatorChecks!With(item, a)) <= Cardinality(Level)
        /\ Cardinality(ValidatorChecks!With(item, a)) \in Nat
    <3>1. IsFiniteSet(ValidatorChecks!With(item, a))
      BY <2>1, <2>2, FS_Subset
    <3> QED BY <2>1, <2>2, <3>1, FS_Subset, FS_CardinalityType
  <2> DEFINE ids == IF "id" \in item.by THEN Cardinality(Id) ELSE 0
  <2>4. ValidatorChecks!Total(WithBoth(item, a)) = Cardinality(Level) + ids /\ ids \in Nat
    <3>1. WithBoth(item, a) \in Seq(Nat) /\ Len(WithBoth(item, a)) = 2
          /\ WithBoth(item, a)[1] = Cardinality(Level) /\ WithBoth(item, a)[2] = ids
      BY <2>3 DEF WithBoth, Level, Id
    <3> QED BY <2>3, <3>1, TotalOfFew
  <2>5. CASE item.by = {"level"}
    <3>1. ids = 0 /\ Cardinality(item.by) = 1
      BY <2>5, FS_Singleton
    <3> HIDE DEF ids
    <3>2. Cardinality(item.by) * Cardinality(Any) = Cardinality(Any)
      BY <2>3, <3>1
    <3> QED BY <1>1, <2>3, <2>4, <3>1, <3>2 DEF All, Half, Any
  <2>6. CASE item.by = {"level", "id"}
    <3>1. ids = Cardinality(Id) /\ Cardinality(Id) <= Cardinality(Any)
      BY <2>3, <2>6
    <3>2. Cardinality(item.by) = 2
      <4>1. IsFiniteSet({"level"}) /\ Cardinality({"level"}) = 1
        BY FS_Singleton
      <4>2. Cardinality({"level"} \cup {"id"}) = Cardinality({"level"}) + 1
        BY <4>1, FS_AddElement
      <4>3. item.by = {"level"} \cup {"id"}
        BY <2>6
      <4> QED BY <4>1, <4>2, <4>3
    <3> HIDE DEF ids
    <3>3. Cardinality(item.by) * Cardinality(Any) = Cardinality(Any) + Cardinality(Any)
      BY <2>3, <3>2
    <3> QED BY <1>1, <2>3, <2>4, <3>1, <3>3 DEF All, Half, Any
  <2> QED BY <1>1, <1>4, <2>5, <2>6
<1> QED BY <1>2, <1>4

\* What is good is accepted, and what is accepted is good or let pass.
LEMMA AcceptsGood ==
    ASSUME ValidatorChecks!ChecksAssumption, NEW i,
           LET item == job.items[i]
               a == saw[i]
           IN  /\ item.kind = "log" => item \in ValidatorChecks!FeatureLogs
               /\ a \in AnswersGiven /\ (a.err \/ item.kind # "log" \/ Len(a.events) \in 0 .. 2),
           job.type \in {"feature", "stress"}, ValidatorChecks!RateKnown
    PROVE  /\ ValidatorChecks!Good(i) => GoodAnswer(job.items[i], saw[i])
           /\ GoodAnswer(job.items[i], saw[i]) =>
                 ValidatorChecks!Good(i) \/ ValidatorChecks!LetPass(i)
<1> DEFINE item == job.items[i]
           a == saw[i]
<1>1. /\ item.kind = "log" => item \in ValidatorChecks!FeatureLogs
      /\ a \in AnswersGiven /\ (a.err \/ item.kind # "log" \/ Len(a.events) \in 0 .. 2)
  OBVIOUS
<1>2. /\ ValidatorChecks!Good(i) <=> MetBy(item, a, 7, All(item, a))
      /\ ValidatorChecks!LetPass(i) <=>
            /\ MetBy(item, a, 0, Half(item, a))
            /\ job.type = "stress" \/ (item.kind = "log" /\ item.source = "WindowsEvents")
  BY GoodIs
<1> HIDE DEF item, a
<1>3. CASE a.err
  BY <1>2, <1>3 DEF MetBy, GoodAnswer, item, a
<1>4. CASE ~a.err /\ item.kind = "log"
  <2>1. /\ item \in ValidatorChecks!FeatureLogs /\ Len(a.events) \in 0 .. 2
        /\ item.source \in {"file", "WindowsEvents"}
    BY <1>1, <1>4 DEF ValidatorChecks!FeatureLogs
  <2>2. /\ item.source = "file" => ValidatorChecks!With(item, a) = With(a, {})
        /\ item.source # "file" =>
              /\ All(item, a) => ValidatorChecks!Total(WithBoth(item, a)) >= item.lines
              /\ ValidatorChecks!Total(WithBoth(item, a)) >= item.lines => Half(item, a)
    BY <1>1, <2>1, HalfAtLeast
  <2> DEFINE Apart == a.events # <<>>
                      /\ Cardinality(ValidatorChecks!ToSet(a.events)) = Len(a.events)
             Full == Cardinality(With(a, {})) >= item.lines
             Words == ValidatorChecks!Total(WithBoth(item, a)) >= item.lines
  <2>3. /\ \A low, enough : MetBy(item, a, low, enough) <=> Apart /\ enough
        /\ GoodAnswer(item, a) <=> Apart /\ IF item.source = "file" THEN Full ELSE Words
    BY <1>4 DEF MetBy, GoodAnswer
  <2>4. item.source = "file" => (All(item, a) <=> Full)
    BY <2>2 DEF All
  <2>5. /\ ValidatorChecks!Good(i) <=> Apart /\ All(item, a)
        /\ ValidatorChecks!LetPass(i) <=>
              /\ Apart /\ Half(item, a)
              /\ job.type = "stress" \/ item.source = "WindowsEvents"
    BY <1>2, <1>4, <2>3
  <2>6. item.source # "file" => (All(item, a) => Words) /\ (Words => Half(item, a))
    BY <2>2
  <2> HIDE DEF Apart, Full, Words
  <2>7. /\ ValidatorChecks!Good(i) => GoodAnswer(item, a)
        /\ GoodAnswer(item, a) => ValidatorChecks!Good(i) \/ ValidatorChecks!LetPass(i)
    BY <2>1, <2>3, <2>4, <2>5, <2>6
  <2> QED BY <2>7 DEF item, a
<1>5. CASE ~a.err /\ item.kind # "log"
  <2>1. \A enough : MetBy(item, a, 0, enough) <=> GoodAnswer(item, a)
    BY <1>5 DEF MetBy, GoodAnswer
  <2>2. \A enough : MetBy(item, a, 7, enough) => MetBy(item, a, 0, enough)
    <3>1. \A v : ValidatorChecks!Near(item.name, item.value, v, 7) =>
                 ValidatorChecks!Near(item.name, item.value, v, 0)
      BY DEF ValidatorChecks!Near
    <3> QED BY <1>5, <3>1 DEF MetBy
  <2>3. job.type = "feature" => \A enough : MetBy(item, a, 7, enough) <=> MetBy(item, a, 0, enough)
    <3>1. job.type = "feature" =>
            \A v : ValidatorChecks!Near(item.name, item.value, v, 7) <=>
                   ValidatorChecks!Near(item.name, item.value, v, 0)
      BY DEF ValidatorChecks!Near
    <3> QED BY <1>5, <3>1 DEF MetBy
  <2> HIDE DEF item, a
  <2>4. /\ ValidatorChecks!Good(i) => GoodAnswer(item, a)
        /\ GoodAnswer(item, a) => ValidatorChecks!Good(i) \/ ValidatorChecks!LetPass(i)
    BY <1>2, <2>1, <2>2, <2>3
  <2> QED BY <2>4 DEF item, a
<1> QED BY <1>3, <1>4, <1>5

Faulty(i) == ~GoodAnswer(job.items[i], saw[i]) \/ ~ValidatorChecks!RateKnown

\* The check of an item fails exactly if its answer is not accepted, or the rate is
\* no number; and it passes what is good, and else only what is let pass.
LEMMA Judged ==
    ASSUME ValidatorChecks!ChecksAssumption, ChecksTypeOK, job.type # "performance",
           NEW i \in DOMAIN saw, saw[i] \in ValidatorChecks!Answers(job.items[i])
    PROVE  /\ ValidatorChecks!Check(job.items[i], saw[i]) # "ok" <=> Faulty(i)
           /\ ValidatorChecks!Good(i) => ~Faulty(i)
           /\ ~Faulty(i) => ValidatorChecks!Good(i) \/ ValidatorChecks!LetPass(i)
<1> DEFINE item == job.items[i]
           a == saw[i]
<1>1. i \in 1 .. Len(job.items)
  <2>1. saw \in Seq(AnswersGiven) /\ Len(saw) <= Len(job.items) /\ Len(job.items) \in Nat
    BY JobItems DEF ChecksTypeOK
  <2>2. DOMAIN saw = 1 .. Len(saw) /\ Len(saw) \in Nat
    BY <2>1
  <2> QED BY <2>1, <2>2
<1>2. /\ job.type \in {"feature", "stress"} /\ item.kind \in Kinds
      /\ job.type = "feature" => job \in ValidatorChecks!FeatureJobs
      /\ job.type = "stress" => job \in ValidatorChecks!StressJobs
  BY <1>1, JobItems DEF ChecksTypeOK
<1>3. a \in AnswersGiven
  BY <1>2, AnswersTyped
<1>4. a.err \/ /\ ~a.err
               /\ item.kind = "log" => Len(a.events) \in 0 .. 2
               /\ item.kind = "app signal" => Len(a.values) \in 0 .. 2
               /\ item.kind = "metric" => Len(a.values) \in 0 .. 1 /\ Len(a.counts) \in 0 .. 2
  BY <1>2, AnswersTyped
<1>8. item.kind = "log" => item \in ValidatorChecks!FeatureLogs
  <2>1. CASE job.type = "feature"
    <3>1. FeatureItem(item)
      BY <1>1, <1>2, <2>1, ItemsOfFeature DEF item
    <3> HIDE DEF item
    <3>2. \A v : ValidatorChecks!Metric(<<"cpu_time_active">>, v).kind = "metric"
      BY DEF ValidatorChecks!Metric
    <3>3. ValidatorChecks!AppSignal.kind = "app signal" /\ ValidatorChecks!Traces.kind = "traces"
      BY DEF ValidatorChecks!AppSignal, ValidatorChecks!Traces
    <3> QED BY <3>1, <3>2, <3>3 DEF FeatureItem
  <2>2. CASE job.type = "stress"
    <3>1. StressItem(item)
      BY <1>1, <1>2, <2>2, ItemsOfStress DEF item
    <3> HIDE DEF item
    <3>2. \A name : ValidatorChecks!Metric(name, 0).kind = "metric"
      BY DEF ValidatorChecks!Metric
    <3> QED BY <3>1, <3>2 DEF StressItem
  <2> QED BY <1>2, <2>1, <2>2
<1>9. /\ ValidatorChecks!Good(i) => ~Faulty(i)
      /\ ~Faulty(i) => ValidatorChecks!Good(i) \/ ValidatorChecks!LetPass(i)
  <2>1. ValidatorChecks!Good(i) => ValidatorChecks!RateKnown
    BY GoodIs
  <2>2. ValidatorChecks!RateKnown =>
           /\ ValidatorChecks!Good(i) => GoodAnswer(job.items[i], saw[i])
           /\ GoodAnswer(job.items[i], saw[i]) =>
                 ValidatorChecks!Good(i) \/ ValidatorChecks!LetPass(i)
    BY <1>2, <1>3, <1>4, <1>8, AcceptsGood
  <2> QED BY <2>1, <2>2 DEF Faulty
<1>5. Faulty(i) <=> ~GoodAnswer(item, a)
                    \/ (job.type = "stress" /\ job.rate \notin ValidatorChecks!Rates)
  BY DEF Faulty, ValidatorChecks!RateKnown
<1> HIDE DEF item, a
<1>6. CASE job.type = "feature"
  <2>1. FeatureItem(item)
    BY <1>1, <1>2, <1>6, ItemsOfFeature DEF item
  <2>2. ASSUME NEW v \in {0, 10}, item = ValidatorChecks!Metric(<<"cpu_time_active">>, v)
        PROVE  ValidatorChecks!Check(item, a) = "ok" <=> GoodAnswer(item, a)
    <3>1. item.kind = "metric"
      BY <2>2 DEF ValidatorChecks!Metric
    <3>2. ValidatorChecks!Check(item, a) = ValidatorChecks!ValidateMetric(item, a)
      BY <1>6, <3>1 DEF ValidatorChecks!Check
    <3>3. CASE a.err
      BY <3>2, <3>3 DEF ValidatorChecks!ValidateMetric, GoodAnswer
    <3>4. CASE ~a.err
      <4>1. Len(a.values) \in 0 .. 1 /\ Len(a.counts) \in 0 .. 2
        BY <1>4, <3>1, <3>4
      <4>2. ValidatorChecks!ValidateMetric(item, a) = "ok" <=> GoodAnswer(item, a)
        BY <1>3, <1>6, <2>2, <4>1, MetricRight
      <4> QED BY <3>2, <4>2
    <3> QED BY <3>3, <3>4
  <2>3. ASSUME item = ValidatorChecks!AppSignal
        PROVE  ValidatorChecks!Check(item, a) = "ok" <=> GoodAnswer(item, a)
    <3>1. item.kind = "app signal"
      BY <2>3 DEF ValidatorChecks!AppSignal
    <3>2. ValidatorChecks!Check(item, a) = ValidatorChecks!ValidateAppSignalMetrics(a)
      BY <3>1 DEF ValidatorChecks!Check
    <3>3. CASE a.err
      BY <3>2, <3>3 DEF ValidatorChecks!ValidateAppSignalMetrics, GoodAnswer
    <3>4. CASE ~a.err
      <4>1. Len(a.values) \in 0 .. 2
        BY <1>4, <3>1, <3>4
      <4>2. ValidatorChecks!NoneNegative(a.values) <=>
              a.values # <<>> /\ ValidatorChecks!Min(ValidatorChecks!ToSet(a.values)) >= 0
        BY <1>3, <4>1, AppSignalRight
      <4> QED BY <3>1, <3>2, <3>4, <4>2 DEF ValidatorChecks!ValidateAppSignalMetrics, GoodAnswer
    <3> QED BY <3>3, <3>4
  <2>4. ASSUME item = ValidatorChecks!Traces
        PROVE  ValidatorChecks!Check(item, a) = "ok" <=> GoodAnswer(item, a)
    <3>1. item.kind = "traces"
      BY <2>4 DEF ValidatorChecks!Traces
    <3>2. ValidatorChecks!Check(item, a) = ValidatorChecks!ValidateTracesMetrics(a)
      BY <3>1 DEF ValidatorChecks!Check
    <3> QED BY <3>1, <3>2 DEF ValidatorChecks!ValidateTracesMetrics, GoodAnswer
  <2>5. ASSUME item \in ValidatorChecks!FeatureLogs
        PROVE  ValidatorChecks!Check(item, a) = "ok" <=> GoodAnswer(item, a)
    <3>1. item.kind = "log"
      BY <2>5 DEF ValidatorChecks!FeatureLogs
    <3>2. ValidatorChecks!Check(item, a) = ValidatorChecks!ValidateLogs(item, a)
      BY <3>1 DEF ValidatorChecks!Check
    <3>3. CASE a.err
      BY <3>2, <3>3 DEF ValidatorChecks!ValidateLogs, GoodAnswer
    <3>4. CASE ~a.err
      <4>1. Len(a.events) \in 0 .. 2
        BY <1>4, <3>1, <3>4
      <4>2. ValidatorChecks!ValidateLogs(item, a) = "ok" <=> GoodAnswer(item, a)
        BY <1>3, <2>5, <3>4, <4>1, LogRight
      <4> QED BY <3>2, <4>2
    <3> QED BY <3>3, <3>4
  <2>6. ValidatorChecks!Check(item, a) = "ok" <=> GoodAnswer(item, a)
    BY <2>1, <2>2, <2>3, <2>4, <2>5 DEF FeatureItem
  <2> QED BY <1>5, <1>6, <1>9, <2>6 DEF item, a
<1>7. CASE job.type = "stress"
  <2>1. StressItem(item)
    BY <1>1, <1>2, <1>7, ItemsOfStress DEF item
  <2>2. PICK name : item = ValidatorChecks!Metric(name, 0) /\ Bounded(job.os, job.receiver, name)
    BY <2>1 DEF StressItem
  <2>3. item.kind = "metric"
    BY <2>2 DEF ValidatorChecks!Metric
  <2>4. ValidatorChecks!Check(item, a) = ValidatorChecks!ValidateStressMetric(item, a)
    BY <1>7, <2>3 DEF ValidatorChecks!Check
  <2>5. a.err \/ (Len(a.values) \in 0 .. 1 /\ Len(a.counts) \in 0 .. 2)
    BY <1>4, <2>3
  <2>6. ValidatorChecks!ValidateStressMetric(item, a) = "ok" <=>
           GoodAnswer(item, a) /\ job.rate \in ValidatorChecks!Rates
    BY <1>3, <1>7, <2>2, <2>5, StressRight
  <2> QED BY <1>5, <1>7, <1>9, <2>4, <2>6 DEF item, a
<1> QED BY <1>2, <1>6, <1>7

-------------------------------------------------------------------------------
(* The invariant of a round of checks.                                     *)

ErrorsInv ==
    job.type # "performance" =>
        /\ \A i \in DOMAIN saw : saw[i] \in ValidatorChecks!Answers(job.items[i])
        /\ errs = {i \in DOMAIN saw : ValidatorChecks!Check(job.items[i], saw[i]) # "ok"}

ChecksInv == ChecksTypeOK /\ PerformanceInv /\ ErrorsInv

\* The invariant gives exact errors.
LEMMA ErrorsFromInv ==
    ASSUME ValidatorChecks!ChecksAssumption, ChecksInv
    PROVE  ValidatorChecks!ErrorsExact
<1> SUFFICES ASSUME job.type # "performance"
             PROVE  \A i \in DOMAIN saw :
                        /\ i \in errs => ~ValidatorChecks!Good(i)
                        /\ i \notin errs =>
                              ValidatorChecks!Good(i) \/ ValidatorChecks!LetPass(i)
  BY DEF ValidatorChecks!ErrorsExact
<1>1. \A i \in DOMAIN saw :
         /\ ValidatorChecks!Check(job.items[i], saw[i]) # "ok" <=> Faulty(i)
         /\ ValidatorChecks!Good(i) => ~Faulty(i)
         /\ ~Faulty(i) => ValidatorChecks!Good(i) \/ ValidatorChecks!LetPass(i)
  BY Judged DEF ChecksInv, ErrorsInv
<1>2. errs = {i \in DOMAIN saw : ValidatorChecks!Check(job.items[i], saw[i]) # "ok"}
  BY DEF ChecksInv, ErrorsInv
<1> HIDE DEF Faulty
<1> QED BY <1>1, <1>2

\* A round starts in the invariant.
LEMMA InitChecks == ASSUME ValidatorChecks!Init PROVE ChecksInv
<1>1. /\ job \in ValidatorChecks!Jobs /\ saw = <<>> /\ errs = {} /\ results = <<>>
      /\ verdict = "checking"
  BY DEF ValidatorChecks!Init
<1>2. Len(job.items) \in Nat
  BY <1>1, JobItems
<1>3. \A S : <<>> \in Seq(S)
  OBVIOUS
<1>4. Len(saw) = 0 /\ DOMAIN saw = {}
  BY <1>1
<1>5. saw \in Seq(AnswersGiven)
  BY <1>1, <1>3
<1> QED BY <1>1, <1>2, <1>4, <1>5 DEF ChecksInv, ChecksTypeOK, PerformanceInv, ErrorsInv

\* One answer more.
OneMore(more, a) ==
    /\ a \in AnswersGiven /\ more \in Seq(AnswersGiven) /\ Len(more) <= Len(job.items)
    /\ Len(more) = Len(saw) + 1 /\ more[Len(more)] = a
    /\ DOMAIN more = DOMAIN saw \cup {Len(more)} /\ Len(more) \notin DOMAIN saw
    /\ \A i \in DOMAIN saw : more[i] = saw[i]

\* It is one of the answers, in its place.
LEMMA AnswerMore ==
    ASSUME ValidatorChecks!ChecksAssumption, ChecksTypeOK, Len(saw) < Len(job.items),
           NEW a, a \in ValidatorChecks!Answers(job.items[Len(saw) + 1]),
           NEW more, more = Append(saw, a)
    PROVE  OneMore(more, a)
<1>1. /\ saw \in Seq(AnswersGiven) /\ Len(job.items) \in Nat /\ Len(saw) \in Nat
      /\ \A i \in 1 .. Len(job.items) : job.items[i].kind \in Kinds
  <2>1. saw \in Seq(AnswersGiven)
    BY DEF ChecksTypeOK
  <2>2. Len(saw) \in Nat
    BY <2>1
  <2> QED BY <2>1, <2>2, JobItems DEF ChecksTypeOK
<1>2. Len(saw) + 1 \in 1 .. Len(job.items)
  BY <1>1
<1>3. a \in AnswersGiven
  BY <1>1, <1>2, AnswersTyped
<1>4. /\ more \in Seq(AnswersGiven) /\ Len(more) = Len(saw) + 1 /\ more[Len(saw) + 1] = a
      /\ \A i \in 1 .. Len(saw) : more[i] = saw[i]
  <2>1. OneAfter(AnswersGiven, saw, a, more)
    BY <1>1, <1>3, OneAppended
  <2> QED BY <2>1 DEF OneAfter
<1>5. DOMAIN saw = 1 .. Len(saw) /\ DOMAIN more = 1 .. (Len(saw) + 1)
  BY <1>1, <1>4
<1> HIDE DEF ChecksTypeOK
<1> QED BY <1>1, <1>2, <1>3, <1>4, <1>5 DEF OneMore

\* The checks of a job are the same as long as the job is.
LEMMA CheckStays ==
    ASSUME job' = job, NEW item, NEW b
    PROVE  /\ ValidatorChecks!Check(item, b)' = ValidatorChecks!Check(item, b)
           /\ ValidatorChecks!Answers(item)' = ValidatorChecks!Answers(item)
<1>1. ValidatorChecks!ValidateStressMetric(item, b)' = ValidatorChecks!ValidateStressMetric(item, b)
  BY DEF ValidatorChecks!ValidateStressMetric
<1>2. ValidatorChecks!Check(item, b)' = ValidatorChecks!Check(item, b)
  BY <1>1 DEF ValidatorChecks!Check
<1>3. ValidatorChecks!Answers(item)' = ValidatorChecks!Answers(item)
  BY DEF ValidatorChecks!Answers
<1> QED BY <1>2, <1>3

\* Labels depend on the job alone.
LEMMA LabelStays ==
    ASSUME job' = job
    PROVE  \A name : ValidatorChecks!LastWord(name)' = ValidatorChecks!LastWord(name)
<1> TAKE name
<1>1. ValidatorChecks!Label(name)' = ValidatorChecks!Label(name)
  BY DEF ValidatorChecks!Label
<1> QED BY <1>1 DEF ValidatorChecks!LastWord

\* And converted values on the job and the answers.
LEMMA ConvertedStays ==
    ASSUME job' = job, saw' = saw
    PROVE  \A i : ValidatorChecks!Converted(i)' = ValidatorChecks!Converted(i)
<1> TAKE i
<1> DEFINE name == job.items[i].name
<1>1. ValidatorChecks!LastWord(name)' = ValidatorChecks!LastWord(name)
  BY LabelStays
<1> QED BY <1>1 DEF ValidatorChecks!Converted

\* A step that leaves the answers and the statistics leaves what they are packed from.
LEMMA PackedStays ==
    ASSUME job' = job, saw' = saw, results' = results, Packed
    PROVE  Packed'
BY DEF Packed

\* A step that leaves the job and the answers leaves the errors right.
LEMMA ErrorsStay ==
    ASSUME job' = job, saw' = saw, errs' = errs, ErrorsInv
    PROVE  ErrorsInv'
<1> SUFFICES ASSUME job.type # "performance" PROVE (
        /\ \A i \in DOMAIN saw : saw[i] \in ValidatorChecks!Answers(job.items[i])
        /\ errs = {i \in DOMAIN saw : ValidatorChecks!Check(job.items[i], saw[i]) # "ok"})'
  BY DEF ErrorsInv
<1>1. \A i : /\ ValidatorChecks!Check(job.items[i], saw[i])'
                  = ValidatorChecks!Check(job.items[i], saw[i])
             /\ ValidatorChecks!Answers(job.items[i])' = ValidatorChecks!Answers(job.items[i])
  <2> TAKE i
  <2> DEFINE item == job.items[i]
             a == saw[i]
  <2>1. item' = item /\ a' = a
    OBVIOUS
  <2>2. \A x, b : /\ ValidatorChecks!Check(x, b)' = ValidatorChecks!Check(x, b)
                  /\ ValidatorChecks!Answers(x)' = ValidatorChecks!Answers(x)
    BY CheckStays
  <2> QED BY <2>1, <2>2
<1> QED BY <1>1 DEF ErrorsInv

\* Types hold as long as job and answers stay.
LEMMA TypeStays ==
    ASSUME job' = job, saw' = saw, ChecksTypeOK
    PROVE  ChecksTypeOK'
BY DEF ChecksTypeOK

\* A step of another helper keeps the invariant.
LEMMA StutterChecks ==
    ASSUME ChecksInv, UNCHANGED ValidatorChecks!checkVars
    PROVE  ChecksInv'
<1>1. /\ job' = job /\ saw' = saw /\ errs' = errs /\ results' = results
      /\ recorded' = recorded /\ verdict' = verdict
  BY DEF ValidatorChecks!checkVars
<1>2. ChecksTypeOK' /\ ErrorsInv' /\ (Packed => Packed')
  BY <1>1, TypeStays, ErrorsStay, PackedStays DEF ChecksInv
<1>3. PerformanceInv'
  <2> HIDE DEF Packed
  <2> QED BY <1>1, <1>2 DEF ChecksInv, PerformanceInv
<1> QED BY <1>2, <1>3 DEF ChecksInv

\* An item of a feature or a stress test keeps it.
LEMMA AskKeeps ==
    ASSUME ValidatorChecks!ChecksAssumption, ChecksInv, ValidatorChecks!Ask
    PROVE  ChecksInv'
<1>1. PICK a \in ValidatorChecks!Answers(job.items[Len(saw) + 1]) :
         /\ saw' = Append(saw, a)
         /\ errs' = ValidatorChecks!KeepAll(Len(saw'),
                       ValidatorChecks!Check(job.items[Len(saw')], a))
  BY DEF ValidatorChecks!Ask
<1>2. /\ Len(saw) < Len(job.items) /\ job.type # "performance" /\ job' = job
  BY DEF ValidatorChecks!Ask
<1> DEFINE more == Append(saw, a)
           n == Len(more)
<1>3. /\ a \in AnswersGiven /\ more \in Seq(AnswersGiven) /\ n <= Len(job.items)
      /\ n = Len(saw) + 1 /\ more[n] = a
      /\ DOMAIN more = DOMAIN saw \cup {n} /\ n \notin DOMAIN saw
      /\ \A i \in DOMAIN saw : more[i] = saw[i]
  <2> HIDE DEF more
  <2>1. more = Append(saw, a)
    BY DEF more
  <2>2. ChecksTypeOK
    BY DEF ChecksInv
  <2>3. Len(saw) < Len(job.items) /\ a \in ValidatorChecks!Answers(job.items[Len(saw) + 1])
    BY <1>2
  <2>4. OneMore(more, a)
    BY <2>1, <2>2, <2>3, AnswerMore
  <2> QED BY <2>4 DEF OneMore
<1>4. saw' = more
  BY <1>1
<1> HIDE DEF more
<1>5. ChecksTypeOK'
  BY <1>2, <1>3, <1>4 DEF ChecksTypeOK, ChecksInv
<1>6. ErrorsInv'
  <2> DEFINE fails(i) == ValidatorChecks!Check(job.items[i], more[i]) # "ok"
  <2>1. \A item, b : /\ ValidatorChecks!Check(item, b)' = ValidatorChecks!Check(item, b)
                     /\ ValidatorChecks!Answers(item)' = ValidatorChecks!Answers(item)
    BY <1>2, CheckStays
  <2>2. \A i \in DOMAIN more : more[i] \in ValidatorChecks!Answers(job.items[i])
    BY <1>1, <1>2, <1>3 DEF ChecksInv, ErrorsInv
  <2>3. errs = {i \in DOMAIN saw : fails(i)}
    BY <1>2, <1>3 DEF ChecksInv, ErrorsInv
  <2>4. errs' = errs \cup IF fails(n) THEN {n} ELSE {}
    BY <1>1, <1>3, <1>4 DEF ValidatorChecks!KeepAll
  <2>5. errs' = {i \in DOMAIN more : fails(i)}
    <3> HIDE DEF fails, n
    <3> QED BY <1>3, <2>3, <2>4
  <2> QED BY <1>2, <1>4, <2>1, <2>2, <2>5 DEF ErrorsInv
<1>7. PerformanceInv'
  BY <1>2 DEF PerformanceInv
<1> QED BY <1>5, <1>6, <1>7 DEF ChecksInv

\* So does the verdict on them.
LEMMA ConcludeKeeps ==
    ASSUME ChecksInv, ValidatorChecks!Conclude
    PROVE  ChecksInv'
<1>1. /\ job' = job /\ saw' = saw /\ errs' = errs /\ job.type # "performance"
  BY DEF ValidatorChecks!Conclude
<1>2. ChecksTypeOK' /\ ErrorsInv'
  BY <1>1, TypeStays, ErrorsStay DEF ChecksInv
<1>3. PerformanceInv'
  BY <1>1 DEF PerformanceInv
<1> QED BY <1>2, <1>3 DEF ChecksInv

\* So does the packet that is sent, which is complete.
LEMMA SendKeeps ==
    ASSUME ChecksInv, ValidatorChecks!SendPacketToDatabase
    PROVE  ChecksInv'
<1>1. /\ job' = job /\ saw' = saw /\ errs' = errs /\ results' = results /\ results # <<>>
      /\ verdict' \in {"passed", "failed"} /\ (verdict' = "passed" => recorded')
  BY DEF ValidatorChecks!SendPacketToDatabase
<1>2. ChecksTypeOK' /\ ErrorsInv' /\ (Packed => Packed')
  BY <1>1, TypeStays, ErrorsStay, PackedStays DEF ChecksInv
<1>3. PerformanceInv'
  <2> HIDE DEF Packed
  <2> QED BY <1>1, <1>2 DEF ChecksInv, PerformanceInv
<1> QED BY <1>2, <1>3 DEF ChecksInv

\* So does a metric of a performance test, asked before anything is packed.
LEMMA GetKeeps ==
    ASSUME ValidatorChecks!ChecksAssumption, ChecksInv, ValidatorChecks!GetPerformanceMetrics
    PROVE  ChecksInv'
<1>1. PICK a \in ValidatorChecks!Answers(job.items[Len(saw) + 1]) :
         /\ saw' = Append(saw, a)
         /\ verdict' = IF a.err THEN "failed" ELSE verdict
  BY DEF ValidatorChecks!GetPerformanceMetrics
<1>2. /\ Len(saw) < Len(job.items) /\ job.type = "performance" /\ job' = job
      /\ results' = results /\ verdict = "checking" /\ recorded' = recorded
  BY DEF ValidatorChecks!GetPerformanceMetrics
<1> DEFINE more == Append(saw, a)
           n == Len(more)
<1>3. /\ a \in AnswersGiven /\ more \in Seq(AnswersGiven) /\ n <= Len(job.items)
      /\ n = Len(saw) + 1 /\ more[n] = a
      /\ DOMAIN more = DOMAIN saw \cup {n} /\ n \notin DOMAIN saw
      /\ \A i \in DOMAIN saw : more[i] = saw[i]
  <2> HIDE DEF more
  <2>1. more = Append(saw, a)
    BY DEF more
  <2>2. ChecksTypeOK
    BY DEF ChecksInv
  <2>3. Len(saw) < Len(job.items) /\ a \in ValidatorChecks!Answers(job.items[Len(saw) + 1])
    BY <1>2
  <2>4. OneMore(more, a)
    BY <2>1, <2>2, <2>3, AnswerMore
  <2> QED BY <2>4 DEF OneMore
<1>4. saw' = more
  BY <1>1
<1> HIDE DEF more
<1>5. ChecksTypeOK'
  BY <1>2, <1>3, <1>4 DEF ChecksTypeOK, ChecksInv
<1>6. ErrorsInv'
  BY <1>2 DEF ErrorsInv
<1>7. \A i \in DOMAIN more : more[i].values \in Seq(Points)
  <2>1. a.values \in Seq(Points)
    BY <1>3 DEF AnswersGiven
  <2> QED BY <1>2, <1>3, <2>1 DEF ChecksInv, PerformanceInv
<1>8. results = <<>>
  <2>1. Len(saw) \in Nat /\ Len(job.items) \in Nat
    <3>1. saw \in Seq(AnswersGiven)
      BY DEF ChecksInv, ChecksTypeOK
    <3> QED BY <3>1, JobItems DEF ChecksInv, ChecksTypeOK
  <2>2. ~(Len(saw) = Len(job.items))
    BY <1>2, <2>1
  <2> QED BY <1>2, <2>2 DEF ChecksInv, PerformanceInv, Packed, PackedOf
<1>9. verdict' \in {"checking", "failed"}
  BY <1>1, <1>2
<1>10. PerformanceInv'
  <2> HIDE DEF Packed
  <2> QED BY <1>2, <1>4, <1>7, <1>8, <1>9 DEF PerformanceInv
<1> QED BY <1>5, <1>6, <1>10 DEF ChecksInv

\* So do the statistics, packed if all can be taken.
LEMMA CalculateKeeps ==
    ASSUME ChecksInv, ValidatorChecks!Calculate
    PROVE  ChecksInv'
<1> DEFINE bad == {i \in DOMAIN saw : ~ValidatorChecks!NoneNegative(ValidatorChecks!Converted(i))}
           single == {i \in DOMAIN saw : Len(saw[i].values) = 1}
           packed == [n \in {ValidatorChecks!LastWord(job.items[i].name) : i \in DOMAIN saw} |->
                        ValidatorChecks!Stats(ValidatorChecks!Converted(
                            ValidatorChecks!Max({i \in DOMAIN saw :
                                ValidatorChecks!LastWord(job.items[i].name) = n})))]
<1>1. /\ job' = job /\ saw' = saw /\ errs' = errs /\ recorded' = recorded
      /\ job.type = "performance" /\ results = <<>> /\ verdict = "checking"
      /\ Len(saw) = Len(job.items)
  BY DEF ValidatorChecks!Calculate, ValidatorChecks!Asked
<1>2. \/ bad \cup single = {} /\ results' = packed /\ verdict' = verdict
      \/ verdict' \in {"failed", "panic"} /\ results' = results
  BY DEF ValidatorChecks!Calculate
<1>3. ChecksTypeOK' /\ ErrorsInv'
  BY <1>1, TypeStays, ErrorsStay DEF ChecksInv
<1>4. CASE bad \cup single = {} /\ results' = packed /\ verdict' = verdict
  <2>1. \A i \in DOMAIN saw :
           ValidatorChecks!NoneNegative(ValidatorChecks!Converted(i)) /\ Len(saw[i].values) # 1
    BY <1>4
  <2>2. PackedOf(job, saw, packed)
    <3>1. PackedAs(packed)
      BY <1>1, <2>1 DEF PackedAs
    <3> HIDE DEF packed
    <3> QED BY <3>1, PackedIs
  <2>3. PackedOf(job', saw', results')
    <3> HIDE DEF packed
    <3> QED BY <1>1, <1>4, <2>2
  <2>4. Packed'
    BY <2>3 DEF Packed
  <2>5. PerformanceInv'
    <3> HIDE DEF Packed
    <3> QED BY <1>1, <1>4, <2>4 DEF ChecksInv, PerformanceInv
  <2> QED BY <1>3, <2>5 DEF ChecksInv
<1>5. CASE verdict' \in {"failed", "panic"} /\ results' = results
  <2>1. PerformanceInv'
    <3> HIDE DEF Packed
    <3> QED BY <1>1, <1>5 DEF ChecksInv, PerformanceInv
  <2> QED BY <1>3, <2>1 DEF ChecksInv
<1> QED BY <1>2, <1>4, <1>5

\* Every step of a round of checks keeps the invariant.
LEMMA StepChecks ==
    ASSUME ValidatorChecks!ChecksAssumption, ChecksInv, ValidatorChecks!Next
    PROVE  ChecksInv'
BY AskKeeps, ConcludeKeeps, GetKeeps, CalculateKeeps, SendKeeps DEF ValidatorChecks!Next

-------------------------------------------------------------------------------
\* The invariant of the helper that runs.
HInv ==
    /\ helper = "log events" => FeedInv
    /\ helper = "node log" => NodeLogInv
    /\ helper = "checks" => ChecksInv
    /\ helper = "loop" => PollsInv
    /\ helper = "client" => ClientP!IInv
    /\ helper = "gate" => EnrichmentGate!IInv
    /\ helper = "sender" => SendersP!SInv

\* Whatever runs starts in its invariant.
LEMMA InitHInv == ASSUME HelpersAssumption, Init PROVE HInv
<1>1. helper = "loop" => PollsInv
  <2> SUFFICES ASSUME helper = "loop" PROVE PollsInv
    OBVIOUS
  <2>1. Polls!PollsInit /\ Polls!PollsAssumption
    BY DEF Init, HelpersAssumption
  <2> QED BY <2>1, InitPollsInv
<1>2. helper = "client" => ClientP!IInv
  <2> SUFFICES ASSUME helper = "client" PROVE ClientP!IInv
    OBVIOUS
  <2>1. ClientP!Init /\ ClientP!ClientAssumption
    BY SameClient DEF Init, HelpersAssumption
  <2> QED BY <2>1, ClientP!InitIInv
<1>3. helper = "gate" => EnrichmentGate!IInv
  BY GateInit DEF Init
<1>4. helper = "sender" => SendersP!SInv
  <2> SUFFICES ASSUME helper = "sender" PROVE SendersP!SInv
    OBVIOUS
  <2>1. SendersP!LsInit /\ SendersP!SendersAssumption
    BY SameSenders DEF Init, HelpersAssumption
  <2> QED BY <2>1, SendersP!InitSInv
<1>5. helper = "log events" => FeedInv
  BY InitFeed DEF Init
<1>6. helper = "node log" => NodeLogInv
  BY InitNodeLog DEF Init
<1>7. helper = "checks" => ChecksInv
  BY InitChecks DEF Init
<1> QED BY <1>1, <1>2, <1>3, <1>4, <1>5, <1>6, <1>7 DEF HInv

\* And keeps it.
LEMMA StepHInv == ASSUME HelpersAssumption, HInv, [Next]_helperVars PROVE HInv'
<1>1. helper' = helper
  BY DEF Next, helperVars, RunLogEvents, RunNodeLog, RunChecks, RunLoop, RunClient, RunGate,
         RunSender
<1>2. ASSUME helper = "loop" PROVE PollsInv'
  <2>1. Polls!PollsNext \/ UNCHANGED <<loopVars, now>>
    BY <1>2 DEF Next, helperVars, RunLogEvents, RunNodeLog, RunChecks, RunLoop, RunClient,
                RunGate, RunSender
  <2> QED BY <1>2, <2>1, LoopStep DEF HInv
<1>3. ASSUME helper = "client" PROVE ClientP!IInv'
  <2>1. OtelClient!Next \/ UNCHANGED clientVars
    BY <1>3 DEF Next, helperVars, RunLogEvents, RunNodeLog, RunChecks, RunLoop, RunClient,
                RunGate, RunSender
  <2> QED BY <1>3, <2>1, ClientStep DEF HInv
<1>4. ASSUME helper = "gate" PROVE EnrichmentGate!IInv'
  <2>1. EnrichmentGate!Next \/ UNCHANGED <<now, gateVars>>
    BY <1>4 DEF Next, helperVars, RunLogEvents, RunNodeLog, RunChecks, RunLoop, RunClient,
                RunGate, RunSender
  <2> QED BY <1>4, <2>1, GateStep, GateStutter DEF HInv
<1>5. ASSUME helper = "sender" PROVE SendersP!SInv'
  <2>1. LoadSenders!LsNext \/ UNCHANGED senderVars
    BY <1>5 DEF Next, helperVars, RunLogEvents, RunNodeLog, RunChecks, RunLoop, RunClient,
                RunGate, RunSender
  <2> QED BY <1>5, <2>1, SenderStep DEF HInv
<1>6. ASSUME helper = "log events" PROVE FeedInv'
  <2>1. LogEventsFeed!Next \/ UNCHANGED events
    BY <1>6 DEF Next, helperVars, RunLogEvents, RunNodeLog, RunChecks, RunLoop, RunClient,
                RunGate, RunSender
  <2> QED BY <1>6, <2>1, StepFeed DEF HInv
<1>7. ASSUME helper = "node log" PROVE NodeLogInv'
  <2>1. ContainerInsights!CiNext \/ UNCHANGED events
    BY <1>7 DEF Next, helperVars, RunLogEvents, RunNodeLog, RunChecks, RunLoop, RunClient,
                RunGate, RunSender
  <2>2. ContainerInsights!CiAssumption
    BY DEF HelpersAssumption
  <2> QED BY <1>7, <2>1, <2>2, StepNodeLog DEF HInv
<1>8. ASSUME helper = "checks" PROVE ChecksInv'
  <2>1. ValidatorChecks!Next \/ UNCHANGED checkVars
    BY <1>8 DEF Next, helperVars, RunLogEvents, RunNodeLog, RunChecks, RunLoop, RunClient,
                RunGate, RunSender
  <2>2. ValidatorChecks!ChecksAssumption /\ ChecksInv
    BY <1>8 DEF HelpersAssumption, HInv
  <2>3. UNCHANGED checkVars => UNCHANGED ValidatorChecks!checkVars
    BY DEF checkVars, ValidatorChecks!checkVars
  <2> QED BY <2>1, <2>2, <2>3, StepChecks, StutterChecks
<1> QED BY <1>1, <1>2, <1>3, <1>4, <1>5, <1>6, <1>7, <1>8 DEF HInv

\* So the invariant of the helper that runs holds throughout.
LEMMA Invariant == Spec => []HInv
<1>1. Init => HInv
  BY InitHInv, HelpersAssumption
<1>2. HInv /\ [Next]_helperVars => HInv'
  BY StepHInv, HelpersAssumption
<1> QED BY <1>1, <1>2, PTL DEF Spec

-------------------------------------------------------------------------------
(* The theorems.                                                           *)

\* A query of CloudWatch and the assertion it serves keep their types.
THEOREM TypeCorrect == Spec => []TypeOK
<1>1. HInv => TypeOK
  BY SameClient, ClientP!InvTypes DEF HInv, TypeOK
<1> QED BY <1>1, Invariant, PTL

\* Nobody gives up before the looks and the time are spent that the loop says it
\* takes, for any number of retries and minutes, and AssertMetricsPresent not
\* before it has asked for a missing metric in every round.
THEOREM GaveUpPatientlyHolds == Spec => []GaveUpPatiently
<1>1. ASSUME PollsInv PROVE Polls!GaveUpPatiently
  BY <1>1 DEF PollsInv
<1>2. ASSUME ClientP!IInv PROVE OtelClient!MissingHadItsChances
  <2>1. ClientP!ClientAssumption
    BY SameClient, HelpersAssumption DEF HelpersAssumption
  <2> QED BY <1>2, <2>1, SameClient, ClientP!InvMissing
<1>3. HInv => GaveUpPatiently
  BY <1>1, <1>2 DEF HInv, GaveUpPatiently
<1> QED BY <1>3, Invariant, PTL

\* And nobody takes longer: a loop that waits, a query of maxRetries requests of
\* Timeout seconds with its sleeps, a cancelled query, the sender of a round.  The
\* wait for the OTLP endpoint is in this but for the time that a request hangs,
\* which nothing bounds (otlp.go:26).
THEOREM WaitsAreBoundedHolds == Spec => []WaitsAreBounded
<1>1. ASSUME PollsInv PROVE Polls!EndsInTime
  BY <1>1 DEF PollsInv
<1>2. ASSUME ClientP!IInv PROVE OtelClient!QueryIsBounded /\ OtelClient!CancelIsBounded
  BY <1>2, SameClient, ClientP!InvTime
<1>3. ASSUME SendersP!SInv PROVE LoadSenders!SenderEndsInTime
  <2>1. SendersP!SendersAssumption
    BY SameSenders, HelpersAssumption DEF HelpersAssumption
  <2> QED BY <1>3, <2>1, SameSenders, SendersP!SInvImplies
<1>4. HInv => WaitsAreBounded
  BY <1>1, <1>2, <1>3 DEF HInv, WaitsAreBounded
<1> QED BY <1>4, Invariant, PTL

\* AssertMetricsPresent answers yes only if every metric exists, and every node
\* that the gate saw enriched is enriched in the answer the tests share, for any
\* set of nodes and tests (waitForKSMNodeEnrichment before the cache).
THEOREM SeenIsThereHolds == Spec => []SeenIsThere
<1>1. ASSUME ClientP!IInv PROVE OtelClient!PresentIsTrue
  BY <1>1, SameClient, ClientP!InvPresent
<1>2. ASSUME EnrichmentGate!IInv PROVE EnrichmentGate!SeenNodesStayWarm
  BY <1>2 DEF EnrichmentGate!IInv
<1>3. HInv => SeenIsThere
  BY <1>1, <1>2 DEF HInv, SeenIsThere
<1> QED BY <1>3, Invariant, PTL

\* The load is steady to the end of the round, and a sender of logs that returns
\* no error has written its first lines, for any intervals, rounds and hold-ups
\* (the sending loops of metrics.go, logs.go and otlp.go).  Of the other senders
\* no error says nothing of what got lost.
THEOREM LoadIsSteadyHolds == Spec => []LoadIsSteady
<1>1. ASSUME SendersP!SInv PROVE LoadSenders!LoadIsSteady /\ LoadSenders!NilIsNoLoss
  <2>1. SendersP!SendersAssumption
    BY SameSenders, HelpersAssumption DEF HelpersAssumption
  <2> QED BY <1>1, <2>1, SameSenders, SendersP!SInvImplies
<1>2. HInv => LoadIsSteady
  BY <1>1 DEF HInv, LoadIsSteady
<1> QED BY <1>2, Invariant, PTL

\* What the assertions on log events and the checks of a node's log report is so,
\* for streams of any length, whatever the numbers and however many the cores
\* (AssertNoMissingLogs, ValidateLogsFrequency, GetNeuronCoreUtilizationPerCore).
THEOREM LogChecksExactHolds == Spec => []LogChecksExact
<1>1. ASSUME FeedInv PROVE LogEventsFeed!ReportedIsGap /\ LogEventsFeed!GapsExact
  BY <1>1, FeedExact, HelpersAssumption DEF HelpersAssumption
<1>2. ASSUME NodeLogInv
      PROVE  ContainerInsights!FrequencyIsExact /\ ContainerInsights!CoresAreExact
  BY <1>2, FrequenciesExact, CoresExact, HelpersAssumption DEF HelpersAssumption
<1>3. HInv => LogChecksExact
  BY <1>1, <1>2 DEF HInv, LogChecksExact
<1> QED BY <1>3, Invariant, PTL

\* The error of a round of checks names every metric and log that the checks'
\* comments would have failed, but for the two that the code lets pass (half of
\* the Windows events, a stress value that is too low), and nothing that is good,
\* for every test of the parameters and whatever is answered, whatever the number
\* of samples and the slack (CheckData and its tables).
THEOREM ErrorsExactHolds == Spec => []ErrorsExact
<1>1. ASSUME ChecksInv PROVE ValidatorChecks!ErrorsExact
  BY <1>1, ErrorsFromInv, HelpersAssumption DEF HelpersAssumption
<1>2. HInv => ErrorsExact
  BY <1>1 DEF HInv, ErrorsExact
<1> QED BY <1>2, Invariant, PTL

\* A performance test that passed has recorded statistics of every one of its
\* metrics, each of its own values and in order, however many values there are
\* (CalculateMetricStatsAndPackMetrics and its Windows twin).
THEOREM PacketCompleteHolds == Spec => []PacketComplete
<1>1. ASSUME ChecksInv PROVE ValidatorChecks!PacketComplete
  BY <1>1, PacketFromInv, HelpersAssumption DEF HelpersAssumption, ChecksInv
<1>2. HInv => PacketComplete
  BY <1>1 DEF HInv, PacketComplete
<1> QED BY <1>2, Invariant, PTL

===============================================================================
