------------------------------ MODULE LoadSenders ------------------------------
(***************************************************************************)
(* The goroutines that generate the load of a validator's round, one batch *)
(* of metrics, log lines or traces after the other until the round is over *)
(* (util/common/metrics.go, logs.go, otlp.go).  One of them runs.  Time is *)
(* in units of five seconds; the agent that receives is external.          *)
(***************************************************************************)
EXTENDS Naturals, FiniteSets, SequencesExt

CONSTANTS
    Interval,      \* sendingInterval
    Minute,        \* the ticker of SendEMFMetrics, whatever sendingInterval is
    Duration,      \* agentCollectionPeriod
    Slow,          \* how long the agent may hold a batch up
    MaxHolds, MaxFaults    \* how often it does, and how often a batch gets lost

VARIABLES
    sender,      \* the one that runs
    at,          \* what it does: batch, pause, select, asleep, or how it ended
    clock,       \* units since it began
    took,        \* when it received from its ticker last
    started,     \* when each batch started
    lost,        \* when the batches started of which something did not reach the agent
    holds        \* history: how many batches were held up, how long at most and in all

senderVars == <<sender, at, clock, took, started, lost, holds>>

\* Of each sender: its period, the pause after the first batch, of which batches
\* it looks at errors, which end it, whether these tell of every loss, and how it
\* waits: on ticker and timer together, on the ticker only with a look at the
\* deadline before, or for a fixed time, so many times.
Row(period, pause, fatal, tells, wait) ==
    [period |-> period, pause |-> pause, fatal |-> fatal, tells |-> tells, wait |-> wait]

\* A line goes to a file.  The client of statsd sends later, from a goroutine of its
\* own; the error of a collectd gauge is discarded, that of a counter ignored if
\* the buffer had no space; a post has no error if the agent answers with a status
\* that tells of one, or if it is the first of app signals' two.
statsd == Row(Interval, 0, "first", FALSE, "select")
logs == Row(Interval, 0, "first", TRUE, "select")
emf == Row(Minute, 0, "none", FALSE, "select")
collectd == Row(Interval, 6, "all", FALSE, "select")
otlp == Row(Interval, 0, "none", FALSE, "deadline")
traces == Row(1, 0, "all", FALSE, "count")
app_signals == Row(1, 0, "all", FALSE, "count")

Senders == [statsd |-> statsd, logs |-> logs, emf |-> emf, collectd |-> collectd,
            otlp |-> otlp, traces |-> traces, app_signals |-> app_signals]

\* The round is longer than the 30 seconds for which collectd pauses.
SendersAssumption ==
    /\ Interval \in Nat \ {0} /\ Minute \in Nat \ {0}
    /\ Duration \in Nat \ {0} /\ collectd.pause <= Duration
    /\ Slow \subseteq Nat

S == Senders[sender]
Batches == Len(started)

LsInit ==
    /\ sender \in DOMAIN Senders
    /\ at = "batch" /\ clock = 0 /\ took = 0 /\ started = <<>> /\ lost = {}
    /\ holds = [count |-> 0, longest |-> 0, total |-> 0]

HeldUp(d) ==
    [count |-> holds.count + 1, total |-> holds.total + d,
     longest |-> IF d > holds.longest THEN d ELSE holds.longest]

\* Slip: the errors of the first batch are not looked at either.
LooksLater(n) == S.fatal = "all" \/ (S.fatal = "first" /\ n > 1)

Looks(n) == S.fatal = "all" \/ (S.fatal = "first" /\ n = 1)

\* After a batch: the end for its error or for the deadline, the pause of
\* collectd, the next wait.
After(n, error, now) ==
    IF error THEN "failed"
    ELSE IF S.wait = "deadline" /\ now >= Duration THEN "ended"
    ELSE IF n = 1 /\ S.pause > 0 THEN "pause"
    ELSE IF S.wait = "count" THEN "asleep"
    ELSE "select"

\* A batch, which may be held up, and of which something may get lost, with an
\* error that the sender looks at or without: a file of app signals that cannot
\* be read is one of those without.
Batch ==
    /\ at = "batch"
    /\ \E d \in Slow, fault, error \in BOOLEAN :
          /\ d > 0 => holds.count < MaxHolds
          /\ fault => Cardinality(lost) < MaxFaults
          /\ error => fault /\ Looks(Batches + 1)
          /\ fault /\ Looks(Batches + 1) /\ S.tells => error
          /\ started' = Append(started, clock)
          /\ lost' = IF fault THEN lost \cup {clock} ELSE lost
          /\ clock' = clock + d
          /\ holds' = IF d > 0 THEN HeldUp(d) ELSE holds
          /\ at' = After(Batches + 1, error, clock')
    /\ UNCHANGED <<sender, took>>

\* The socket, or the file of the log, cannot be had.
DialFails ==
    /\ at = "batch" /\ Batches = 0 /\ sender \in {"statsd", "collectd", "emf", "logs"}
    /\ at' = "failed"
    /\ UNCHANGED <<sender, clock, took, started, lost, holds>>

\* The 30 seconds before collectd flushes its first batch, which may fail.
Pause ==
    /\ at = "pause"
    /\ clock' = clock + S.pause
    /\ \/ at' = "select" /\ UNCHANGED lost
       \/ at' = "failed" /\ lost' = lost \cup {started[1]}
    /\ UNCHANGED <<sender, took, started, holds>>

\* Slip: no tick is ever dropped.
NextTickQueued == Batches * S.period

\* A ticker keeps one tick and drops the others until that is received.
NextTick == ((took \div S.period) + 1) * S.period

TickReady == clock >= NextTick

\* Slip: time.After in the loop begins anew with every tick.
TimedOutAnew == S.wait = "select" /\ clock >= took + Duration

TimedOut == S.wait = "select" /\ clock >= Duration

\* select: of what is ready any one, at random.
Tick ==
    /\ at = "select" /\ TickReady
    /\ took' = clock
    /\ at' = "batch"
    /\ UNCHANGED <<sender, clock, started, lost, holds>>

TimeUp ==
    /\ at = "select" /\ TimedOut
    /\ at' = "ended"
    /\ UNCHANGED <<sender, clock, took, started, lost, holds>>

\* Neither is ready: time passes to the first that is.
Wait ==
    /\ at = "select" /\ ~TickReady /\ ~TimedOut
    /\ clock' = Min({t \in {NextTick} \cup (IF S.wait = "select" THEN {Duration} ELSE {}) : t > clock})
    /\ UNCHANGED <<sender, at, took, started, lost, holds>>

\* SendAppSignalMetrics and SendAppSignalsTraceMetrics count their batches, and
\* look at no clock.
Sleep ==
    /\ at = "asleep"
    /\ clock' = clock + S.period
    /\ at' = IF Batches = Duration THEN "ended" ELSE "batch"
    /\ UNCHANGED <<sender, took, started, lost, holds>>

LsNext == DialFails \/ Batch \/ Pause \/ Tick \/ TimeUp \/ Wait \/ Sleep

LsSpec == LsInit /\ [][LsNext]_senderVars

-------------------------------------------------------------------------------
(* Properties                                                              *)

held == holds.longest

\* While no batch is held up for a whole period a batch starts in each period of
\* the round, and in none two, but for the one that select may let start as the
\* round ends, and for collectd the periods that it pauses through and the one
\* that the end of the round cuts short, as it is behind its ticks.
LoadIsSteady ==
    at = "ended" /\ S.wait # "count" /\ held < S.period =>
        \A k \in 0 .. (Duration \div S.period) :
            LET from == k * S.period
                begun == {i \in DOMAIN started : started[i] \in from .. from + S.period - 1}
            IN  /\ \A i, j \in begun : i = j
                /\ begun = {} =>
                      \/ from >= Duration
                      \/ S.pause > 0 /\ (from + S.period <= held + S.pause \/ from + S.period > Duration)

\* The pause of collectd puts it behind its ticks.  It makes up for a unit each
\* period, and the round has to be long enough for that.
CaughtUp == S.pause = 0 \/ Duration >= S.pause + ((S.period - 1) * S.period)

\* A sender ends as much after the round as its batches were held up in all, for
\* one that looks at its deadline before it waits for a tick a period more.  If
\* none was held up for a whole period it is one batch.
SenderEndsInTime ==
    LET wait == IF S.wait = "deadline" THEN S.period ELSE 0
    IN  /\ clock <= Duration + holds.total + wait
        /\ S.wait # "count" /\ held < S.period /\ CaughtUp => clock <= Duration + held + wait

\* What it is worth that a sender returns without an error: only of the logs that
\* anything was handed over, and only of their first lines.
NilIsNoLoss == at = "ended" /\ sender = "logs" => started[1] \notin lost

===============================================================================
