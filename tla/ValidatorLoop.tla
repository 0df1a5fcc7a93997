----------------------------- MODULE ValidatorLoop -----------------------------
(***************************************************************************)
(* The validator binary (validator/main.go): up to StandardRetries rounds, *)
(* each of which waits for the next full minute, sends load through the    *)
(* agent for one collection period, waits for CloudWatch, and judges what  *)
(* is there for that window.  The senders are goroutines that nobody joins *)
(* and whose errors are mostly lost, so the rounds are kept apart by their *)
(* sleeps alone.                                                           *)
(*                                                                         *)
(* Time is explicit: Tick passes when nothing is due.  The unit is half a  *)
(* minute.                                                                 *)
(***************************************************************************)
EXTENDS Integers, FiniteSets

CONSTANTS
    StandardRetries,
    Minute,        \* 60 s: window alignment, and the interval of every sender
    Settle,        \* 120 s for CloudWatch to process the metrics
    Pause,         \* 60 s after a round that failed
    Shutdown,      \* AGENT_SHUTDOWN_DELAY, rounded up
    ShortPeriod,   \* agent_collection_period of the feature tests
    LongPeriod,    \* and of the stress and performance tests
    Lag            \* a sender takes less than a minute to get going

ASSUME LoopAssumption ==
    /\ StandardRetries \in Nat \ {0} /\ Minute \in Nat \ {0}
    /\ {Settle, Pause, Shutdown, Lag} \subseteq Nat /\ Lag < Minute
    /\ {ShortPeriod, LongPeriod} \subseteq {k * Minute : k \in 1 .. 10}
    \* The parameters.yml of the feature tests: 60 s, as long as the pause.
    /\ ShortPeriod <= Pause /\ ShortPeriod <= LongPeriod

VARIABLES
    now,
    suite,     \* the loads of this validator configuration
    round,     \* i of validate, from 1
    pc,        \* where validate and LaunchValidator are
    wake,      \* when the current sleep ends
    start,     \* startTimeValidation
    senders,   \* goroutines that send load
    points,    \* what reached the agent and can fall in a window to come
    file,      \* the monitored log file: the round that created it, or 0
    hurt       \* history: something outside the validator failed this round

vars == <<now, suite, round, pc, wake, start, senders, points, file, hurt>>

Loads == {"logs", "metrics", "traces"}
\* A feature test sends logs and metrics; the others one type of data each.
Feature == {"logs", "metrics"}
Suites == {Feature} \cup {{l} : l \in Loads}
Period == IF suite = Feature THEN ShortPeriod ELSE LongPeriod

Horizon == Minute + StandardRetries *
              (Minute + 2 * LongPeriod + Shutdown + Settle + Pause)

TypeOK ==
    /\ now \in 0 .. Horizon /\ wake \in 0 .. Horizon /\ start \in 0 .. Horizon
    /\ suite \in Suites
    /\ round \in 1 .. StandardRetries
    /\ pc \in {"aligning", "blocked", "running", "settling", "pausing",
               "passed", "failed", "fatal"}
    /\ \A s \in senders : s.round \in 1 .. round /\ s.load \in suite
    /\ \A p \in points : p.round \in 1 .. round /\ p.load \in suite
    /\ file \in 0 .. round
    /\ hurt \in BOOLEAN

\* time.Now().Truncate(time.Minute), which CloudWatch does to a window too.
Truncate(t) == t - (t % Minute)

NextMinute(t) == Truncate(t) + Minute

Init ==
    /\ now \in 0 .. Minute - 1
    /\ suite \in Suites
    /\ round = 1
    /\ pc = "aligning" /\ start = NextMinute(now) /\ wake = start
    /\ senders = {} /\ points = {} /\ file = 0 /\ hurt = FALSE

-------------------------------------------------------------------------------
(* The senders: StartSendingMetrics, StartLogWrite, GenerateTraces.        *)

Started(s) == s.next > s.first

\* A first batch, and one per tick; the log writer creates its file first.
Send(s) ==
    /\ s.next = now /\ s.next <= s.stop
    /\ points' = points \cup {[round |-> s.round, load |-> s.load, at |-> now]}
    /\ senders' = (senders \ {s}) \cup {[s EXCEPT !.next = now + Minute]}
    /\ file' = IF s.load = "logs" /\ ~Started(s) THEN s.round ELSE file
    /\ UNCHANGED <<now, suite, round, pc, wake, start, hurt>>

\* Slip: break leaves the select, not the loop.
FinishNever(s) ==
    /\ Started(s) /\ s.stop = now
    /\ senders' = (senders \ {s}) \cup {[s EXCEPT !.stop = now + Period]}
    /\ file' = IF s.load = "logs" THEN 0 ELSE file
    /\ UNCHANGED <<now, suite, round, pc, wake, start, points, hurt>>

\* Time is up (at a tick both arms of the select are ready), or a write has
\* failed and the error is lost; the log writer removes its file.
Finish(s) ==
    /\ Started(s)
    /\ senders' = senders \ {s}
    /\ file' = IF s.load = "logs" THEN 0 ELSE file
    /\ \/ s.stop = now /\ UNCHANGED hurt
       \/ s.stop > now /\ hurt' = (hurt \/ s.round = round)
    /\ UNCHANGED <<now, suite, round, pc, wake, start, points>>

-------------------------------------------------------------------------------
(* LaunchValidator.                                                        *)

Sleep(where, t) == pc' = where /\ wake' = now + t

Due(where) == pc = where /\ wake = now

\* The senders of this round that get going, and how soon.  The tracer waits
\* for a first tick, and is stopped by GenerateTraces rather than a timer.
Launched(delay) ==
    LET first(l) == now + delay[l] + IF l = "traces" THEN Minute ELSE 0
        stop(l) == now + Period + IF l = "traces" THEN 0 ELSE delay[l]
    IN  {[round |-> round, load |-> l, next |-> first(l),
          first |-> first(l), stop |-> stop(l)] : l \in DOMAIN delay}

\* The senders are dispatched and some never start.  Their error is returned
\* if it is there before the goroutine is off: an unreadable configuration, a
\* dial that failed at once, or, of a feature test, a Windows event.  The
\* other senders go on all the same.
GenerateLoad ==
    /\ Due("aligning")
    /\ "traces" \notin suite
    /\ \E up \in SUBSET suite, err \in BOOLEAN : \E delay \in [up -> 0 .. Lag] :
          /\ err => up # suite \/ suite = Feature
          /\ senders' = senders \cup Launched(delay)
          /\ hurt' = (err \/ up # suite)
          /\ IF err THEN Sleep("pausing", Pause) ELSE Sleep("running", Period)
    /\ UNCHANGED <<now, suite, round, start, points, file>>

\* GenerateTraces returns when its load is over; without its sampling rules
\* the process exits.
GenerateTraces ==
    /\ Due("aligning")
    /\ "traces" \in suite
    /\ \/ /\ \E delay \in [suite -> 0 .. Lag] : senders' = senders \cup Launched(delay)
          /\ Sleep("blocked", Period + Shutdown)
       \/ pc' = "fatal" /\ UNCHANGED <<senders, wake>>
    /\ hurt' = FALSE
    /\ UNCHANGED <<now, suite, round, start, points, file>>

Unblock ==
    /\ Due("blocked")
    /\ Sleep("running", Period)
    /\ UNCHANGED <<now, suite, round, start, senders, points, file, hurt>>

SleepPeriod ==
    /\ Due("running")
    /\ Sleep("settling", Settle)
    /\ UNCHANGED <<now, suite, round, start, senders, points, file, hurt>>

-------------------------------------------------------------------------------
(* CheckData over [startTimeValidation, endTimeValidation), and Cleanup.   *)

\* Slip: the window ends when the data is looked at.
WindowUntilNow == {p \in points : p.at >= Truncate(start) /\ p.at < Truncate(now)}

Window == {p \in points : /\ p.at >= Truncate(start)
                          /\ p.at < Truncate(start + Period)}

Of(load, seen) == {p \in seen : p.load = load}

\* metric_sample_count of the feature tests: a sample a minute.
Samples == ShortPeriod \div Minute

\* ValidateMetric wants the exact sample count, ValidateLogs a minimum.
MetricsOK(seen) == Cardinality(Of("metrics", seen)) = Samples
LogsOK(seen) == Cardinality(Of("logs", seen)) >= Samples

\* Slip: each check overwrites the error of the one before.
LastOK(seen) == LogsOK(seen)

\* Errors accumulate: every metric, then every log.
AllOK(seen) == MetricsOK(seen) /\ LogsOK(seen)

\* What CloudWatch shows of the window is anything up to what was sent, and a
\* call may fail.  Stress and performance tests judge the agent's own
\* resources instead, which the load does not determine.
CheckData ==
    /\ Due("settling")
    /\ \E seen \in SUBSET Window, api \in BOOLEAN, bound \in BOOLEAN :
          LET ok == api /\ IF suite = Feature THEN bound /\ AllOK(seen) ELSE bound
          IN  /\ hurt' = (hurt \/ ~api \/ ~bound \/ seen # Window)
              /\ IF ok THEN pc' = "passed" /\ UNCHANGED wake
                       ELSE Sleep("pausing", Pause)
    /\ UNCHANGED <<now, suite, round, start, senders, points, file>>

-------------------------------------------------------------------------------
(* validate.                                                               *)

\* The next round looks at its own window only: older points are dropped.
Relaunch(r) ==
    /\ round' = r
    /\ start' = NextMinute(now) /\ wake' = start' /\ pc' = "aligning"
    /\ points' = {p \in points : p.at >= Truncate(start')}
    /\ UNCHANGED <<now, suite, senders, file, hurt>>

\* Slips: no pause between rounds; one round too many; rounds not counted.
RetryAtOnce == pc = "pausing" /\ round < StandardRetries /\ Relaunch(round + 1)
RetryOneMore == Due("pausing") /\ round <= StandardRetries /\ Relaunch(round + 1)
RetryUncounted == Due("pausing") /\ round < StandardRetries /\ Relaunch(round)

Retry == Due("pausing") /\ round < StandardRetries /\ Relaunch(round + 1)

GiveUp ==
    /\ Due("pausing")
    /\ round = StandardRetries
    /\ pc' = "failed"
    /\ UNCHANGED <<now, suite, round, wake, start, senders, points, file, hurt>>

Ended == pc \in {"passed", "failed", "fatal"}

Tick ==
    /\ ~Ended
    /\ wake > now
    /\ \A s \in senders : s.next > now /\ s.stop > now
    /\ now' = now + 1
    /\ UNCHANGED <<suite, round, pc, wake, start, senders, points, file, hurt>>

\* The process has exited, and its senders with it.
Terminated == Ended /\ UNCHANGED vars

Next ==
    \/ GenerateLoad \/ GenerateTraces \/ Unblock \/ SleepPeriod \/ CheckData
    \/ Retry \/ GiveUp
    \/ ~Ended /\ \E s \in senders : Send(s) \/ Finish(s)
    \/ Tick \/ Terminated

Spec == Init /\ [][Next]_vars

-------------------------------------------------------------------------------
(* Properties                                                              *)

\* A round is judged by its own load: nothing an earlier round's senders,
\* which nobody stops, left behind falls in its window (LaunchValidator,
\* validate).
WindowPure ==
    ~Ended => \A p \in Window : p.round = round

\* A log writer that is still at it has its file: no writer of an earlier
\* round truncates it or removes it on its way out (writeToLogs).
FileIntact ==
    ~Ended => \A s \in senders : s.load = "logs" /\ Started(s) => file = s.round

\* With no fault outside the validator a feature test passes in its first
\* round: the exact sample count is there, neither short nor over.
HealthyPasses ==
    suite = Feature /\ pc = "pausing" => hurt

\* A feature test that passed had the load of that very round in the window,
\* of every kind it checks, whatever the earlier rounds and lost errors did.
PassIsEarned ==
    suite = Feature /\ pc = "passed" =>
        \A l \in suite :
            Cardinality({p \in Window : p.round = round /\ p.load = l}) >= Samples

\* From the start of a round to the end of its last sleep.
RoundTime ==
    (IF "traces" \in suite THEN 2 * Period + Shutdown ELSE Period) + Settle + Pause

\* The validator ends in the time its sleeps add up to.
OnTime ==
    now <= Minute + StandardRetries * (Minute + RoundTime)

-------------------------------------------------------------------------------
(* The inductive invariant.                                                *)

\* When a round starts at the latest.
StartBy(r) == Minute + (r - 1) * (Minute + RoundTime)

\* A phase ends a fixed time after the start of its round, and no sleep is
\* overslept.  A round that could not generate its load pauses at once, and
\* then only a feature test has senders under way.
Schedule ==
    /\ start = Truncate(start) /\ start <= StartBy(round)
    /\ now <= wake /\ wake <= start + RoundTime
    /\ pc # "aligning" => start <= now
    /\ pc = "aligning" => wake = start
    /\ pc = "blocked" => "traces" \in suite /\ wake = start + Period + Shutdown
    /\ pc = "running" => wake = start + RoundTime - Settle - Pause
    /\ pc = "settling" => wake = start + RoundTime - Pause
    /\ pc = "pausing" => \/ wake = start + RoundTime
                         \/ wake = start + Pause /\ (suite = Feature \/ senders = {})

SenderRecords ==
    [round : Nat, load : Loads, next : Nat, first : Nat, stop : Nat]

\* All senders are of one round, one of each load.  Those of a round before are
\* over before this one starts.
SendersApart ==
    /\ senders \subseteq SenderRecords
    /\ \A s \in senders :
          /\ now <= s.next /\ now <= s.stop /\ s.first <= s.next
          /\ s.round = round => /\ pc # "aligning" /\ start <= s.first
                               /\ s.stop <= start + Period + Lag
          /\ s.round # round => s.stop < start
    /\ \A s, t \in senders : s.round = t.round /\ (s.load = t.load => s = t)

\* What an earlier round left reached the agent before this one started.
PointsApart ==
    /\ IsFiniteSet(points) /\ points \subseteq [round : Nat, load : Loads, at : Nat]
    /\ \A p \in points : p.at <= now /\ (p.round = round \/ p.at < start)

\* A log writer has its file from its first batch on.
OwnFile == \A s \in senders : s.load = "logs" /\ Started(s) => file = s.round

IInv == TypeOK /\ Schedule /\ SendersApart /\ PointsApart /\ OwnFile

\* What one kind of load has sent this round, and n batches sent a minute apart.
Sent(l) == {p \in points : p.round = round /\ p.load = l}
Batches(l, f, n) == {[round |-> round, load |-> l, at |-> f + k * Minute] : k \in 0 .. n - 1}

\* In a round that nothing has disturbed each sender of a feature test has sent a
\* batch a minute from f on, and is still at it or was for all of its period.
Steady ==
    suite = Feature /\ ~hurt /\ pc \in {"running", "settling"} =>
        \A l \in Feature : \E f \in start .. start + Lag, n \in Nat :
            /\ Sent(l) = Batches(l, f, n)
            /\ \/ [round |-> round, load |-> l, next |-> f + n * Minute,
                    first |-> f, stop |-> f + Period] \in senders
               \/ n * Minute >= Period /\ \A s \in senders : s.load # l

\* A round starts with nothing sent.
Fresh == pc = "aligning" => \A p \in points : p.round # round

HealthyInv == Steady /\ Fresh /\ HealthyPasses

===============================================================================
