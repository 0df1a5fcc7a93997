------------------------------- MODULE OtelClient -------------------------------
(***************************************************************************)
(* A PromQL query of the OTLP endpoint with its retries                    *)
(* (util/otelmetrics/client.go), and the loop of AssertMetricsPresent that *)
(* queries until it has seen every metric (util/otelmetrics/validate.go).  *)
(* Time is counted in seconds of one query; the endpoint is external.      *)
(***************************************************************************)
EXTENDS Integers, Sequences, FiniteSets, Functions

CONSTANTS
    Metrics,       \* metric names
    metrics,       \* the list AssertMetricsPresent is called with
    maxRetries,    \* TestConfig.MaxRetries
    Timeout,       \* TestConfig.Timeout, in seconds
    maxRounds      \* AssertMetricsPresent's maxRetries

ClientAssumption ==
    /\ metrics \in Seq(Metrics) /\ IsInjective(metrics) /\ metrics # <<>>
    /\ maxRetries \in Nat /\ Timeout \in Nat /\ maxRounds \in Nat

VARIABLES
    cpc,        \* where requestRawWithRetry is
    attempt,    \* attempt
    lastErr,    \* a retryable failure has been seen
    result,     \* what Query returned last
    ctxDone,    \* the query's ctx is cancelled
    elapsed,    \* seconds the query has taken
    late,       \* of those, the seconds after its ctx was cancelled
    round,      \* attempt of AssertMetricsPresent
    index,      \* position in metrics
    validated,  \* validated
    outcome,    \* what AssertMetricsPresent returns
    present,    \* metrics the endpoint has series of
    tried       \* history: queries made of each metric

clientVars == <<cpc, attempt, lastErr, result, ctxDone, elapsed, late>>
assertVars == <<round, index, validated, outcome, tried>>
vars == <<clientVars, assertVars, present>>

TypeOK ==
    /\ cpc \in {"idle", "loop", "sent", "backoff", "returned"}
    /\ attempt \in 0 .. maxRetries
    /\ lastErr \in BOOLEAN /\ ctxDone \in BOOLEAN
    /\ result \in {"none", "data", "empty", "error"}
    /\ elapsed \in Nat /\ late \in 0 .. elapsed
    /\ round \in 0 .. maxRounds /\ index \in 1 .. Len(metrics) + 1
    /\ validated \subseteq Range(metrics)
    /\ outcome \in {"none", "present", "missing"}
    /\ present \subseteq Metrics
    /\ tried \in [Metrics -> 0 .. maxRounds]

Init ==
    /\ cpc = "idle" /\ attempt = 0 /\ lastErr = FALSE /\ result = "none"
    /\ ctxDone = FALSE /\ elapsed = 0 /\ late = 0
    /\ round = 0 /\ index = 1 /\ validated = {} /\ outcome = "none"
    /\ present = {}
    /\ tried = [m \in Metrics |-> 0]

-------------------------------------------------------------------------------
(* requestRawWithRetry and Query.                                          *)

Spend(seconds) ==
    /\ elapsed' = elapsed + seconds
    /\ late' = IF ctxDone THEN late + seconds ELSE late

Return(r) ==
    /\ cpc' = "returned"
    /\ result' = r

\* Slip: one attempt too many.
RequestOneMore ==
    /\ cpc = "loop" /\ attempt <= maxRetries
    /\ cpc' = "sent"
    /\ UNCHANGED <<attempt, lastErr, result, ctxDone, elapsed, late, assertVars, present>>

\* Another turn of the loop: make, credential, sign and send a request, or
\* fail for good while doing so.
Request ==
    /\ cpc = "loop" /\ attempt < maxRetries
    /\ \/ cpc' = "sent" /\ UNCHANGED result
       \/ Return("error")
    /\ UNCHANGED <<attempt, lastErr, ctxDone, elapsed, late, assertVars, present>>

Exhausted ==
    /\ cpc = "loop" /\ attempt = maxRetries
    /\ Return("error")
    /\ UNCHANGED <<attempt, lastErr, ctxDone, elapsed, late, assertVars, present>>

\* Slip: sleep after the last attempt as well.
RetryAlwaysSleeping(t) ==
    /\ lastErr' = TRUE
    /\ cpc' = "backoff"
    /\ UNCHANGED <<attempt, result>>
    /\ Spend(t)

\* A transport error, or a status of 500 and above: sleep and try again,
\* without a sleep after the last attempt.
Retry(t) ==
    /\ lastErr' = TRUE
    /\ IF attempt < maxRetries - 1
       THEN cpc' = "backoff" /\ UNCHANGED attempt
       ELSE cpc' = "loop" /\ attempt' = attempt + 1
    /\ UNCHANGED result
    /\ Spend(t)

\* How long the endpoint takes: a cancelled ctx ends the request at once.
ResponseTimes == IF ctxDone THEN {0} ELSE {0, Timeout}

\* A failure to read the body, a 4xx or a body that is not JSON is final.  The
\* series a response parses to may be none, even of a metric that is present:
\* malformed ones are dropped.
Respond ==
    /\ cpc = "sent"
    /\ \E t \in ResponseTimes :
          \/ Retry(t)
          \/ Return("error") /\ Spend(t) /\ UNCHANGED <<attempt, lastErr>>
          \/ /\ ~ctxDone
             /\ \E r \in {"data", "empty"} :
                   /\ r = "data" => metrics[index] \in present
                   /\ Return(r)
             /\ Spend(t) /\ UNCHANGED <<attempt, lastErr>>
    /\ UNCHANGED <<ctxDone, assertVars, present>>

\* 1 << n.  The seconds outgrow a time.Duration only at the 34th attempt, after
\* centuries of sleep.
Shl[n \in Nat] == IF n = 0 THEN 1 ELSE 2 * Shl[n - 1]

\* time.Sleep(1 << attempt), which no ctx interrupts.
Backoff ==
    /\ cpc = "backoff"
    /\ Spend(Shl[attempt])
    /\ attempt' = attempt + 1
    /\ cpc' = "loop"
    /\ UNCHANGED <<lastErr, result, ctxDone, assertVars, present>>

Cancel ==
    /\ cpc \in {"loop", "sent", "backoff"} /\ ~ctxDone
    /\ ctxDone' = TRUE
    /\ UNCHANGED <<cpc, attempt, lastErr, result, elapsed, late, assertVars, present>>

-------------------------------------------------------------------------------
(* AssertMetricsPresent.                                                   *)

Asserting == outcome = "none" /\ cpc = "idle" /\ round < maxRounds

\* A metric that was seen once is not asked for again.
Skip ==
    /\ Asserting /\ index <= Len(metrics)
    /\ metrics[index] \in validated
    /\ index' = index + 1
    /\ UNCHANGED <<clientVars, round, validated, outcome, tried, present>>

Query ==
    /\ Asserting /\ index <= Len(metrics)
    /\ metrics[index] \notin validated
    /\ cpc' = "loop"
    /\ attempt' = 0 /\ lastErr' = FALSE /\ result' = "none"
    /\ ctxDone' = FALSE /\ elapsed' = 0 /\ late' = 0
    /\ tried' = [tried EXCEPT ![metrics[index]] = @ + 1]
    /\ UNCHANGED <<round, index, validated, outcome, present>>

\* Slip: an answer without series counts.
SeenUnlessError == result # "error"

\* err == nil && len(results) > 0
Seen == result = "data"

Answered ==
    /\ outcome = "none" /\ cpc = "returned"
    /\ validated' = IF Seen THEN validated \cup {metrics[index]} ELSE validated
    /\ index' = index + 1
    /\ cpc' = "idle"
    /\ UNCHANGED <<attempt, lastErr, result, ctxDone, elapsed, late, round,
                   outcome, tried, present>>

\* The end of a round: done, or sleep and go round again.
EndRound ==
    /\ Asserting /\ index = Len(metrics) + 1
    /\ IF Cardinality(validated) = Len(metrics)
       THEN outcome' = "present" /\ UNCHANGED <<round, index>>
       ELSE round' = round + 1 /\ index' = 1 /\ UNCHANGED outcome
    /\ UNCHANGED <<clientVars, validated, tried, present>>

\* Slip: give up one round early.
GiveUpEarly ==
    /\ outcome = "none" /\ cpc = "idle" /\ round + 1 >= maxRounds
    /\ outcome' = "missing"
    /\ UNCHANGED <<clientVars, round, index, validated, tried, present>>

\* Slip: wait for a round that never comes.
GiveUpNever ==
    /\ outcome = "none" /\ cpc = "idle" /\ round > maxRounds
    /\ outcome' = "missing"
    /\ UNCHANGED <<clientVars, round, index, validated, tried, present>>

GiveUp ==
    /\ outcome = "none" /\ cpc = "idle" /\ round = maxRounds
    /\ outcome' = "missing"
    /\ UNCHANGED <<clientVars, round, index, validated, tried, present>>

\* The pipeline delivers a metric (external).
Appear(m) ==
    /\ m \notin present
    /\ present' = present \cup {m}
    /\ UNCHANGED <<clientVars, assertVars>>

ClientStep == Request \/ Exhausted \/ Respond \/ Backoff
AssertStep == Skip \/ Query \/ Answered \/ EndRound \/ GiveUp

Next == ClientStep \/ AssertStep \/ Cancel \/ \E m \in Metrics : Appear(m)

Spec == Init /\ [][Next]_vars

(* The loops run on, and http.Client.Timeout ends every request.           *)
FairSpec == Spec /\ WF_vars(ClientStep \/ AssertStep)

-------------------------------------------------------------------------------
(* Properties                                                              *)

\* The sleeps of a query that is out of retries: 1, 2, 4 ..., none after the last.
TotalBackoff == IF maxRetries = 0 THEN 0 ELSE Shl[maxRetries - 1] - 1

\* A query takes no longer than every request timing out and every sleep
\* between them: the bound a worker of the cache holds its slot for.
QueryIsBounded == elapsed <= maxRetries * Timeout + TotalBackoff

\* A cancelled query outlives its ctx by the sleeps that are left, no more.
CancelIsBounded == late <= TotalBackoff

\* AssertMetricsPresent succeeds only if every metric of the list exists.
PresentIsTrue == outcome = "present" => Range(metrics) \subseteq present

\* It fails only on metrics it asked for in every round.
MissingHadItsChances ==
    outcome = "missing" =>
        \E m \in Range(metrics) : m \notin validated /\ tried[m] = maxRounds

\* It ends.
AssertionEnds == <>(outcome # "none")

-------------------------------------------------------------------------------
(* The inductive invariant.                                                *)

\* What a query has slept before this turn of its loop.
Slept == IF attempt < maxRetries THEN Shl[attempt] - 1 ELSE TotalBackoff

\* Each turn behind it costs a query a timeout and its sleep; a cancelled one
\* waits for nothing but its sleeps.
QueryTime ==
    /\ cpc = "sent" => attempt < maxRetries
    /\ cpc = "backoff" => attempt < maxRetries - 1
    /\ cpc \in {"loop", "sent"} => elapsed <= (attempt * Timeout) + Slept
    /\ cpc = "backoff" => elapsed <= ((attempt + 1) * Timeout) + Slept
    /\ cpc \in {"loop", "sent", "backoff"} => late <= Slept
    /\ ~ctxDone => late = 0

\* A query under way is of a metric not seen yet, in a round there is.
QueryInRound ==
    cpc # "idle" =>
        /\ outcome = "none" /\ round < maxRounds /\ index <= Len(metrics)
        /\ metrics[index] \notin validated

\* Every round so far has asked for a metric that is still not seen.
AskedEachRound ==
    \A i \in 1 .. Len(metrics) :
        metrics[i] \notin validated =>
            tried[metrics[i]] =
                IF i < index \/ (i = index /\ cpc # "idle") THEN round + 1 ELSE round

\* After the last round a metric is missing.
RoundsSpent ==
    /\ round = maxRounds => index = 1 /\ validated # Range(metrics)
    /\ outcome = "missing" => round = maxRounds

\* What was seen is there.
SeenIsPresent ==
    /\ validated \subseteq present
    /\ cpc = "returned" /\ result = "data" => metrics[index] \in present
    /\ outcome = "present" => validated = Range(metrics)

IInv ==
    /\ TypeOK
    /\ QueryTime /\ QueryIsBounded /\ CancelIsBounded
    /\ QueryInRound /\ AskedEachRound /\ RoundsSpent /\ SeenIsPresent

===============================================================================
