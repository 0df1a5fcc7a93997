---------------------------- MODULE OtelClientProofs ----------------------------
(***************************************************************************)
(* Proofs about module OtelClient: how long a query may take, which needs  *)
(* the powers of two to be what they are, and what AssertMetricsPresent    *)
(* may answer.                                                             *)
(***************************************************************************)
EXTENDS OtelClient, FiniteSetTheorems, WellFoundedInduction, TLAPS

-------------------------------------------------------------------------------
(* Shl is 1, 2, 4 ...: the recursion defines a function, by induction in   *)
(* the form that every non-empty set of numbers has a least one.           *)

\* A set of numbers that has 0 and the successor of each of its own has them all.
LEMMA Induction ==
    ASSUME NEW T, T \subseteq Nat, 0 \in T, \A n \in T : n + 1 \in T
    PROVE  T = Nat
<1> DEFINE U == Nat \ T
<1>1. SUFFICES ASSUME U # {} PROVE FALSE
  OBVIOUS
<1>2. \E x \in U : \A y \in U : ~(<<y, x>> \in OpToRel(<, Nat))
  <2>1. U \subseteq Nat
    OBVIOUS
  <2> HIDE DEF U
  <2> QED BY <1>1, <2>1, WFMin, NatLessThanWellFounded
<1>3. PICK x \in U : \A y \in U : ~(y < x)
  BY <1>2 DEF OpToRel
<1>4. x # 0 /\ x - 1 \in Nat
  OBVIOUS
<1>5. x - 1 \in T
  BY <1>3, <1>4
<1> QED BY <1>4, <1>5

\* The powers of two up to n.
UpTo(g, n) ==
    /\ g \in [0 .. n -> Nat \ {0}]
    /\ g[0] = 1
    /\ \A i \in 1 .. n : g[i] = 2 * g[i - 1]

LEMMA UpToExists == \A n \in Nat : \E g : UpTo(g, n)
<1> DEFINE T == {n \in Nat : \E g : UpTo(g, n)}
<1>1. 0 \in T
  <2>1. UpTo([i \in 0 .. 0 |-> 1], 0)
    BY DEF UpTo
  <2> QED BY <2>1
<1>2. ASSUME NEW n \in T PROVE n + 1 \in T
  <2>1. PICK g : UpTo(g, n)
    OBVIOUS
  <2> DEFINE h == [i \in 0 .. n + 1 |-> IF i = n + 1 THEN 2 * g[n] ELSE g[i]]
  <2>2. h \in [0 .. n + 1 -> Nat \ {0}] /\ h[0] = 1
    BY <2>1 DEF UpTo
  <2>3. ASSUME NEW i \in 1 .. n + 1 PROVE h[i] = 2 * h[i - 1]
    <3>1. CASE i = n + 1
      BY <3>1
    <3>2. CASE i # n + 1
      <4>1. i \in 1 .. n /\ i - 1 \in 0 .. n /\ i - 1 # n + 1
        BY <3>2
      <4> QED BY <2>1, <4>1 DEF UpTo
    <3> QED BY <3>1, <3>2
  <2> HIDE DEF h
  <2>4. UpTo(h, n + 1)
    BY <2>2, <2>3 DEF UpTo
  <2> QED BY <2>4
<1>3. T \subseteq Nat
  OBVIOUS
<1> HIDE DEF T
<1>4. T = Nat
  BY <1>1, <1>2, <1>3, Induction
<1> QED BY <1>4 DEF T

LEMMA UpToAgree ==
    ASSUME NEW n \in Nat, NEW g, UpTo(g, n), NEW h, UpTo(h, n + 1)
    PROVE  h[n] = g[n]
<1> DEFINE T == {i \in Nat : i <= n => h[i] = g[i]}
<1>1. 0 \in T
  BY DEF UpTo
<1>2. ASSUME NEW i \in T PROVE i + 1 \in T
  <2>1. CASE i + 1 <= n
    <3>1. i + 1 \in 1 .. n /\ i + 1 \in 1 .. n + 1 /\ (i + 1) - 1 = i /\ i <= n
      BY <2>1
    <3>2. h[i + 1] = 2 * h[i] /\ g[i + 1] = 2 * g[i]
      BY <3>1 DEF UpTo
    <3> QED BY <3>1, <3>2
  <2>2. CASE ~(i + 1 <= n)
    BY <2>2
  <2> QED BY <2>1, <2>2
<1>3. T \subseteq Nat
  OBVIOUS
<1> HIDE DEF T
<1>4. n \in T
  BY <1>1, <1>2, <1>3, Induction
<1> QED BY <1>4 DEF T

\* What the definition of Shl computes.
LEMMA ShlRecursion == Shl = [n \in Nat |-> IF n = 0 THEN 1 ELSE 2 * Shl[n - 1]]
<1> DEFINE F == [n \in Nat |-> (CHOOSE g : UpTo(g, n))[n]]
<1>1. ASSUME NEW n \in Nat PROVE F[n] = IF n = 0 THEN 1 ELSE 2 * F[n - 1]
  <2> DEFINE g == CHOOSE g : UpTo(g, n)
  <2>1. UpTo(g, n)
    BY UpToExists
  <2>2. CASE n = 0
    BY <2>1, <2>2 DEF UpTo
  <2>3. CASE n # 0
    <3> DEFINE k == n - 1
               f == CHOOSE f : UpTo(f, k)
    <3>1. k \in Nat /\ k + 1 = n /\ n \in 1 .. n
      BY <2>3
    <3>2. UpTo(f, k)
      BY <3>1, UpToExists
    <3>3. F[n] = g[n] /\ F[k] = f[k]
      BY <3>1
    <3> HIDE DEF F, f, g
    <3>4. g[k] = f[k]
      BY <2>1, <3>1, <3>2, UpToAgree
    <3>5. g[n] = 2 * g[k]
      BY <2>1, <3>1 DEF UpTo
    <3> QED BY <2>3, <3>3, <3>4, <3>5
  <2> QED BY <2>2, <2>3
<1>2. F = [n \in Nat |-> IF n = 0 THEN 1 ELSE 2 * F[n - 1]]
  <2> DEFINE G == [n \in Nat |-> IF n = 0 THEN 1 ELSE 2 * F[n - 1]]
  <2>1. \A n \in Nat : F[n] = G[n]
    BY <1>1
  <2>2. F = [n \in Nat |-> F[n]] /\ G = [n \in Nat |-> G[n]]
    OBVIOUS
  <2> HIDE DEF F, G
  <2>3. F = G
    BY <2>1, <2>2
  <2> QED BY <2>3 DEF G
<1> HIDE DEF F
<1>3. \E f : f = [n \in Nat |-> IF n = 0 THEN 1 ELSE 2 * f[n - 1]]
  BY <1>2
<1> QED BY <1>3 DEF Shl

LEMMA ShlValues ==
    /\ Shl[0] = 1
    /\ \A n \in Nat : Shl[n] \in Nat \ {0} /\ Shl[n + 1] = 2 * Shl[n]
<1>1. Shl[0] = 1
  BY ShlRecursion
<1>2. ASSUME NEW n \in Nat PROVE Shl[n + 1] = 2 * Shl[n]
  <2>1. n + 1 \in Nat /\ n + 1 # 0 /\ (n + 1) - 1 = n
    OBVIOUS
  <2> QED BY <2>1, ShlRecursion
<1> DEFINE T == {n \in Nat : Shl[n] \in Nat \ {0}}
<1>3. 0 \in T
  BY <1>1
<1>4. ASSUME NEW n \in T PROVE n + 1 \in T
  BY <1>2
<1>5. T \subseteq Nat
  OBVIOUS
<1> HIDE DEF T
<1>6. T = Nat
  BY <1>3, <1>4, <1>5, Induction
<1> QED BY <1>1, <1>2, <1>6 DEF T

\* A later sleep is no shorter.
LEMMA ShlGrows == \A n, k \in Nat : Shl[n] <= Shl[n + k]
<1> SUFFICES ASSUME NEW n \in Nat PROVE \A k \in Nat : Shl[n] <= Shl[n + k]
  OBVIOUS
<1> DEFINE T == {k \in Nat : Shl[n] <= Shl[n + k]}
<1>1. 0 \in T
  BY ShlValues
<1>2. ASSUME NEW k \in T PROVE k + 1 \in T
  <2>1. n + k \in Nat /\ n + (k + 1) = (n + k) + 1
    OBVIOUS
  <2>2. Shl[n + (k + 1)] = 2 * Shl[n + k] /\ Shl[n + k] \in Nat /\ Shl[n] \in Nat
    BY <2>1, ShlValues
  <2>3. Shl[n] <= Shl[n + k]
    OBVIOUS
  <2>4. Shl[n] <= Shl[n + (k + 1)]
    BY <2>2, <2>3
  <2> QED BY <2>4
<1>3. T \subseteq Nat
  OBVIOUS
<1> HIDE DEF T
<1>4. T = Nat
  BY <1>1, <1>2, <1>3, Induction
<1> QED BY <1>4 DEF T

-------------------------------------------------------------------------------
(* The list of metrics.                                                    *)

LEMMA MetricsList ==
    ASSUME ClientAssumption
    PROVE  /\ Len(metrics) \in Nat \ {0} /\ DOMAIN metrics = 1 .. Len(metrics)
           /\ \A i \in 1 .. Len(metrics) : metrics[i] \in Metrics /\ metrics[i] \in Range(metrics)
           /\ \A m \in Range(metrics) : \E i \in 1 .. Len(metrics) : m = metrics[i]
           /\ \A i, j \in 1 .. Len(metrics) : metrics[i] = metrics[j] => i = j
<1>1. Len(metrics) \in Nat \ {0} /\ DOMAIN metrics = 1 .. Len(metrics)
  BY DEF ClientAssumption
<1>2. \A i \in 1 .. Len(metrics) : metrics[i] \in Metrics
  BY DEF ClientAssumption
<1> QED BY <1>1, <1>2 DEF ClientAssumption, Range, IsInjective

\* len(validated) == len(metrics) says that every metric has been seen.
LEMMA AllSeen ==
    ASSUME ClientAssumption, NEW V, V \subseteq Range(metrics)
    PROVE  Cardinality(V) = Len(metrics) <=> V = Range(metrics)
<1> DEFINE D == 1 .. Len(metrics)
<1>1. metrics \in Bijection(D, Range(metrics))
  <2>1. metrics \in [D -> Range(metrics)]
    BY MetricsList DEF ClientAssumption
  <2> QED BY <2>1, MetricsList DEF Bijection, Injection, Surjection, IsInjective
<1>2. IsFiniteSet(Range(metrics)) /\ Cardinality(Range(metrics)) = Len(metrics)
  <2>1. IsFiniteSet(D) /\ Cardinality(D) = Len(metrics)
    BY MetricsList, FS_Interval
  <2> HIDE DEF D
  <2> QED BY <1>1, <2>1, FS_Bijection DEF ExistsBijection
<1> QED BY <1>2, FS_Subset

-------------------------------------------------------------------------------
(* The sleeps of a query.                                                  *)

LEMMA BackoffValues ==
    ASSUME ClientAssumption, TypeOK
    PROVE  /\ Slept \in Nat /\ TotalBackoff \in Nat /\ Slept <= TotalBackoff
           /\ attempt < maxRetries => Slept = Shl[attempt] - 1
           /\ attempt = maxRetries => Slept = TotalBackoff
           /\ maxRetries > 0 => TotalBackoff = Shl[maxRetries - 1] - 1
<1>1. attempt \in Nat /\ maxRetries \in Nat /\ attempt <= maxRetries
  BY DEF TypeOK, ClientAssumption
<1>2. TotalBackoff \in Nat
  <2>1. CASE maxRetries = 0
    BY <2>1 DEF TotalBackoff
  <2>2. CASE maxRetries # 0
    <3>1. maxRetries - 1 \in Nat
      BY <1>1, <2>2
    <3> QED BY <2>2, <3>1, ShlValues DEF TotalBackoff
  <2> QED BY <2>1, <2>2
<1>3. CASE attempt < maxRetries
  <2>1. Shl[attempt] \in Nat \ {0} /\ Slept = Shl[attempt] - 1
    BY <1>1, <1>3, ShlValues DEF Slept
  <2>2. maxRetries - 1 - attempt \in Nat /\ attempt + (maxRetries - 1 - attempt) = maxRetries - 1
    BY <1>1, <1>3
  <2>3. Shl[attempt] <= Shl[maxRetries - 1]
    BY <1>1, <2>2, ShlGrows
  <2>4. maxRetries # 0 /\ maxRetries - 1 \in Nat
    BY <1>1, <1>3
  <2>5. TotalBackoff = Shl[maxRetries - 1] - 1 /\ Shl[maxRetries - 1] \in Nat
    BY <2>4, ShlValues DEF TotalBackoff
  <2> QED BY <1>1, <1>2, <1>3, <2>1, <2>3, <2>5
<1>4. CASE ~(attempt < maxRetries)
  BY <1>1, <1>2, <1>4 DEF Slept, TotalBackoff
<1> QED BY <1>3, <1>4

\* What is spent by one more turn of the loop.
LEMMA OneMoreTimeout ==
    ASSUME ClientAssumption, NEW a \in Nat
    PROVE  /\ (a * Timeout) \in Nat
           /\ ((a + 1) * Timeout) = (a * Timeout) + Timeout
BY DEF ClientAssumption

LEMMA TimeoutsGrow ==
    ASSUME ClientAssumption, NEW a \in Nat, NEW b \in Nat, a <= b
    PROVE  (a * Timeout) <= (b * Timeout)
<1>1. (b - a) \in Nat /\ Timeout \in Nat
  BY DEF ClientAssumption
<1>2. ((b - a) * Timeout) \in Nat /\ (a * Timeout) \in Nat /\ (b * Timeout) \in Nat
  BY <1>1
<1>3. (b * Timeout) = (a * Timeout) + ((b - a) * Timeout)
  BY <1>1
<1> QED BY <1>2, <1>3

LEMMA MoreTurns ==
    ASSUME ClientAssumption, NEW a \in Nat, NEW b \in Nat, a <= b,
           NEW e \in Nat, NEW s \in Nat, NEW t \in Nat, s <= t, e <= (a * Timeout) + s
    PROVE  e <= (b * Timeout) + t
<1> DEFINE x == a * Timeout
           y == b * Timeout
<1>1. x \in Nat /\ y \in Nat /\ x <= y /\ e <= x + s
  BY OneMoreTimeout, TimeoutsGrow
<1> HIDE DEF x, y
<1>2. e <= y + t
  BY <1>1
<1> QED BY <1>2 DEF y

-------------------------------------------------------------------------------
(* The inductive invariant.                                                *)

LEMMA InitIInv == ASSUME ClientAssumption, Init PROVE IInv
<1> USE DEF ClientAssumption, Init
<1>1. TypeOK
  <2>1. maxRetries \in Nat /\ maxRounds \in Nat /\ Len(metrics) \in Nat \ {0}
    BY MetricsList
  <2>2. attempt \in 0 .. maxRetries /\ round \in 0 .. maxRounds /\ elapsed \in Nat
        /\ late \in 0 .. elapsed /\ index \in 1 .. Len(metrics) + 1
    BY <2>1
  <2>3. tried \in [Metrics -> 0 .. maxRounds]
    BY <2>1
  <2> QED BY <2>2, <2>3 DEF TypeOK
<1>2. QueryTime /\ QueryIsBounded /\ CancelIsBounded
  <2>1. TotalBackoff \in Nat /\ Slept \in Nat
    BY <1>1, BackoffValues
  <2>2. (maxRetries * Timeout) \in Nat /\ (attempt * Timeout) \in Nat
    OBVIOUS
  <2> QED BY <2>1, <2>2 DEF QueryTime, QueryIsBounded, CancelIsBounded
<1>3. QueryInRound /\ AskedEachRound
  BY MetricsList DEF QueryInRound, AskedEachRound
<1>4. RoundsSpent /\ SeenIsPresent
  BY MetricsList DEF RoundsSpent, SeenIsPresent
<1> QED BY <1>1, <1>2, <1>3, <1>4 DEF IInv

LEMMA TypeStep == ASSUME ClientAssumption, IInv, [Next]_vars PROVE TypeOK'
<1> USE DEF TypeOK, IInv, clientVars, assertVars
<1>0. maxRetries \in Nat /\ Timeout \in Nat /\ maxRounds \in Nat /\ Len(metrics) \in Nat
  BY MetricsList DEF ClientAssumption
<1>1. CASE Request
  BY <1>1 DEF Request, Return
<1>2. CASE Exhausted
  BY <1>2 DEF Exhausted, Return
<1>3. CASE Respond
  <2>1. PICK t \in ResponseTimes :
          \/ Retry(t)
          \/ Return("error") /\ Spend(t) /\ UNCHANGED <<attempt, lastErr>>
          \/ /\ \E r \in {"data", "empty"} : Return(r)
             /\ Spend(t) /\ UNCHANGED <<attempt, lastErr>>
    BY <1>3 DEF Respond
  <2>2. t \in Nat
    BY <1>0 DEF ResponseTimes
  <2>3. Spend(t)
    BY <2>1 DEF Retry
  <2>4. elapsed' \in Nat /\ late' \in 0 .. elapsed'
    BY <2>2, <2>3 DEF Spend
  <2>5. attempt' \in 0 .. maxRetries
    <3>1. attempt \in Nat /\ attempt < maxRetries
      BY <1>0, <1>3 DEF Respond, QueryTime
    <3>2. attempt' \in {attempt, attempt + 1}
      BY <2>1 DEF Retry
    <3> QED BY <1>0, <3>1, <3>2
  <2>9. lastErr' \in BOOLEAN
    BY <2>1 DEF Retry
  <2>6. cpc' \in {"backoff", "loop", "returned"} /\ result' \in {"none", "data", "empty", "error"}
    BY <2>1 DEF Retry, Return
  <2>7. /\ ctxDone \in BOOLEAN /\ round \in 0 .. maxRounds /\ index \in 1 .. Len(metrics) + 1
        /\ validated \subseteq Range(metrics) /\ outcome \in {"none", "present", "missing"}
        /\ present \subseteq Metrics /\ tried \in [Metrics -> 0 .. maxRounds]
    OBVIOUS
  <2>8. UNCHANGED <<ctxDone, round, index, validated, outcome, tried, present>>
    BY <1>3 DEF Respond
  <2> QED BY <2>4, <2>5, <2>6, <2>7, <2>8, <2>9
<1>4. CASE Backoff
  <2>0. attempt \in Nat
    BY <1>0
  <2>1. Shl[attempt] \in Nat
    BY <2>0, ShlValues
  <2>2. elapsed' \in Nat /\ late' \in 0 .. elapsed'
    <3>1. elapsed' = elapsed + Shl[attempt] /\ late' \in {late + Shl[attempt], late}
      BY <1>4 DEF Backoff, Spend
    <3>2. elapsed \in Nat /\ late \in 0 .. elapsed
      OBVIOUS
    <3> QED BY <2>1, <3>1, <3>2
  <2>3. attempt' \in 0 .. maxRetries
    BY <1>0, <1>4 DEF Backoff, QueryTime
  <2>4. cpc' = "loop" /\ UNCHANGED <<lastErr, result, ctxDone, round, index, validated, outcome,
                                     tried, present>>
    BY <1>4 DEF Backoff
  <2> QED BY <2>2, <2>3, <2>4
<1>5. CASE Skip
  BY <1>0, <1>5 DEF Skip
<1>6. CASE Query
  <2>1. index \in 1 .. Len(metrics) /\ cpc = "idle" /\ metrics[index] \notin validated
        /\ round < maxRounds
    BY <1>0, <1>6 DEF Query, Asserting
  <2>2. tried[metrics[index]] = round
    BY <1>0, <2>1 DEF AskedEachRound
  <2>3. metrics[index] \in Metrics
    BY <2>1, MetricsList
  <2>4. tried' \in [Metrics -> 0 .. maxRounds]
    BY <1>0, <1>6, <2>1, <2>2, <2>3 DEF Query
  <2>5. /\ cpc' = "loop" /\ attempt' = 0 /\ lastErr' = FALSE /\ result' = "none"
        /\ ctxDone' = FALSE /\ elapsed' = 0 /\ late' = 0
        /\ UNCHANGED <<round, index, validated, outcome, present>>
    BY <1>6 DEF Query
  <2>6. attempt' \in 0 .. maxRetries /\ elapsed' \in Nat /\ late' \in 0 .. elapsed'
    BY <1>0, <2>5
  <2> QED BY <2>4, <2>5, <2>6
<1>7. CASE Answered
  <2>1. index \in 1 .. Len(metrics)
    BY <1>0, <1>7 DEF Answered, QueryInRound
  <2>2. metrics[index] \in Range(metrics)
    BY <2>1, MetricsList
  <2> QED BY <1>0, <1>7, <2>1, <2>2 DEF Answered
<1>8. CASE EndRound
  BY <1>0, <1>8 DEF EndRound, Asserting
<1>9. CASE GiveUp
  BY <1>9 DEF GiveUp
<1>10. CASE Cancel
  BY <1>10 DEF Cancel
<1>11. ASSUME NEW m \in Metrics, Appear(m) PROVE TypeOK'
  BY <1>11 DEF Appear
<1>12. CASE UNCHANGED vars
  BY <1>12 DEF vars
<1> QED
  BY <1>1, <1>2, <1>3, <1>4, <1>5, <1>6, <1>7, <1>8, <1>9, <1>10, <1>11, <1>12
  DEF Next, ClientStep, AssertStep

\* A query's turns: a request costs at most its timeout and a sleep doubles.
LEMMA TimeStep ==
    ASSUME ClientAssumption, IInv, [Next]_vars
    PROVE  QueryTime' /\ QueryIsBounded' /\ CancelIsBounded'
<1>0. /\ maxRetries \in Nat /\ Timeout \in Nat /\ attempt \in Nat /\ attempt <= maxRetries
      /\ elapsed \in Nat /\ late \in Nat /\ ctxDone \in BOOLEAN
      /\ Slept \in Nat /\ TotalBackoff \in Nat /\ Slept <= TotalBackoff
      /\ TypeOK
  BY BackoffValues DEF IInv, TypeOK, ClientAssumption
<1>00. QueryTime /\ QueryIsBounded /\ CancelIsBounded
  BY DEF IInv
<1>p. /\ TypeOK'
      /\ attempt' \in Nat /\ attempt' <= maxRetries /\ elapsed' \in Nat /\ late' \in Nat
  BY <1>0, TypeStep DEF TypeOK
<1>c. UNCHANGED TotalBackoff
  BY DEF TotalBackoff
<1>1. ASSUME UNCHANGED <<attempt, elapsed, late, ctxDone>>,
             cpc' = cpc \/ cpc' \in {"idle", "returned"} \/ (cpc = "loop" /\ cpc' = "sent" /\ attempt < maxRetries)
      PROVE  QueryTime' /\ QueryIsBounded' /\ CancelIsBounded'
  <2>1. UNCHANGED Slept
    BY <1>1, <1>c DEF Slept
  <2> QED BY <1>1, <2>1, <1>c, <1>00 DEF QueryTime, QueryIsBounded, CancelIsBounded
<1>2. CASE Request
  BY <1>1, <1>2 DEF Request, Return
<1>3. CASE Exhausted
  BY <1>1, <1>3 DEF Exhausted, Return
<1>4. CASE Respond
  <2>1. PICK t \in ResponseTimes :
          \/ Retry(t)
          \/ cpc' = "returned" /\ Spend(t) /\ UNCHANGED attempt
    BY <1>4 DEF Respond, Return
  <2>2. t \in Nat /\ t <= Timeout /\ (ctxDone => t = 0)
    BY <1>0 DEF ResponseTimes
  <2>3. UNCHANGED ctxDone /\ attempt < maxRetries /\ cpc = "sent"
    BY <1>4, <1>00 DEF Respond, QueryTime
  <2>4. elapsed' = elapsed + t /\ late' = late
    BY <1>0, <2>1, <2>2 DEF Retry, Spend
  <2>5. (attempt * Timeout) \in Nat /\ ((attempt + 1) * Timeout) = (attempt * Timeout) + Timeout
    BY <1>0, OneMoreTimeout
  <2>6. elapsed' <= ((attempt + 1) * Timeout) + Slept /\ late' <= Slept
    BY <1>0, <1>00, <2>2, <2>3, <2>4, <2>5 DEF QueryTime
  <2>7. attempt + 1 \in Nat /\ attempt + 1 <= maxRetries
    BY <1>0, <2>3
  <2>8. ((attempt + 1) * Timeout) <= (maxRetries * Timeout)
        /\ ((attempt + 1) * Timeout) \in Nat /\ (maxRetries * Timeout) \in Nat
    BY <1>0, <2>7, TimeoutsGrow
  <2>9. QueryIsBounded' /\ CancelIsBounded'
    BY <1>0, <1>c, <1>p, <2>6, <2>8 DEF QueryIsBounded, CancelIsBounded
  <2>10. ~ctxDone' => late' = 0
    BY <1>00, <2>3, <2>4 DEF QueryTime
  <2>11. CASE cpc' = "returned"
    BY <2>9, <2>10, <2>11 DEF QueryTime
  <2>12. CASE Retry(t) /\ attempt < maxRetries - 1
    <3>1. cpc' = "backoff" /\ UNCHANGED attempt
      BY <2>12 DEF Retry
    <3>2. UNCHANGED Slept
      BY <1>c, <3>1 DEF Slept
    <3> QED BY <2>6, <2>9, <2>10, <2>12, <3>1, <3>2 DEF QueryTime
  <2>13. CASE Retry(t) /\ ~(attempt < maxRetries - 1)
    <3>1. cpc' = "loop" /\ attempt' = attempt + 1
      BY <2>13 DEF Retry
    <3>2. attempt' = maxRetries
      BY <1>0, <2>3, <2>13, <3>1
    <3>3. Slept' = TotalBackoff
      BY <1>0, <1>c, <3>2 DEF Slept
    <3>4. elapsed' <= (attempt' * Timeout) + Slept' /\ late' <= Slept'
      <4>1. elapsed' <= (attempt' * Timeout) + Slept
        BY <2>6, <3>1
      <4>2. (attempt' * Timeout) \in Nat
        BY <2>8, <3>1
      <4> DEFINE x == attempt' * Timeout
      <4>3. x \in Nat /\ elapsed' <= x + Slept
        BY <4>1, <4>2
      <4> HIDE DEF x
      <4>4. elapsed' <= x + Slept'
        BY <1>0, <1>p, <3>3, <4>3
      <4>5. late' <= Slept'
        BY <1>0, <1>p, <2>6, <3>3
      <4> QED BY <4>4, <4>5 DEF x
    <3> QED BY <2>9, <2>10, <3>1, <3>4 DEF QueryTime
  <2> QED BY <2>1, <2>11, <2>12, <2>13
<1>5. CASE Backoff
  <2>1. cpc = "backoff" /\ cpc' = "loop" /\ attempt' = attempt + 1 /\ UNCHANGED ctxDone
        /\ attempt < maxRetries - 1 /\ attempt < maxRetries
    BY <1>0, <1>00, <1>5 DEF Backoff, QueryTime
  <2>2. Slept = Shl[attempt] - 1
    BY <2>1 DEF Slept
  <2>3. Slept' = Shl[attempt + 1] - 1
    BY <1>0, <2>1 DEF Slept
  <2>4. Shl[attempt] \in Nat \ {0} /\ Shl[attempt + 1] = 2 * Shl[attempt]
    BY <1>0, ShlValues
  <2>5. elapsed' = elapsed + Shl[attempt] /\ late' <= late + Shl[attempt]
        /\ (~ctxDone => late' = late)
    BY <1>0, <1>5, <2>4 DEF Backoff, Spend
  <2>6. (attempt' * Timeout) \in Nat /\ elapsed <= (attempt' * Timeout) + Slept /\ late <= Slept
    <3>1. (attempt + 1) \in Nat
      BY <1>0
    <3>2. ((attempt + 1) * Timeout) \in Nat
      BY <3>1, OneMoreTimeout
    <3> QED BY <1>00, <2>1, <3>2 DEF QueryTime
  <2>7. elapsed' <= (attempt' * Timeout) + Slept' /\ late' <= Slept'
    BY <1>0, <1>p, <2>2, <2>3, <2>4, <2>5, <2>6
  <2>8. ~ctxDone' => late' = 0
    BY <1>00, <2>1, <2>5 DEF QueryTime
  <2>9. Slept' \in Nat /\ Slept' <= TotalBackoff
    <3>1. maxRetries - 1 - attempt' \in Nat /\ attempt' + (maxRetries - 1 - attempt') = maxRetries - 1
          /\ maxRetries # 0 /\ maxRetries - 1 \in Nat
      BY <1>0, <2>1
    <3>2. Shl[attempt'] <= Shl[maxRetries - 1] /\ Shl[maxRetries - 1] \in Nat
      BY <1>p, <3>1, ShlGrows, ShlValues
    <3>3. TotalBackoff = Shl[maxRetries - 1] - 1
      BY <3>1 DEF TotalBackoff
    <3> QED BY <2>1, <2>3, <2>4, <3>2, <3>3
  <2>10. QueryIsBounded' /\ CancelIsBounded'
    <3>1. attempt' \in Nat /\ attempt' <= maxRetries /\ maxRetries \in Nat
      BY <1>0, <1>p
    <3>2. elapsed' \in Nat /\ late' \in Nat /\ TotalBackoff \in Nat
      BY <1>0, <1>p
    <3>3. elapsed' <= (maxRetries * Timeout) + TotalBackoff
      BY <2>7, <2>9, <3>1, <3>2, MoreTurns
    <3>4. late' <= TotalBackoff
      BY <2>7, <2>9, <3>2
    <3> QED BY <1>c, <3>3, <3>4 DEF QueryIsBounded, CancelIsBounded
  <2> QED BY <2>1, <2>7, <2>8, <2>10 DEF QueryTime
<1>6. CASE Skip \/ EndRound \/ GiveUp
  BY <1>1, <1>6 DEF Skip, EndRound, GiveUp, clientVars
<1>7. CASE Query
  <2>1. cpc' = "loop" /\ attempt' = 0 /\ ctxDone' = FALSE /\ elapsed' = 0 /\ late' = 0
    BY <1>7 DEF Query
  <2>2. Slept' \in Nat
    <3>1. 0 < maxRetries => Slept' = Shl[0] - 1
      BY <2>1 DEF Slept
    <3>2. ~(0 < maxRetries) => Slept' = TotalBackoff
      BY <2>1, <1>c DEF Slept
    <3> QED BY <1>0, <3>1, <3>2, ShlValues
  <2>3. (attempt' * Timeout) \in Nat /\ (maxRetries * Timeout) \in Nat
    BY <1>0, <2>1
  <2>4. QueryIsBounded' /\ CancelIsBounded'
    BY <1>0, <1>c, <2>1, <2>3 DEF QueryIsBounded, CancelIsBounded
  <2> QED BY <2>1, <2>2, <2>3, <2>4 DEF QueryTime
<1>8. CASE Answered
  BY <1>1, <1>8 DEF Answered
<1>9. CASE Cancel
  <2>1. UNCHANGED <<cpc, attempt, elapsed, late>> /\ ctxDone' = TRUE
    BY <1>9 DEF Cancel
  <2>2. UNCHANGED Slept
    BY <2>1, <1>c DEF Slept
  <2> QED BY <2>1, <2>2, <1>c, <1>00 DEF QueryTime, QueryIsBounded, CancelIsBounded
<1>10. ASSUME NEW m \in Metrics, Appear(m)
       PROVE  QueryTime' /\ QueryIsBounded' /\ CancelIsBounded'
  BY <1>1, <1>10 DEF Appear, clientVars
<1>11. CASE UNCHANGED vars
  BY <1>1, <1>11 DEF vars, clientVars
<1> QED
  BY <1>2, <1>3, <1>4, <1>5, <1>6, <1>7, <1>8, <1>9, <1>10, <1>11 DEF Next, ClientStep, AssertStep

\* The positions of metrics in a round, and which of them have been asked for.
LEMMA AskStep ==
    ASSUME ClientAssumption, IInv, [Next]_vars
    PROVE  QueryInRound' /\ AskedEachRound' /\ RoundsSpent'
<1>0. /\ maxRounds \in Nat /\ round \in Nat /\ round <= maxRounds
      /\ index \in Nat /\ index <= Len(metrics) + 1 /\ index >= 1 /\ Len(metrics) \in Nat \ {0}
      /\ tried \in [Metrics -> 0 .. maxRounds] /\ validated \subseteq Range(metrics)
  BY MetricsList DEF IInv, TypeOK, ClientAssumption
<1>00. QueryInRound /\ AskedEachRound /\ RoundsSpent
  BY DEF IInv
<1>1. ASSUME UNCHANGED assertVars, cpc' = cpc \/ (cpc # "idle" /\ cpc' # "idle")
      PROVE  QueryInRound' /\ AskedEachRound' /\ RoundsSpent'
  BY <1>1, <1>00 DEF assertVars, QueryInRound, AskedEachRound, RoundsSpent
<1>2. CASE Request \/ Exhausted
  BY <1>1, <1>2 DEF Request, Exhausted, Return
<1>3. CASE Respond
  <2>1. cpc = "sent" /\ UNCHANGED assertVars /\ cpc' # "idle"
    BY <1>3 DEF Respond, Retry, Return
  <2> QED BY <1>1, <2>1
<1>4. CASE Backoff \/ Cancel
  BY <1>1, <1>4 DEF Backoff, Cancel
<1>5. CASE Skip
  <2>1. /\ cpc = "idle" /\ cpc' = "idle" /\ round < maxRounds /\ index \in 1 .. Len(metrics)
        /\ metrics[index] \in validated /\ index' = index + 1
        /\ UNCHANGED <<round, validated, outcome, tried>>
    BY <1>0, <1>5 DEF Skip, Asserting, clientVars
  <2>2. AskedEachRound'
    <3> SUFFICES ASSUME NEW i \in 1 .. Len(metrics), metrics[i] \notin validated
                 PROVE  tried[metrics[i]] = IF i < index + 1 THEN round + 1 ELSE round
      BY <2>1 DEF AskedEachRound
    <3>1. i # index
      BY <2>1
    <3>2. i < index + 1 <=> i < index
      BY <1>0, <3>1
    <3> QED BY <1>00, <2>1, <3>2 DEF AskedEachRound
  <2> QED BY <1>0, <1>00, <2>1, <2>2 DEF QueryInRound, RoundsSpent
<1>6. CASE Query
  <2>1. /\ cpc = "idle" /\ cpc' = "loop" /\ round < maxRounds /\ index \in 1 .. Len(metrics)
        /\ metrics[index] \notin validated /\ outcome = "none"
        /\ UNCHANGED <<round, validated, outcome, index>>
        /\ tried' = [tried EXCEPT ![metrics[index]] = @ + 1]
    BY <1>0, <1>6 DEF Query, Asserting
  <2>2. AskedEachRound'
    <3> SUFFICES ASSUME NEW i \in 1 .. Len(metrics), metrics[i] \notin validated
                 PROVE  tried'[metrics[i]] = IF i < index \/ i = index THEN round + 1 ELSE round
      BY <2>1 DEF AskedEachRound
    <3>1. metrics[i] \in Metrics /\ metrics[index] \in Metrics
      BY <2>1, MetricsList
    <3>2. CASE i = index
      <4>1. tried[metrics[i]] = round
        BY <1>0, <1>00, <2>1, <3>2 DEF AskedEachRound
      <4> QED BY <1>0, <2>1, <3>1, <3>2, <4>1
    <3>3. CASE i # index
      <4>1. metrics[i] # metrics[index]
        BY <2>1, <3>3, MetricsList
      <4>2. tried'[metrics[i]] = tried[metrics[i]]
        BY <1>0, <2>1, <3>1, <4>1
      <4> QED BY <1>00, <2>1, <3>3, <4>2 DEF AskedEachRound
    <3> QED BY <3>2, <3>3
  <2> QED BY <1>0, <1>00, <2>1, <2>2 DEF QueryInRound, RoundsSpent
<1>7. CASE Answered
  <2>1. /\ cpc # "idle" /\ cpc' = "idle" /\ outcome = "none" /\ index' = index + 1
        /\ UNCHANGED <<round, outcome, tried>> /\ validated \subseteq validated'
    BY <1>7 DEF Answered
  <2>2. AskedEachRound'
    <3> SUFFICES ASSUME NEW i \in 1 .. Len(metrics), metrics[i] \notin validated'
                 PROVE  tried[metrics[i]] = IF i < index + 1 THEN round + 1 ELSE round
      BY <2>1 DEF AskedEachRound
    <3>1. i < index + 1 <=> i < index \/ i = index
      BY <1>0
    <3> QED BY <1>00, <2>1, <3>1 DEF AskedEachRound
  <2> QED BY <1>0, <1>00, <2>1, <2>2 DEF QueryInRound, RoundsSpent
<1>8. CASE EndRound
  <2>1. /\ cpc = "idle" /\ cpc' = "idle" /\ outcome = "none" /\ round < maxRounds
        /\ index = Len(metrics) + 1 /\ UNCHANGED <<validated, tried>>
    BY <1>8 DEF EndRound, Asserting, clientVars
  <2>2. CASE Cardinality(validated) = Len(metrics)
    <3>1. UNCHANGED <<round, index>> /\ outcome' = "present"
      BY <1>8, <2>2 DEF EndRound
    <3> QED BY <1>00, <2>1, <3>1 DEF QueryInRound, AskedEachRound, RoundsSpent
  <2>3. CASE Cardinality(validated) # Len(metrics)
    <3>1. round' = round + 1 /\ index' = 1 /\ UNCHANGED outcome
      BY <1>8, <2>3 DEF EndRound
    <3>2. validated # Range(metrics)
      BY <1>0, <2>3, AllSeen
    <3>3. ASSUME NEW i \in 1 .. Len(metrics), metrics[i] \notin validated
          PROVE  tried[metrics[i]] = round + 1
      <4>1. i < index
        BY <1>0, <2>1
      <4> QED BY <1>00, <3>3, <4>1 DEF AskedEachRound
    <3>4. AskedEachRound'
      BY <2>1, <3>1, <3>3 DEF AskedEachRound
    <3> QED BY <2>1, <3>1, <3>2, <3>4 DEF QueryInRound, RoundsSpent
  <2> QED BY <2>2, <2>3
<1>9. CASE GiveUp
  BY <1>9, <1>00 DEF GiveUp, clientVars, QueryInRound, AskedEachRound, RoundsSpent
<1>10. ASSUME NEW m \in Metrics, Appear(m)
       PROVE  QueryInRound' /\ AskedEachRound' /\ RoundsSpent'
  BY <1>1, <1>10 DEF Appear, clientVars
<1>11. CASE UNCHANGED vars
  BY <1>1, <1>11 DEF vars, clientVars
<1> QED
  BY <1>2, <1>3, <1>4, <1>5, <1>6, <1>7, <1>8, <1>9, <1>10, <1>11 DEF Next, ClientStep, AssertStep

\* Nothing is seen that is not there; what is there stays.
LEMMA SeenStep == ASSUME ClientAssumption, IInv, [Next]_vars PROVE SeenIsPresent'
<1>0. SeenIsPresent /\ validated \subseteq Range(metrics)
  BY DEF IInv, TypeOK
<1>1. ASSUME UNCHANGED <<validated, outcome, index>>, present \subseteq present',
             cpc' = "returned" /\ result' = "data" =>
                metrics[index] \in present \/ (cpc = "returned" /\ result = "data")
      PROVE  SeenIsPresent'
  BY <1>0, <1>1 DEF SeenIsPresent
<1>2. CASE Request \/ Exhausted
  BY <1>1, <1>2 DEF Request, Exhausted, Return, assertVars
<1>3. CASE Respond
  <2>1. UNCHANGED <<validated, outcome, index, present>>
    BY <1>3 DEF Respond, assertVars
  <2>2. cpc' = "returned" /\ result' = "data" => metrics[index] \in present
    BY <1>3 DEF Respond, Retry, Return
  <2> QED BY <1>1, <2>1, <2>2
<1>4. CASE Backoff \/ Cancel
  BY <1>1, <1>4 DEF Backoff, Cancel, assertVars
<1>5. CASE Skip
  BY <1>0, <1>5 DEF Skip, Asserting, clientVars, SeenIsPresent
<1>6. CASE Query
  BY <1>1, <1>6 DEF Query
<1>7. CASE Answered
  <2>1. Seen => metrics[index] \in present
    BY <1>0, <1>7 DEF Answered, Seen, SeenIsPresent
  <2>2. cpc' = "idle" /\ outcome' = "none" /\ validated' \subseteq present /\ present' = present
    BY <1>0, <1>7, <2>1 DEF Answered, SeenIsPresent
  <2> QED BY <2>2 DEF SeenIsPresent
<1>8. CASE EndRound
  <2>1. cpc' = "idle" /\ UNCHANGED <<validated, present>>
    BY <1>8 DEF EndRound, Asserting, clientVars
  <2>2. outcome' = "present" => validated = Range(metrics)
    BY <1>0, <1>8, AllSeen DEF EndRound, Asserting
  <2> QED BY <1>0, <2>1, <2>2 DEF SeenIsPresent
<1>9. CASE GiveUp
  BY <1>0, <1>9 DEF GiveUp, clientVars, SeenIsPresent
<1>10. ASSUME NEW m \in Metrics, Appear(m) PROVE SeenIsPresent'
  BY <1>1, <1>10 DEF Appear, clientVars, assertVars
<1>11. CASE UNCHANGED vars
  BY <1>1, <1>11 DEF vars, clientVars, assertVars
<1> QED
  BY <1>2, <1>3, <1>4, <1>5, <1>6, <1>7, <1>8, <1>9, <1>10, <1>11 DEF Next, ClientStep, AssertStep

LEMMA StepIInv == ASSUME ClientAssumption, IInv, [Next]_vars PROVE IInv'
BY TypeStep, TimeStep, AskStep, SeenStep DEF IInv

-------------------------------------------------------------------------------
(* The theorems.                                                           *)

\* A query and its assertion keep their types.
LEMMA InvTypes == IInv => TypeOK
BY DEF IInv

\* A query takes no longer than its timeouts and sleeps, and a cancelled one no
\* longer than its sleeps, for every number of retries and every timeout
\* (requestRawWithRetry).
LEMMA InvTime == IInv => QueryIsBounded /\ CancelIsBounded
BY DEF IInv

\* AssertMetricsPresent answers yes only if every metric exists.
LEMMA InvPresent == IInv => PresentIsTrue
BY DEF IInv, SeenIsPresent, PresentIsTrue

\* It answers no only if a metric was asked for in vain in every round.
LEMMA InvMissing == ASSUME ClientAssumption, IInv PROVE MissingHadItsChances
<1> SUFFICES ASSUME outcome = "missing"
             PROVE  \E m \in Range(metrics) : m \notin validated /\ tried[m] = maxRounds
  BY DEF MissingHadItsChances
<1>1. round = maxRounds /\ index = 1 /\ validated # Range(metrics) /\ cpc = "idle"
      /\ validated \subseteq Range(metrics)
  BY DEF IInv, RoundsSpent, QueryInRound, TypeOK
<1>2. PICK i \in 1 .. Len(metrics) : metrics[i] \notin validated
  BY <1>1, MetricsList
<1>3. ~(i < index)
  BY <1>1, MetricsList
<1>4. tried[metrics[i]] = maxRounds
  BY <1>1, <1>2, <1>3 DEF IInv, AskedEachRound
<1> QED BY <1>2, <1>4, MetricsList

\* Whatever the list of metrics, the retries and the rounds.
THEOREM ClientInvariant == ASSUME ClientAssumption PROVE Spec => []IInv
<1>1. Init => IInv
  BY InitIInv
<1>2. IInv /\ [Next]_vars => IInv'
  BY StepIInv
<1> QED BY <1>1, <1>2, PTL DEF Spec

===============================================================================
