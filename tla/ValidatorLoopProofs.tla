-------------------------- MODULE ValidatorLoopProofs --------------------------
(***************************************************************************)
(* Proofs about ValidatorLoop, for every number of rounds and every length *)
(* of its sleeps and periods that LoopAssumption allows.                   *)
(***************************************************************************)
EXTENDS ValidatorLoop, FiniteSetTheorems, TLAPS

(* Full minutes.                                                           *)

Aligned(t) == t \in Nat /\ \E k \in Nat : t = k * Minute

LEMMA ConstantTypes ==
    /\ Minute \in Nat /\ Minute > 0
    /\ StandardRetries \in Nat /\ StandardRetries > 0
    /\ Settle \in Nat /\ Pause \in Nat /\ Shutdown \in Nat /\ Lag \in Nat /\ Lag < Minute
    /\ Aligned(ShortPeriod) /\ Aligned(LongPeriod)
    /\ ShortPeriod >= Minute /\ LongPeriod >= Minute
    /\ ShortPeriod <= Pause /\ ShortPeriod <= LongPeriod
<1>1. \A p \in {ShortPeriod, LongPeriod} : \E k \in 1 .. 10 : p = k * Minute
  BY LoopAssumption
<1>2. ASSUME NEW p \in {ShortPeriod, LongPeriod} PROVE Aligned(p) /\ p >= Minute
  <2>1. PICK k \in 1 .. 10 : p = k * Minute
    BY <1>1
  <2>2. k * Minute >= 1 * Minute /\ k * Minute \in Nat
    BY LoopAssumption
  <2> QED
    BY <2>1, <2>2, LoopAssumption DEF Aligned
<1> QED
  BY <1>2, LoopAssumption

\* Two different full minutes are a minute apart.
LEMMA MinutesApart ==
    ASSUME NEW a, NEW b, Aligned(a), Aligned(b), a < b
    PROVE  a + Minute <= b
<1>1. PICK j \in Nat : a = j * Minute
  BY DEF Aligned
<1>2. PICK k \in Nat : b = k * Minute
  BY DEF Aligned
<1>3. j + 1 <= k
  BY <1>1, <1>2, ConstantTypes
<1>4. (j + 1) * Minute <= k * Minute
  BY <1>3, ConstantTypes
<1> QED
  BY <1>1, <1>2, <1>4, ConstantTypes

LEMMA AlignedSum ==
    ASSUME NEW a, NEW b, Aligned(a), Aligned(b)
    PROVE  Aligned(a + b)
<1>1. PICK j \in Nat : a = j * Minute
  BY DEF Aligned
<1>2. PICK k \in Nat : b = k * Minute
  BY DEF Aligned
<1>3. a + b = (j + k) * Minute
  BY <1>1, <1>2, ConstantTypes
<1> QED
  BY <1>3, ConstantTypes DEF Aligned

\* What Truncate and NextMinute do.
LEMMA TruncateFacts ==
    ASSUME NEW t \in Nat
    PROVE  /\ Aligned(Truncate(t)) /\ Truncate(t) <= t /\ t < Truncate(t) + Minute
           /\ Aligned(t) => Truncate(t) = t
<1>1. t % Minute \in 0 .. Minute - 1 /\ t \div Minute \in Nat
  BY ConstantTypes
<1>2. t = (t \div Minute) * Minute + (t % Minute)
  BY ConstantTypes
<1>3. Truncate(t) = (t \div Minute) * Minute
  BY <1>1, <1>2, ConstantTypes DEF Truncate
<1>4. Aligned(Truncate(t)) /\ Truncate(t) <= t /\ t < Truncate(t) + Minute
  BY <1>1, <1>2, <1>3, ConstantTypes DEF Aligned
<1>5. ASSUME Aligned(t) PROVE Truncate(t) = t
  <2>1. Truncate(t) < t => Truncate(t) + Minute <= t
    BY <1>4, <1>5, MinutesApart
  <2> QED
    BY <1>4, <2>1, ConstantTypes DEF Aligned
<1> QED
  BY <1>4, <1>5

LEMMA NextMinuteFacts ==
    ASSUME NEW t \in Nat
    PROVE  /\ Aligned(NextMinute(t)) /\ NextMinute(t) \in Nat
           /\ t < NextMinute(t) /\ NextMinute(t) <= t + Minute
           /\ t < Minute => NextMinute(t) = Minute
<1>1. Aligned(Minute) /\ Aligned(0)
  <2>1. Minute = 1 * Minute /\ 0 = 0 * Minute
    BY ConstantTypes
  <2> QED
    BY <2>1, ConstantTypes DEF Aligned
<1>2. Aligned(Truncate(t)) /\ Truncate(t) <= t /\ t < Truncate(t) + Minute
  BY TruncateFacts
<1>3. Aligned(NextMinute(t)) /\ Truncate(t) \in Nat
  BY <1>1, <1>2, AlignedSum DEF NextMinute, Aligned
<1>4. ASSUME t < Minute PROVE Truncate(t) = 0
  <2>1. ~(0 < Truncate(t))
    BY <1>1, <1>2, <1>3, <1>4, MinutesApart, ConstantTypes
  <2> QED
    BY <1>3, <2>1
<1> QED
  BY <1>2, <1>3, <1>4, ConstantTypes DEF NextMinute

\* The length of a round, and of the rounds before.
LEMMA PeriodType ==
    ASSUME suite \in Suites
    PROVE  /\ Aligned(Period) /\ Period \in Nat /\ Period >= Minute /\ Period <= LongPeriod
           /\ suite = Feature => Period <= Pause
           /\ suite \subseteq Loads
           /\ suite = Feature => "traces" \notin suite
           /\ RoundTime \in Nat
           /\ RoundTime <= 2 * LongPeriod + Shutdown + Settle + Pause
           /\ Period + Settle + Pause <= RoundTime
<1>1. Aligned(Period) /\ Period >= Minute /\ Period <= LongPeriod
  <2>1. Period \in {ShortPeriod, LongPeriod}
    BY DEF Period
  <2>2. LongPeriod \in Nat /\ LongPeriod <= LongPeriod
    BY ConstantTypes DEF Aligned
  <2> QED
    BY <2>1, <2>2, ConstantTypes
<1>2. Period \in Nat /\ LongPeriod \in Nat
  BY <1>1, ConstantTypes DEF Aligned
<1>3. suite = Feature => Period <= Pause
  BY ConstantTypes DEF Period
<1>4. suite \subseteq Loads /\ (suite = Feature => "traces" \notin suite)
  BY DEF Suites, Feature, Loads
<1>5. /\ RoundTime \in Nat
      /\ RoundTime <= 2 * LongPeriod + Shutdown + Settle + Pause
      /\ Period + Settle + Pause <= RoundTime
  BY <1>1, <1>2, ConstantTypes DEF RoundTime
<1> QED
  BY <1>1, <1>2, <1>3, <1>4, <1>5

LEMMA RoundsFit ==
    ASSUME suite \in Suites, NEW r \in 1 .. StandardRetries
    PROVE  /\ StartBy(r) \in Nat
           /\ StartBy(r + 1) = StartBy(r) + Minute + RoundTime
           /\ StartBy(r) + RoundTime <= Minute + StandardRetries * (Minute + RoundTime)
           /\ Minute + StandardRetries * (Minute + RoundTime) <= Horizon
<1> DEFINE T == Minute + RoundTime
<1>1. T \in Nat /\ RoundTime \in Nat
  BY PeriodType, ConstantTypes
<1> HIDE DEF T
<1>2. ((r + 1) - 1) * T = (r - 1) * T + T
  BY <1>1
<1>3. (r - 1) * T + T <= StandardRetries * T
  BY <1>1, ConstantTypes
<1>4. StandardRetries * T <= StandardRetries *
         (Minute + 2 * LongPeriod + Shutdown + Settle + Pause)
  <2>1. T <= Minute + 2 * LongPeriod + Shutdown + Settle + Pause
    BY <1>1, PeriodType, ConstantTypes DEF T, Aligned
  <2>2. ASSUME NEW x \in Nat, T <= x PROVE StandardRetries * T <= StandardRetries * x
    BY <1>1, <2>2, ConstantTypes
  <2>3. Minute + 2 * LongPeriod + Shutdown + Settle + Pause \in Nat
    BY ConstantTypes DEF Aligned
  <2> QED
    BY <2>1, <2>2, <2>3
<1>5. (r - 1) * T \in Nat
  BY <1>1
<1>6. StartBy(r) = Minute + (r - 1) * T /\ StartBy(r + 1) = Minute + ((r + 1) - 1) * T
  BY DEF StartBy, T
<1>7. T = Minute + RoundTime
  BY DEF T
<1>8. Horizon = Minute + StandardRetries *
         (Minute + 2 * LongPeriod + Shutdown + Settle + Pause)
  BY DEF Horizon
<1>9. StandardRetries * T \in Nat
  BY <1>1, ConstantTypes
<1>10. StartBy(r) \in Nat /\ StartBy(r + 1) = StartBy(r) + Minute + RoundTime
  BY <1>1, <1>2, <1>5, <1>6, <1>7, ConstantTypes
<1>11. StartBy(r) + RoundTime <= Minute + StandardRetries * T
  BY <1>1, <1>3, <1>5, <1>6, <1>7, <1>9, ConstantTypes
<1>12. Minute + StandardRetries * T <= Horizon
  <2> DEFINE H == StandardRetries * (Minute + 2 * LongPeriod + Shutdown + Settle + Pause)
  <2>1. H \in Nat /\ Horizon = Minute + H /\ StandardRetries * T <= H
    BY <1>4, <1>8, ConstantTypes DEF Aligned
  <2> HIDE DEF H
  <2> QED
    BY <1>9, <2>1, ConstantTypes
<1> QED
  BY <1>7, <1>10, <1>11, <1>12

-------------------------------------------------------------------------------
(* The inductive invariant holds initially, and what each step does to it. *)

LEMMA InvInit == Init => IInv
<1> SUFFICES ASSUME Init PROVE IInv
  OBVIOUS
<1>1. now \in Nat /\ now < Minute /\ suite \in Suites
  BY ConstantTypes DEF Init
<1>2. start = Minute /\ wake = Minute /\ Aligned(Minute)
  BY <1>1, NextMinuteFacts DEF Init
<1>3. StartBy(1) = Minute
  <2>1. RoundTime \in Nat /\ 1 - 1 = 0
    BY <1>1, PeriodType
  <2>2. (1 - 1) * (Minute + RoundTime) = 0
    BY <2>1, ConstantTypes
  <2> QED
    BY <2>2, ConstantTypes DEF StartBy
<1>4. Schedule
  BY <1>1, <1>2, <1>3, PeriodType, TruncateFacts, ConstantTypes DEF Init, Schedule
<1>5. Minute <= Horizon /\ Horizon \in Nat
  <2>1. Horizon \in Nat
    BY ConstantTypes DEF Horizon, Aligned
  <2>2. 1 \in 1 .. StandardRetries
    BY ConstantTypes
  <2> QED
    BY <1>1, <1>3, <2>1, <2>2, RoundsFit, PeriodType, ConstantTypes
<1>6. TypeOK
  <2>1. now \in 0 .. Horizon /\ wake \in 0 .. Horizon /\ start \in 0 .. Horizon
    BY <1>1, <1>2, <1>5, ConstantTypes
  <2>2. round \in 1 .. StandardRetries /\ file \in 0 .. round
    BY ConstantTypes DEF Init
  <2> QED
    BY <2>1, <2>2 DEF Init, TypeOK
<1>7. SendersApart /\ PointsApart /\ OwnFile
  BY FS_EmptySet DEF Init, SendersApart, PointsApart, OwnFile
<1> QED
  BY <1>4, <1>6, <1>7 DEF IInv

\* No step changes the suite, and with it the lengths of its phases.
LEMMA SuiteKept ==
    ASSUME [Next]_vars
    PROVE  /\ suite' = suite /\ Period' = Period /\ RoundTime' = RoundTime
           /\ round' = round => StartBy(round)' = StartBy(round)
           /\ StartBy(round)' = StartBy(round')
<1>1. suite' = suite
  BY DEF Next, vars, GenerateLoad, GenerateTraces, Unblock, SleepPeriod, CheckData, Retry,
     Relaunch, GiveUp, Send, Finish, Tick, Terminated
<1>2. Period' = Period
  BY <1>1 DEF Period
<1>3. RoundTime' = RoundTime
  BY <1>1, <1>2 DEF RoundTime
<1> QED
  BY <1>1, <1>2, <1>3 DEF StartBy

\* A schedule within the rounds is within the horizon.
LEMMA InTime ==
    ASSUME suite \in Suites, NEW r \in 1 .. StandardRetries,
           NEW n \in Nat, NEW w \in Nat, NEW b \in Nat,
           b <= StartBy(r), n <= w, w <= b + RoundTime
    PROVE  /\ n \in 0 .. Horizon /\ w \in 0 .. Horizon /\ b \in 0 .. Horizon
           /\ n <= Minute + StandardRetries * (Minute + RoundTime)
<1>1. RoundTime \in Nat /\ StartBy(r) \in Nat
  BY PeriodType, RoundsFit
<1> DEFINE End == Minute + StandardRetries * (Minute + RoundTime)
<1>2. StartBy(r) + RoundTime <= End /\ End <= Horizon
  BY RoundsFit
<1>3. End \in Nat /\ Horizon \in Nat
  BY <1>1, ConstantTypes DEF Horizon, Aligned
<1> HIDE DEF End
<1>4. n <= End /\ w <= End /\ b <= End
  BY <1>1, <1>2, <1>3
<1>5. n <= Horizon /\ w <= Horizon /\ b <= Horizon
  BY <1>2, <1>3, <1>4
<1> QED
  BY <1>4, <1>5 DEF End

\* What the invariant says of the types, as the steps need it.
LEMMA InvTypes ==
    ASSUME IInv
    PROVE  /\ suite \in Suites /\ round \in 1 .. StandardRetries
           /\ now \in Nat /\ wake \in Nat /\ start \in Nat /\ Aligned(start)
           /\ StartBy(round) \in Nat
BY ConstantTypes, TruncateFacts, RoundsFit DEF IInv, TypeOK, Schedule

\* The conjunct of TypeOK that says of the time, from the schedule.
LEMMA TimeTyped ==
    ASSUME IInv, [Next]_vars, Schedule', round' \in 1 .. StandardRetries,
           now' \in Nat, wake' \in Nat, start' \in Nat
    PROVE  now' \in 0 .. Horizon /\ wake' \in 0 .. Horizon /\ start' \in 0 .. Horizon
<1>1. suite \in Suites /\ suite' = suite
  BY InvTypes, SuiteKept
<1>2. start' <= StartBy(round') /\ now' <= wake' /\ wake' <= start' + RoundTime
  BY SuiteKept DEF Schedule
<1> QED
  BY <1>1, <1>2, InTime

\* A sender's step, on a state of the invariant.
LEMMA SendStep ==
    ASSUME IInv, NEW s \in senders, Send(s), [Next]_vars
    PROVE  IInv'
<1> DEFINE t == [s EXCEPT !.next = now + Minute]
           p == [round |-> s.round, load |-> s.load, at |-> now]
<1>1. /\ s \in SenderRecords /\ t \in SenderRecords
      /\ t.round = s.round /\ t.load = s.load /\ t.first = s.first /\ t.stop = s.stop
      /\ t.next = now + Minute /\ s.next = now /\ s.first <= now
  BY InvTypes, ConstantTypes DEF IInv, SendersApart, SenderRecords, Send
<1>2. senders' = (senders \ {s}) \cup {t} /\ points' = points \cup {p}
  BY DEF Send
<1>3. UNCHANGED <<now, suite, round, pc, wake, start, hurt>>
  BY DEF Send
<1> HIDE DEF t
<1>4. Schedule'
  <2>1. senders = {} => FALSE
    OBVIOUS
  <2> QED
    BY <1>3, <2>1, SuiteKept DEF IInv, Schedule
<1>5. SendersApart'
  <2>1. senders' \subseteq SenderRecords
    BY <1>1, <1>2 DEF IInv, SendersApart
  <2>2. ASSUME NEW u \in senders'
        PROVE  /\ now <= u.next /\ now <= u.stop /\ u.first <= u.next
               /\ u.round = round => /\ pc # "aligning" /\ start <= u.first
                                     /\ u.stop <= start + Period + Lag
               /\ u.round # round => u.stop < start
    BY <1>1, <1>2, InvTypes, ConstantTypes DEF IInv, SendersApart, SenderRecords
  <2>3. ASSUME NEW u \in senders', NEW v \in senders'
        PROVE  u.round = v.round /\ (u.load = v.load => u = v)
    BY <1>1, <1>2 DEF IInv, SendersApart
  <2> QED
    BY <1>3, <2>1, <2>2, <2>3, SuiteKept DEF SendersApart
<1>6. PointsApart'
  <2>1. p \in [round : Nat, load : Loads, at : Nat]
    BY <1>1, InvTypes DEF SenderRecords
  <2>2. IsFiniteSet(points')
    BY <1>2, FS_AddElement DEF IInv, PointsApart
  <2>3. now <= s.stop /\ (s.round # round => s.stop < start) /\ s.stop \in Nat
    BY <1>1 DEF IInv, SendersApart, SenderRecords
  <2>4. p.at = now /\ p.round = s.round
    OBVIOUS
  <2>5. p.at <= now /\ (p.round = round \/ p.at < start)
    BY <2>3, <2>4, InvTypes
  <2> HIDE DEF p
  <2> QED
    BY <1>2, <1>3, <2>1, <2>2, <2>5 DEF IInv, PointsApart
<1>7. OwnFile'
  <2>1. ASSUME NEW u \in senders', u.load = "logs", Started(u) PROVE file' = u.round
    <3>1. CASE u = t
      BY <1>1, <2>1, <3>1 DEF Send, IInv, OwnFile
    <3>2. CASE u \in senders /\ u # s
      BY <1>1, <2>1, <3>2 DEF Send, IInv, OwnFile, SendersApart
    <3> QED
      BY <1>2, <3>1, <3>2
  <2> QED
    BY <2>1, SuiteKept DEF OwnFile, Started
<1>8. TypeOK'
  <2>1. s.round \in 1 .. round /\ s.load \in suite
    BY DEF IInv, TypeOK
  <2>2. \A u \in senders' : u.round \in 1 .. round /\ u.load \in suite
    BY <1>1, <1>2, <2>1 DEF IInv, TypeOK
  <2>3. \A u \in points' : u.round \in 1 .. round /\ u.load \in suite
    BY <1>2, <2>1 DEF IInv, TypeOK
  <2>4. file' \in 0 .. round
    BY <2>1, InvTypes DEF IInv, TypeOK, Send
  <2>5. Horizon' = Horizon
    BY DEF Horizon
  <2> QED
    BY <1>3, <2>2, <2>3, <2>4, <2>5 DEF IInv, TypeOK
<1> QED
  BY <1>4, <1>5, <1>6, <1>7, <1>8 DEF IInv

LEMMA FinishStep ==
    ASSUME IInv, NEW s \in senders, Finish(s), [Next]_vars
    PROVE  IInv'
<1>1. senders' = senders \ {s} /\ points' = points
  BY DEF Finish
<1>2. UNCHANGED <<now, suite, round, pc, wake, start>>
  BY DEF Finish
<1>3. Schedule'
  BY <1>1, <1>2, SuiteKept DEF IInv, Schedule
<1>4. SendersApart' /\ PointsApart'
  BY <1>1, <1>2, SuiteKept DEF IInv, SendersApart, PointsApart
<1>5. OwnFile'
  BY <1>1 DEF Finish, IInv, OwnFile, SendersApart, Started
<1>6. TypeOK'
  <2>1. file' \in 0 .. round
    BY InvTypes DEF IInv, TypeOK, Finish
  <2>2. hurt' \in BOOLEAN
    BY DEF IInv, TypeOK, Finish
  <2> QED
    BY <1>1, <1>2, <2>1, <2>2 DEF IInv, TypeOK, Horizon
<1> QED
  BY <1>3, <1>4, <1>5, <1>6 DEF IInv

\* The senders a round launches: typed, of this round, one of each load, and
\* over within their period and their delay.
LEMMA LaunchedFacts ==
    ASSUME IInv, NEW up \in SUBSET suite, NEW delay \in [up -> 0 .. Lag], now = start
    PROVE  /\ Launched(delay) \subseteq SenderRecords
           /\ up = {} => Launched(delay) = {}
           /\ \A s \in Launched(delay) :
                 /\ s.round = round /\ s.load \in suite /\ s.next = s.first
                 /\ start <= s.first /\ start <= s.stop /\ s.stop <= start + Period + Lag
           /\ \A s, t \in Launched(delay) : s.load = t.load => s = t
<1>1. up \subseteq Loads /\ DOMAIN delay = up
  BY PeriodType, InvTypes
<1>2. Period \in Nat /\ Minute \in Nat /\ now \in Nat /\ round \in Nat /\ Lag \in Nat
  BY PeriodType, InvTypes, ConstantTypes
<1>3. \A l \in up : delay[l] \in Nat /\ delay[l] <= Lag
  BY <1>2
<1>4. \A l \in up :
         /\ now + delay[l] + (IF l = "traces" THEN Minute ELSE 0) \in Nat
         /\ now <= now + delay[l] + (IF l = "traces" THEN Minute ELSE 0)
         /\ now + Period + (IF l = "traces" THEN 0 ELSE delay[l]) \in Nat
         /\ now + Period + (IF l = "traces" THEN 0 ELSE delay[l]) <= now + Period + Lag
         /\ now <= now + Period + (IF l = "traces" THEN 0 ELSE delay[l])
  BY <1>2, <1>3
<1>5. Launched(delay) \subseteq SenderRecords
  BY <1>1, <1>2, <1>4 DEF Launched, SenderRecords
<1>6. up = {} => Launched(delay) = {}
  BY <1>1 DEF Launched
<1>7. \A s \in Launched(delay) :
         /\ s.round = round /\ s.load \in suite /\ s.next = s.first
         /\ start <= s.first /\ start <= s.stop /\ s.stop <= start + Period + Lag
  BY <1>1, <1>2, <1>4 DEF Launched
<1>8. \A s, t \in Launched(delay) : s.load = t.load => s = t
  BY <1>1 DEF Launched
<1> QED
  BY <1>5, <1>6, <1>7, <1>8

\* A round starts with no sender of another one under way.
LEMMA StartsAlone ==
    ASSUME IInv, Due("aligning")
    PROVE  now = start /\ senders = {}
<1>1. now = start
  BY DEF IInv, Schedule, Due
<1>2. ASSUME NEW s \in senders PROVE FALSE
  <2>1. s.round # round /\ s.stop < start /\ now <= s.stop /\ s.stop \in Nat
    BY DEF IInv, SendersApart, SenderRecords, Due
  <2> QED
    BY <1>1, <2>1, InvTypes
<1> QED
  BY <1>1, <1>2

\* What a launch leaves is in order, whatever the validator does next.
LEMMA LaunchStep ==
    ASSUME IInv, [Next]_vars, Due("aligning"), pc' # "aligning",
           NEW up \in SUBSET suite, NEW delay \in [up -> 0 .. Lag],
           senders' = senders \cup Launched(delay),
           UNCHANGED <<now, suite, round, start, points, file>>
    PROVE  /\ SendersApart' /\ PointsApart' /\ OwnFile'
           /\ up = {} => senders' = {}
           /\ \A s \in senders' : s.round \in 1 .. round /\ s.load \in suite
<1>1. now = start /\ senders' = Launched(delay)
  BY StartsAlone
<1>2. /\ senders' \subseteq SenderRecords
      /\ up = {} => senders' = {}
      /\ \A s \in senders' :
            /\ s.round = round /\ s.load \in suite /\ s.next = s.first
            /\ start <= s.first /\ start <= s.stop /\ s.stop <= start + Period + Lag
      /\ \A s, t \in senders' : s.load = t.load => s = t
  BY <1>1, LaunchedFacts
<1>3. SendersApart'
  <2>1. \A s \in senders' : now <= s.next /\ now <= s.stop /\ s.first <= s.next
    BY <1>1, <1>2, InvTypes DEF SenderRecords
  <2> QED
    BY <1>2, <2>1, SuiteKept DEF SendersApart
<1>4. PointsApart'
  BY DEF IInv, PointsApart
<1>5. OwnFile'
  <2>1. \A s \in senders' : ~(s.next > s.first)
    BY <1>2 DEF SenderRecords
  <2> QED
    BY <2>1 DEF OwnFile, Started
<1>6. \A s \in senders' : s.round \in 1 .. round /\ s.load \in suite
  BY <1>2, InvTypes
<1> QED
  BY <1>2, <1>3, <1>4, <1>5, <1>6

LEMMA GenerateStep ==
    ASSUME IInv, [Next]_vars, GenerateLoad \/ GenerateTraces
    PROVE  IInv'
<1>1. now = start /\ wake = now /\ senders = {} /\ pc = "aligning"
  BY StartsAlone DEF GenerateLoad, GenerateTraces, Due
<1>2. UNCHANGED <<now, suite, round, start, points, file>>
  BY DEF GenerateLoad, GenerateTraces
<1> DEFINE Launches == SendersApart' /\ PointsApart' /\ OwnFile' /\
                       \A s \in senders' : s.round \in 1 .. round /\ s.load \in suite
<1>3. Launches /\ Schedule' /\ wake' \in Nat /\ hurt' \in BOOLEAN /\
      pc' \in {"pausing", "running", "blocked", "fatal"}
  <2>1. ASSUME NEW up \in SUBSET suite, NEW err \in BOOLEAN, NEW delay \in [up -> 0 .. Lag],
               "traces" \notin suite,
               err => up # suite \/ suite = Feature,
               senders' = senders \cup Launched(delay),
               hurt' = (err \/ up # suite),
               IF err THEN Sleep("pausing", Pause) ELSE Sleep("running", Period)
        PROVE  Launches /\ Schedule' /\ wake' \in Nat /\ hurt' \in BOOLEAN /\
               pc' \in {"pausing", "running"}
    <3>1. Launches /\ (up = {} => senders' = {})
      BY <1>1, <1>2, <2>1, LaunchStep DEF Sleep, Due
    <3>2. CASE err
      <4>1. pc' = "pausing" /\ wake' = start + Pause
        BY <1>1, <2>1, <3>2 DEF Sleep
      <4>2. suite # Feature => up = {}
        BY <2>1, <3>2, InvTypes DEF Suites
      <4>3. wake' \in Nat /\ start <= wake' /\ wake' <= start + RoundTime
        BY <4>1, PeriodType, InvTypes, ConstantTypes
      <4>4. Schedule'
        BY <1>1, <1>2, <3>1, <4>1, <4>2, <4>3, SuiteKept DEF IInv, Schedule
      <4> QED
        BY <2>1, <3>1, <4>1, <4>3, <4>4
    <3>3. CASE ~err
      <4>1. pc' = "running" /\ wake' = start + Period
        BY <1>1, <2>1, <3>3 DEF Sleep
      <4>2. RoundTime = Period + Settle + Pause /\ Period \in Nat
        BY <2>1, PeriodType, InvTypes DEF RoundTime
      <4>3. /\ wake' \in Nat /\ start <= wake' /\ wake' <= start + RoundTime
            /\ wake' = start + RoundTime - Settle - Pause
        BY <4>1, <4>2, InvTypes, ConstantTypes
      <4>4. Schedule'
        BY <1>1, <1>2, <4>1, <4>3, SuiteKept DEF IInv, Schedule
      <4> QED
        BY <2>1, <3>1, <4>1, <4>3, <4>4
    <3> QED
      BY <3>2, <3>3
  <2>2. ASSUME "traces" \in suite, NEW delay \in [suite -> 0 .. Lag],
               senders' = senders \cup Launched(delay),
               Sleep("blocked", Period + Shutdown), hurt' = FALSE
        PROVE  Launches /\ Schedule' /\ wake' \in Nat /\ hurt' \in BOOLEAN /\
               pc' = "blocked"
    <3>1. Launches
      BY <1>1, <1>2, <2>2, LaunchStep DEF Sleep, Due
    <3>2. pc' = "blocked" /\ wake' = start + Period + Shutdown
      BY <1>1, <2>2, PeriodType, InvTypes, ConstantTypes DEF Sleep
    <3>3. RoundTime = 2 * Period + Shutdown + Settle + Pause /\ Period \in Nat
      BY <2>2, PeriodType, InvTypes, ConstantTypes DEF RoundTime
    <3>4. start \in Nat /\ Period \in Nat /\ Shutdown \in Nat /\ Settle \in Nat /\ Pause \in Nat
      BY <3>3, InvTypes, ConstantTypes
    <3>5. wake' \in Nat /\ start <= wake' /\ wake' <= start + RoundTime
      BY <3>2, <3>3, <3>4
    <3>6. Schedule'
      BY <1>1, <1>2, <2>2, <3>2, <3>5, SuiteKept DEF IInv, Schedule
    <3> QED
      BY <2>2, <3>1, <3>2, <3>5, <3>6
  <2>3. ASSUME pc' = "fatal", UNCHANGED <<senders, wake>>, hurt' = FALSE
        PROVE  Launches /\ Schedule' /\ wake' \in Nat /\ hurt' \in BOOLEAN
    <3>1. Schedule'
      BY <1>1, <1>2, <2>3, SuiteKept DEF IInv, Schedule
    <3>2. Launches
      BY <1>1, <1>2, <2>3 DEF IInv, SendersApart, PointsApart, OwnFile
    <3> QED
      BY <2>3, <3>1, <3>2, InvTypes
  <2> QED
    BY <2>1, <2>2, <2>3 DEF GenerateLoad, GenerateTraces
<1>4. now' \in 0 .. Horizon /\ wake' \in 0 .. Horizon /\ start' \in 0 .. Horizon
  BY <1>2, <1>3, InvTypes, TimeTyped
<1>5. TypeOK'
  BY <1>2, <1>3, <1>4 DEF IInv, TypeOK, Horizon
<1> QED
  BY <1>3, <1>5 DEF IInv

\* The sleeps of a round that changes nothing but where it is.
LEMMA PhaseStep ==
    ASSUME IInv, [Next]_vars, Schedule', wake' \in Nat, hurt' \in BOOLEAN,
           pc # "aligning",
           pc' \in {"blocked", "running", "settling", "pausing", "passed", "failed", "fatal"},
           UNCHANGED <<now, suite, round, start, senders, points, file>>
    PROVE  IInv'
<1>1. now' \in 0 .. Horizon /\ wake' \in 0 .. Horizon /\ start' \in 0 .. Horizon
  BY InvTypes, TimeTyped
<1>2. TypeOK'
  BY <1>1 DEF IInv, TypeOK, Horizon
<1>3. SendersApart' /\ PointsApart' /\ OwnFile'
  BY SuiteKept DEF IInv, SendersApart, PointsApart, OwnFile, Started
<1> QED
  BY <1>2, <1>3 DEF IInv

LEMMA SleepStep ==
    ASSUME IInv, [Next]_vars, Unblock \/ SleepPeriod \/ CheckData \/ GiveUp
    PROVE  IInv'
<1>1. /\ UNCHANGED <<now, suite, round, start, senders, points, file>>
      /\ wake = now /\ start <= now /\ pc # "aligning"
  BY DEF Unblock, SleepPeriod, CheckData, GiveUp, Due, IInv, Schedule
<1>2. /\ start \in Nat /\ now \in Nat /\ Period \in Nat /\ Shutdown \in Nat /\ Settle \in Nat
      /\ Pause \in Nat /\ RoundTime \in Nat
  BY InvTypes, PeriodType, ConstantTypes
<1>3. hurt' \in BOOLEAN
  BY DEF Unblock, SleepPeriod, CheckData, GiveUp, IInv, TypeOK
<1>4. CASE Unblock
  <2>1. pc' = "running" /\ wake' = now + Period
    BY <1>4 DEF Unblock, Sleep
  <2>2. "traces" \in suite /\ wake = start + Period + Shutdown
    BY <1>4 DEF Unblock, Due, IInv, Schedule
  <2>3. RoundTime = 2 * Period + Shutdown + Settle + Pause
    BY <2>2 DEF RoundTime
  <2>4. /\ wake' \in Nat /\ now <= wake' /\ wake' <= start + RoundTime
        /\ wake' = start + RoundTime - Settle - Pause
    BY <1>1, <1>2, <2>1, <2>2, <2>3
  <2>5. Schedule'
    BY <1>1, <2>1, <2>4, SuiteKept DEF IInv, Schedule
  <2> QED
    BY <1>1, <1>3, <2>1, <2>4, <2>5, PhaseStep
<1>5. CASE SleepPeriod
  <2>1. pc' = "settling" /\ wake' = now + Settle
    BY <1>5 DEF SleepPeriod, Sleep
  <2>2. wake = start + RoundTime - Settle - Pause
    BY <1>5 DEF SleepPeriod, Due, IInv, Schedule
  <2>3. /\ wake' \in Nat /\ now <= wake' /\ wake' <= start + RoundTime
        /\ wake' = start + RoundTime - Pause
    BY <1>1, <1>2, <2>1, <2>2
  <2>4. Schedule'
    BY <1>1, <2>1, <2>3, SuiteKept DEF IInv, Schedule
  <2> QED
    BY <1>1, <1>3, <2>1, <2>3, <2>4, PhaseStep
<1>6. CASE CheckData
  <2>1. wake = start + RoundTime - Pause
    BY <1>6 DEF CheckData, Due, IInv, Schedule
  <2>2. \/ pc' = "passed" /\ wake' = wake
        \/ pc' = "pausing" /\ wake' = now + Pause
    BY <1>6 DEF CheckData, Sleep
  <2>3. /\ wake' \in Nat /\ now <= wake' /\ wake' <= start + RoundTime
        /\ pc' = "pausing" => wake' = start + RoundTime
    BY <1>1, <1>2, <2>1, <2>2
  <2>4. Schedule'
    BY <1>1, <2>2, <2>3, SuiteKept DEF IInv, Schedule
  <2> QED
    BY <1>1, <1>3, <2>2, <2>3, <2>4, PhaseStep
<1>7. CASE GiveUp
  <2>1. pc' = "failed" /\ wake' = wake
    BY <1>7 DEF GiveUp
  <2>2. Schedule'
    BY <1>1, <2>1, SuiteKept DEF IInv, Schedule
  <2> QED
    BY <1>1, <1>2, <1>3, <2>1, <2>2, PhaseStep
<1> QED
  BY <1>4, <1>5, <1>6, <1>7

\* Every sender of a round is over before the next one starts: when its pause
\* ends, a period of the load has gone by, and the next start is a minute later.
LEMMA OverBeforeNext ==
    ASSUME IInv, Due("pausing"), NEW s \in senders
    PROVE  s.stop < NextMinute(now)
<1>1. /\ now = wake /\ start <= now /\ s.stop \in Nat /\ start \in Nat /\ now \in Nat
      /\ Aligned(start) /\ suite \in Suites
  BY InvTypes DEF IInv, Schedule, Due, SendersApart, SenderRecords
<1>2. now < NextMinute(now) /\ NextMinute(now) \in Nat /\ Aligned(NextMinute(now))
  BY <1>1, NextMinuteFacts
<1>3. CASE s.round # round
  BY <1>1, <1>2, <1>3 DEF IInv, SendersApart
<1>4. CASE s.round = round
  <2>1. s.stop <= start + Period + Lag
    BY <1>4 DEF IInv, SendersApart
  <2>2. start + Period <= now
    <3>1. wake = start + RoundTime \/ (wake = start + Pause /\ suite = Feature)
      BY DEF IInv, Schedule, Due
    <3> QED
      BY <1>1, <3>1, PeriodType, ConstantTypes
  <2>3. Aligned(start + Period) /\ start + Period \in Nat /\ Period \in Nat
    BY <1>1, PeriodType, AlignedSum
  <2>4. start + Period < NextMinute(now)
    BY <1>1, <1>2, <2>2, <2>3
  <2>5. start + Period + Minute <= NextMinute(now)
    BY <1>2, <2>3, <2>4, MinutesApart
  <2> QED
    BY <1>1, <1>2, <2>1, <2>3, <2>5, ConstantTypes
<1> QED
  BY <1>3, <1>4

LEMMA RetryStep ==
    ASSUME IInv, [Next]_vars, Retry
    PROVE  IInv'
<1>1. /\ now = wake /\ start <= now /\ round < StandardRetries /\ round' = round + 1
      /\ start' = NextMinute(now) /\ wake' = start' /\ pc' = "aligning"
      /\ points' = {p \in points : p.at >= Truncate(start')}
      /\ UNCHANGED <<now, suite, senders, file, hurt>>
  BY DEF Retry, Relaunch, Due, IInv, Schedule
<1>2. /\ now \in Nat /\ start \in Nat /\ suite \in Suites /\ round \in 1 .. StandardRetries
      /\ StartBy(round) \in Nat /\ RoundTime \in Nat
  BY InvTypes, PeriodType
<1>3. /\ Aligned(start') /\ start' \in Nat /\ now < start' /\ start' <= now + Minute
      /\ Truncate(start') = start' /\ start' <= start' + RoundTime
  BY <1>1, <1>2, NextMinuteFacts, TruncateFacts
<1>4. Schedule'
  <2>1. start' <= start + RoundTime + Minute /\ start <= StartBy(round)
    BY <1>1, <1>2, <1>3, ConstantTypes DEF IInv, Schedule
  <2>2. StartBy(round + 1) = StartBy(round) + Minute + RoundTime
    BY <1>2, RoundsFit
  <2>3. start' <= StartBy(round')
    BY <1>1, <1>2, <1>3, <2>1, <2>2, ConstantTypes
  <2>4. now' <= wake'
    BY <1>1, <1>2, <1>3
  <2> QED
    BY <1>1, <1>3, <2>3, <2>4, SuiteKept DEF Schedule
<1>5. round' \in 1 .. StandardRetries /\ round' \in Nat
  BY <1>1, <1>2, ConstantTypes
<1>6. SendersApart'
  <2>1. ASSUME NEW s \in senders PROVE s.round # round' /\ s.stop < start'
    <3>1. s.round \in 1 .. round
      BY DEF IInv, TypeOK
    <3>2. s.stop < start'
      BY <1>1, OverBeforeNext DEF Retry
    <3> QED
      BY <1>1, <1>2, <3>1, <3>2
  <2> QED
    BY <1>1, <2>1 DEF IInv, SendersApart
<1>7. PointsApart'
  <2>1. IsFiniteSet(points') /\ points' \subseteq points
    BY <1>1, FS_Subset DEF IInv, PointsApart
  <2>2. ASSUME NEW p \in points' PROVE p.at < start'
    BY <1>1, <1>2, <1>3, <2>1 DEF IInv, PointsApart
  <2> QED
    BY <1>1, <2>1, <2>2 DEF IInv, PointsApart
<1>8. OwnFile'
  BY <1>1 DEF IInv, OwnFile, Started
<1>9. TypeOK'
  <2>1. now' \in 0 .. Horizon /\ wake' \in 0 .. Horizon /\ start' \in 0 .. Horizon
    BY <1>1, <1>2, <1>3, <1>4, <1>5, TimeTyped
  <2>2. 1 .. round \subseteq 1 .. round' /\ 0 .. round \subseteq 0 .. round'
    BY <1>1, <1>2
  <2> QED
    BY <1>1, <1>5, <2>1, <2>2 DEF IInv, TypeOK, Horizon
<1> QED
  BY <1>4, <1>6, <1>7, <1>8, <1>9 DEF IInv

LEMMA TickStep ==
    ASSUME IInv, [Next]_vars, Tick
    PROVE  IInv'
<1>1. /\ now' = now + 1 /\ now < wake /\ \A s \in senders : now < s.next /\ now < s.stop
      /\ UNCHANGED <<suite, round, pc, wake, start, senders, points, file, hurt>>
  BY InvTypes DEF Tick, IInv, SendersApart, SenderRecords
<1>2. now \in Nat /\ wake \in Nat /\ start \in Nat
  BY InvTypes
<1>3. Schedule'
  <2>1. now' <= wake' /\ (start <= now => start <= now')
    BY <1>1, <1>2
  <2> QED
    BY <1>1, <2>1, SuiteKept DEF IInv, Schedule
<1>4. SendersApart'
  <2>1. \A s \in senders : now' <= s.next /\ now' <= s.stop
    BY <1>1, <1>2 DEF IInv, SendersApart, SenderRecords
  <2> QED
    BY <1>1, <2>1, SuiteKept DEF IInv, SendersApart
<1>5. PointsApart'
  <2>1. \A p \in points : p.at <= now'
    BY <1>1, <1>2 DEF IInv, PointsApart
  <2> QED
    BY <1>1, <2>1 DEF IInv, PointsApart
<1>6. OwnFile'
  BY <1>1 DEF IInv, OwnFile, Started
<1>7. TypeOK'
  <2>1. now' \in 0 .. Horizon /\ wake' \in 0 .. Horizon /\ start' \in 0 .. Horizon
    BY <1>1, <1>2, <1>3, InvTypes, TimeTyped
  <2> QED
    BY <1>1, <2>1 DEF IInv, TypeOK, Horizon
<1> QED
  BY <1>3, <1>4, <1>5, <1>6, <1>7 DEF IInv

LEMMA InvStep == IInv /\ [Next]_vars => IInv'
<1> SUFFICES ASSUME IInv, [Next]_vars PROVE IInv'
  OBVIOUS
<1>1. CASE UNCHANGED vars
  BY <1>1 DEF vars, IInv, TypeOK, Schedule, SendersApart, PointsApart, OwnFile, Horizon,
     Started, StartBy, RoundTime, Period
<1>2. CASE Next
  BY <1>1, <1>2, GenerateStep, SleepStep, RetryStep, TickStep, SendStep, FinishStep
  DEF Next, Terminated
<1> QED
  BY <1>1, <1>2

LEMMA Invariant == Spec => []IInv
BY InvInit, InvStep, PTL DEF Spec

-------------------------------------------------------------------------------
(* The theorems.                                                           *)

\* Every variable keeps its type, the clock within the horizon included.
THEOREM TypeCorrect == Spec => []TypeOK
<1>1. IInv => TypeOK
  BY DEF IInv
<1> QED
  BY <1>1, Invariant, PTL

LEMMA WindowIsPure == IInv => WindowPure
<1> SUFFICES ASSUME IInv, NEW p \in Window PROVE p.round = round
  BY DEF WindowPure
<1>1. p \in points /\ p.at >= Truncate(start) /\ p.at \in Nat /\ start = Truncate(start)
  BY DEF Window, IInv, PointsApart, Schedule
<1> QED
  BY <1>1, InvTypes DEF IInv, PointsApart

\* A round is judged by its own load, whatever the senders of the rounds before
\* it did, for every length of the sleeps that LoopAssumption allows.
THEOREM WindowPureHolds == Spec => []WindowPure
BY WindowIsPure, Invariant, PTL

\* A log writer that is at it has the file it created.
THEOREM FileIntactHolds == Spec => []FileIntact
<1>1. IInv => FileIntact
  BY DEF IInv, OwnFile, FileIntact
<1> QED
  BY <1>1, Invariant, PTL

\* The validator is over in time, its rounds and retries included.
THEOREM OnTimeHolds == Spec => []OnTime
<1>1. IInv => OnTime
  BY InvTypes, InTime DEF IInv, Schedule, OnTime
<1> QED
  BY <1>1, Invariant, PTL

\* With CheckData satisfied the window holds the load of its round, of each kind.
LEMMA EarnedStep ==
    ASSUME IInv, WindowPure, CheckData, pc' = "passed", suite = Feature
    PROVE  \A l \in suite :
              Cardinality({p \in Window : p.round = round /\ p.load = l}) >= Samples
<1>1. PICK seen \in SUBSET Window : AllOK(seen)
  BY DEF CheckData, Sleep
<1>2. pc = "settling"
  BY DEF CheckData, Due
<1>3. \A p \in Window : p.round = round
  BY <1>2 DEF WindowPure, Ended
<1>4. IsFiniteSet(Window)
  BY FS_Subset DEF Window, IInv, PointsApart
<1>5. Samples \in Int
  BY ConstantTypes DEF Samples, Aligned
<1>6. ASSUME NEW l \in suite
      PROVE  Cardinality({p \in Window : p.round = round /\ p.load = l}) >= Samples
  <2> DEFINE Mine == {p \in Window : p.round = round /\ p.load = l}
  <2>1. Of(l, seen) \subseteq Mine /\ IsFiniteSet(Mine)
    BY <1>3, <1>4, FS_Subset DEF Of
  <2>2. Cardinality(Of(l, seen)) <= Cardinality(Mine) /\ IsFiniteSet(Of(l, seen))
    BY <2>1, FS_Subset
  <2>3. Cardinality(Of(l, seen)) \in Nat /\ Cardinality(Mine) \in Nat
    BY <2>1, <2>2, FS_CardinalityType
  <2>4. Cardinality(Of(l, seen)) >= Samples
    BY <1>1, <1>5 DEF AllOK, MetricsOK, LogsOK, Feature
  <2> QED
    BY <1>5, <2>2, <2>3, <2>4
<1> QED
  BY <1>6

\* A feature test that passed had the load of that very round in its window.
THEOREM PassIsEarnedHolds == Spec => []PassIsEarned
<1>1. Init => PassIsEarned
  BY DEF Init, PassIsEarned
<1>2. IInv /\ PassIsEarned /\ [Next]_vars => PassIsEarned'
  <2> SUFFICES ASSUME IInv, PassIsEarned, [Next]_vars, suite' = Feature, pc' = "passed"
               PROVE  PassIsEarned'
    BY DEF PassIsEarned
  <2>1. suite = Feature
    BY SuiteKept
  <2>2. CASE CheckData
    <3>1. /\ Window' = Window /\ Samples' = Samples /\ round' = round /\ suite' = suite
      BY <2>2, SuiteKept DEF CheckData, Window, Samples, Truncate
    <3>2. WindowPure
      BY WindowIsPure
    <3> QED
      BY <2>1, <2>2, <3>1, <3>2, EarnedStep DEF PassIsEarned
  <2>3. CASE UNCHANGED vars
    BY <2>3 DEF vars, PassIsEarned, Window, Samples, Truncate, Period
  <2>4. CASE Next /\ ~CheckData
    <3>1. UNCHANGED vars
      BY <2>4 DEF Next, GenerateLoad, GenerateTraces, Unblock, SleepPeriod, Retry, Relaunch,
         GiveUp, Send, Finish, Tick, Terminated, Ended, Sleep
    <3> QED
      BY <2>3, <3>1
  <2> QED
    BY <2>2, <2>3, <2>4
<1> QED
  BY <1>1, <1>2, Invariant, PTL DEF Spec


-------------------------------------------------------------------------------
(* A feature test that nothing has disturbed passes.                       *)

\* Period in batches.
LEMMA SamplesFacts ==
    /\ Samples \in Nat /\ ShortPeriod = Samples * Minute
<1>1. PICK k \in Nat : ShortPeriod = k * Minute
  BY ConstantTypes DEF Aligned
<1>2. (k * Minute) \div Minute = k
  BY ConstantTypes
<1> QED
  BY <1>1, <1>2 DEF Samples

\* Batches a minute apart are as many as their number.
LEMMA BatchesCount ==
    ASSUME NEW l, NEW f \in Nat, NEW n \in Nat
    PROVE  IsFiniteSet(Batches(l, f, n)) /\ Cardinality(Batches(l, f, n)) = n
<1> DEFINE b(k) == [round |-> round, load |-> l, at |-> f + k * Minute]
           F == [k \in 0 .. n - 1 |-> b(k)]
<1>1. F \in [0 .. n - 1 -> Batches(l, f, n)]
  BY DEF Batches
<1>2. ASSUME NEW j \in 0 .. n - 1, NEW k \in 0 .. n - 1, F[j] = F[k] PROVE j = k
  <2>1. f + j * Minute = f + k * Minute
    BY <1>2
  <2>2. j * Minute \in Int /\ k * Minute \in Int
    BY ConstantTypes
  <2>3. j * Minute = k * Minute
    BY <2>1, <2>2
  <2>4. j < k => j * Minute + Minute <= k * Minute
    <3>1. j < k => (j + 1) * Minute <= k * Minute
      BY ConstantTypes
    <3> QED
      BY <3>1, ConstantTypes
  <2>5. k < j => k * Minute + Minute <= j * Minute
    <3>1. k < j => (k + 1) * Minute <= j * Minute
      BY ConstantTypes
    <3> QED
      BY <3>1, ConstantTypes
  <2> QED
    BY <2>2, <2>3, <2>4, <2>5, ConstantTypes
<1>3. \A x \in Batches(l, f, n) : \E k \in 0 .. n - 1 : F[k] = x
  BY DEF Batches
<1>4. F \in Bijection(0 .. n - 1, Batches(l, f, n))
  BY <1>1, <1>2, <1>3 DEF Bijection, Injection, Surjection, IsInjective
<1>5. ExistsBijection(0 .. n - 1, Batches(l, f, n))
  BY <1>4 DEF ExistsBijection
<1>6. IsFiniteSet(0 .. n - 1) /\ Cardinality(0 .. n - 1) = n
  BY FS_Interval
<1> QED
  BY <1>5, <1>6, FS_Bijection

\* One batch more.
LEMMA BatchesGrow ==
    ASSUME NEW l, NEW f \in Nat, NEW n \in Nat
    PROVE  Batches(l, f, n + 1) = Batches(l, f, n) \cup
              {[round |-> round, load |-> l, at |-> f + n * Minute]}
<1>1. 0 .. (n + 1) - 1 = (0 .. n - 1) \cup {n}
  OBVIOUS
<1> QED
  BY <1>1 DEF Batches

\* While the load of a round is on, only senders of that round are at it.
LEMMA OnlyOwnSenders ==
    ASSUME IInv, pc \in {"running", "settling"}
    PROVE  \A s \in senders : s.round = round /\ now <= s.stop /\ now <= s.next
<1>1. start <= now /\ start \in Nat /\ now \in Nat
  BY InvTypes DEF IInv, Schedule
<1> QED
  BY <1>1 DEF IInv, SendersApart, SenderRecords

LEMMA SteadyLaunch ==
    ASSUME IInv, Fresh, GenerateLoad, [Next]_vars, suite = Feature, ~hurt', pc' = "running"
    PROVE  Steady'
<1>1. senders = {} /\ now = start /\ pc = "aligning"
  BY StartsAlone DEF GenerateLoad, Due
<1>2. PICK delay \in [suite -> 0 .. Lag] : senders' = Launched(delay)
  BY <1>1 DEF GenerateLoad, Sleep
<1>3. UNCHANGED <<now, suite, round, start, points>>
  BY DEF GenerateLoad
<1>4. ASSUME NEW l \in Feature
      PROVE  LET f == start + delay[l]
             IN  /\ f \in start .. start + Lag
                 /\ Sent(l) = Batches(l, f, 0)
                 /\ [round |-> round, load |-> l, next |-> f + 0 * Minute,
                     first |-> f, stop |-> f + Period] \in senders'
  <2> DEFINE f == start + delay[l]
  <2>1. delay[l] \in 0 .. Lag /\ l # "traces" /\ start \in Nat
    BY <1>4, InvTypes DEF Feature
  <2>2. f \in start .. start + Lag /\ f \in Nat /\ f = now + delay[l] + 0 /\ f + 0 * Minute = f
    BY <1>1, <2>1, ConstantTypes
  <2>3. f + Period = now + Period + delay[l]
    BY <1>1, <2>1, InvTypes, PeriodType, ConstantTypes
  <2>4. [round |-> round, load |-> l, next |-> f, first |-> f, stop |-> f + Period]
           \in Launched(delay)
    BY <1>4, <2>1, <2>2, <2>3 DEF Launched
  <2>5. Batches(l, f, 0) = {}
    BY DEF Batches
  <2>6. Sent(l) = {}
    BY <1>1 DEF Fresh, Sent
  <2> QED
    BY <1>2, <2>2, <2>4, <2>5, <2>6
<1>5. ASSUME NEW l \in Feature
      PROVE  \E f \in start .. start + Lag, n \in Nat :
                /\ Sent(l) = Batches(l, f, n)
                /\ [round |-> round, load |-> l, next |-> f + n * Minute,
                    first |-> f, stop |-> f + Period] \in senders'
  <2>1. 0 \in Nat
    OBVIOUS
  <2> QED
    BY <1>4, <1>5, <2>1
<1> QED
  BY <1>3, <1>5, SuiteKept DEF Steady, Sent, Batches

LEMMA SteadySend ==
    ASSUME IInv, Steady, NEW s \in senders, Send(s), [Next]_vars
    PROVE  Steady'
<1>1. UNCHANGED <<now, suite, round, pc, wake, start, hurt>>
  BY DEF Send
<1> SUFFICES ASSUME suite = Feature, ~hurt, pc \in {"running", "settling"},
                    NEW l \in Feature
             PROVE  \E f \in start .. start + Lag, n \in Nat :
                       /\ Sent(l)' = Batches(l, f, n)
                       /\ \/ [round |-> round, load |-> l, next |-> f + n * Minute,
                              first |-> f, stop |-> f + Period] \in senders'
                          \/ n * Minute >= Period /\ \A t \in senders' : t.load # l
  BY <1>1, SuiteKept DEF Steady, Batches
<1> DEFINE p == [round |-> s.round, load |-> s.load, at |-> now]
           u == [s EXCEPT !.next = now + Minute]
<1>2. points' = points \cup {p} /\ senders' = (senders \ {s}) \cup {u} /\ s.next = now
  BY DEF Send
<1>3. s.round = round /\ s \in SenderRecords
  BY OnlyOwnSenders DEF IInv, SendersApart
<1>4. PICK f \in start .. start + Lag, n \in Nat :
         /\ Sent(l) = Batches(l, f, n)
         /\ \/ [round |-> round, load |-> l, next |-> f + n * Minute,
                first |-> f, stop |-> f + Period] \in senders
            \/ n * Minute >= Period /\ \A t \in senders : t.load # l
  BY DEF Steady
<1>5. f \in Nat
  BY <1>4, InvTypes, ConstantTypes
<1>6. CASE s.load = l
  <2>1. s = [round |-> round, load |-> l, next |-> f + n * Minute, first |-> f,
             stop |-> f + Period]
    BY <1>4, <1>6 DEF IInv, SendersApart
  <2>2. s.next = f + n * Minute
    BY <2>1
  <2>3. now = f + n * Minute
    BY <1>2, <2>2
  <2>4. n * Minute \in Nat /\ (n + 1) * Minute = n * Minute + Minute
    BY ConstantTypes
  <2>5. now + Minute = f + (n + 1) * Minute
    BY <1>5, <2>3, <2>4, ConstantTypes
  <2>6. u = [round |-> round, load |-> l, next |-> f + (n + 1) * Minute, first |-> f,
             stop |-> f + Period]
    BY <2>1, <2>5
  <2>7. p = [round |-> round, load |-> l, at |-> f + n * Minute]
    BY <1>3, <1>6, <2>3
  <2>8. Sent(l)' = Sent(l) \cup {p}
    BY <1>1, <1>2, <1>3, <1>6 DEF Sent
  <2>9. Sent(l)' = Batches(l, f, n + 1)
    BY <1>4, <1>5, <2>7, <2>8, BatchesGrow
  <2>10. n + 1 \in Nat /\ u \in senders'
    BY <1>2
  <2> QED
    BY <2>6, <2>9, <2>10
<1>7. CASE s.load # l
  <2>1. Sent(l)' = Sent(l)
    BY <1>1, <1>2, <1>7 DEF Sent
  <2>2. u.load = s.load
    BY <1>3 DEF SenderRecords
  <2> DEFINE mine == [round |-> round, load |-> l, next |-> f + n * Minute, first |-> f,
                      stop |-> f + Period]
  <2>3. mine.load = l
    OBVIOUS
  <2> HIDE DEF mine, u
  <2>4. mine \in senders => mine \in senders'
    BY <1>2, <1>7, <2>3
  <2>5. (\A t \in senders : t.load # l) => \A t \in senders' : t.load # l
    BY <1>2, <1>7, <2>2
  <2> QED
    BY <1>4, <2>1, <2>4, <2>5 DEF mine
<1> QED
  BY <1>6, <1>7

LEMMA SteadyFinish ==
    ASSUME IInv, Steady, NEW s \in senders, Finish(s), [Next]_vars
    PROVE  Steady'
<1>1. UNCHANGED <<now, suite, round, pc, wake, start, points>>
  BY DEF Finish
<1>2. ~hurt' => ~hurt
  BY DEF Finish, IInv, TypeOK
<1> SUFFICES ASSUME suite = Feature, ~hurt', pc \in {"running", "settling"},
                    NEW l \in Feature
             PROVE  \E f \in start .. start + Lag, n \in Nat :
                       /\ Sent(l) = Batches(l, f, n)
                       /\ \/ [round |-> round, load |-> l, next |-> f + n * Minute,
                              first |-> f, stop |-> f + Period] \in senders'
                          \/ n * Minute >= Period /\ \A t \in senders' : t.load # l
  BY <1>1, SuiteKept DEF Steady, Batches, Sent
<1>3. s.round = round /\ s \in SenderRecords /\ senders' = senders \ {s}
  BY OnlyOwnSenders DEF IInv, SendersApart, Finish
<1>4. s.stop = now /\ now <= s.next
  BY <1>3, OnlyOwnSenders DEF Finish
<1>5. PICK f \in start .. start + Lag, n \in Nat :
         /\ Sent(l) = Batches(l, f, n)
         /\ \/ [round |-> round, load |-> l, next |-> f + n * Minute,
                first |-> f, stop |-> f + Period] \in senders
            \/ n * Minute >= Period /\ \A t \in senders : t.load # l
  BY <1>2 DEF Steady
<1>6. CASE s.load = l
  <2>1. s = [round |-> round, load |-> l, next |-> f + n * Minute, first |-> f,
             stop |-> f + Period]
    BY <1>5, <1>6 DEF IInv, SendersApart
  <2>2. s.next = f + n * Minute /\ s.stop = f + Period
    BY <2>1
  <2>3. f + Period <= f + n * Minute
    BY <1>4, <2>2
  <2>4. f \in Nat /\ n * Minute \in Nat /\ Period \in Nat
    BY <1>5, InvTypes, PeriodType, ConstantTypes
  <2>5. n * Minute >= Period
    BY <2>3, <2>4
  <2>6. \A t \in senders' : t.load # l
    BY <1>3, <1>6 DEF IInv, SendersApart
  <2> QED
    BY <1>5, <2>5, <2>6
<1>7. CASE s.load # l
  BY <1>3, <1>5, <1>7
<1> QED
  BY <1>6, <1>7

\* When the data is looked at, the undisturbed load of the window is exact.
LEMMA SteadyJudged ==
    ASSUME IInv, Steady, Due("settling"), suite = Feature, ~hurt
    PROVE  AllOK(Window)
<1>1. ASSUME NEW l \in Feature PROVE Cardinality(Of(l, Window)) = Samples
  <2>1. PICK f \in start .. start + Lag, n \in Nat :
           /\ Sent(l) = Batches(l, f, n)
           /\ \/ [round |-> round, load |-> l, next |-> f + n * Minute,
                  first |-> f, stop |-> f + Period] \in senders
              \/ n * Minute >= Period /\ \A t \in senders : t.load # l
    BY DEF Steady, Due
  <2>2. /\ start \in Nat /\ now \in Nat /\ f \in Nat /\ start <= f /\ f <= start + Lag
        /\ Lag < Minute /\ Minute \in Nat /\ Minute > 0 /\ Lag \in Nat
    BY InvTypes, ConstantTypes
  <2>3. Period = Samples * Minute /\ Samples \in Nat /\ Period \in Nat
    BY SamplesFacts, PeriodType, InvTypes DEF Period
  <2>4. start + Period <= now
    <3>1. now = start + RoundTime - Pause
      BY DEF Due, IInv, Schedule
    <3>2. RoundTime = Period + Settle + Pause
      BY PeriodType, InvTypes DEF RoundTime
    <3> QED
      BY <2>2, <2>3, <3>1, <3>2, ConstantTypes
  <2>5. n * Minute + Minute > Samples * Minute
    <3>1. CASE n * Minute >= Period
      <4>1. n * Minute \in Nat
        BY <2>2
      <4> QED
        BY <2>2, <2>3, <3>1, <4>1
    <3>2. CASE [round |-> round, load |-> l, next |-> f + n * Minute,
                first |-> f, stop |-> f + Period] \in senders
      <4>1. now <= f + n * Minute
        BY <3>2, OnlyOwnSenders DEF Due
      <4>2. n * Minute \in Nat
        BY <2>2
      <4>3. start + Samples * Minute <= f + n * Minute /\ Samples * Minute \in Nat
        BY <2>2, <2>3, <2>4, <4>1, <4>2
      <4> QED
        BY <2>2, <4>2, <4>3
    <3> QED
      BY <2>1, <3>1, <3>2
  <2>6. Samples <= n
    <3>1. ASSUME n < Samples PROVE FALSE
      <4>1. (n + 1) * Minute <= Samples * Minute
        BY <2>2, <2>3, <3>1
      <4>2. (n + 1) * Minute = n * Minute + Minute
        BY <2>2
      <4>3. n * Minute \in Nat /\ Samples * Minute \in Nat
        BY <2>2, <2>3
      <4> QED
        BY <2>2, <2>5, <4>1, <4>2, <4>3
    <3> QED
      BY <2>3, <3>1
  <2>7. ASSUME NEW k \in Nat PROVE /\ start <= f + k * Minute
                                   /\ f + k * Minute < start + Period <=> k < Samples
    <3>1. k * Minute \in Nat /\ Samples * Minute \in Nat
      BY <2>2, <2>3
    <3>2. k < Samples => k * Minute + Minute <= Samples * Minute
      <4>1. k < Samples => (k + 1) * Minute <= Samples * Minute
        BY <2>2, <2>3
      <4>2. (k + 1) * Minute = k * Minute + Minute
        BY <2>2
      <4> QED
        BY <4>1, <4>2
    <3>3. k >= Samples => k * Minute >= Samples * Minute
      BY <2>2, <2>3
    <3> QED
      BY <2>2, <2>3, <3>1, <3>2, <3>3
  <2>8. Truncate(start) = start /\ Truncate(start + Period) = start + Period
    <3>1. Aligned(start + Period) /\ Aligned(start) /\ start + Period \in Nat
      BY <2>2, <2>3, InvTypes, PeriodType, AlignedSum
    <3> QED
      BY <2>2, <3>1, TruncateFacts
  <2>9. Of(l, Window) = {p \in Sent(l) : p.at >= start /\ p.at < start + Period}
    <3>1. \A p \in Window : p.round = round
      BY WindowIsPure DEF WindowPure, Ended, Due
    <3> QED
      BY <2>8, <3>1 DEF Of, Window, Sent
  <2>10. Of(l, Window) = Batches(l, f, Samples)
    <3>1. ASSUME NEW p \in Of(l, Window) PROVE p \in Batches(l, f, Samples)
      <4>1. p \in Batches(l, f, n) /\ p.at < start + Period
        BY <2>1, <2>9
      <4>2. PICK k \in 0 .. n - 1 : p = [round |-> round, load |-> l, at |-> f + k * Minute]
        BY <4>1 DEF Batches
      <4>3. p.at = f + k * Minute
        BY <4>2
      <4>4. k < Samples
        BY <2>7, <4>1, <4>3
      <4>5. k \in 0 .. Samples - 1
        BY <2>3, <4>4
      <4> QED
        BY <4>2, <4>5 DEF Batches
    <3>2. ASSUME NEW p \in Batches(l, f, Samples) PROVE p \in Of(l, Window)
      <4>1. PICK k \in 0 .. Samples - 1 :
               p = [round |-> round, load |-> l, at |-> f + k * Minute]
        BY DEF Batches
      <4>2. k \in 0 .. n - 1 /\ k \in Nat /\ k < Samples
        BY <2>3, <2>6
      <4>3. p \in Sent(l)
        BY <2>1, <4>1, <4>2 DEF Batches
      <4>4. p.at = f + k * Minute
        BY <4>1
      <4>5. p.at >= start /\ p.at < start + Period
        BY <2>2, <2>7, <4>2, <4>4
      <4> QED
        BY <2>9, <4>3, <4>5
    <3> QED
      BY <3>1, <3>2
  <2> QED
    BY <2>2, <2>3, <2>10, BatchesCount
<1>2. Samples \in Nat
  BY SamplesFacts
<1> QED
  BY <1>1, <1>2 DEF AllOK, MetricsOK, LogsOK, Feature

LEMMA HealthyStep ==
    ASSUME IInv, HealthyInv, [Next]_vars
    PROVE  HealthyInv'
<1>1. CASE UNCHANGED vars
  BY <1>1 DEF vars, HealthyInv, Steady, Fresh, HealthyPasses, Sent, Batches, Period
<1>2. CASE GenerateLoad
  <2>1. Fresh' /\ pc' \in {"pausing", "running"}
    BY <1>2 DEF GenerateLoad, Sleep, Fresh
  <2>2. pc' = "pausing" => hurt'
    BY <1>2 DEF GenerateLoad, Sleep
  <2>3. Steady'
    <3>1. CASE suite = Feature /\ ~hurt' /\ pc' = "running"
      BY <1>2, <3>1, SteadyLaunch DEF HealthyInv
    <3>2. CASE ~(suite = Feature /\ ~hurt' /\ pc' = "running")
      BY <2>1, <3>2, SuiteKept DEF Steady
    <3> QED
      BY <3>1, <3>2
  <2> QED
    BY <2>1, <2>2, <2>3 DEF HealthyInv, HealthyPasses
<1>3. CASE GenerateTraces \/ Unblock
  <2>1. suite # Feature
    BY <1>3, InvTypes, PeriodType DEF GenerateTraces, Unblock, Due, IInv, Schedule
  <2>2. pc' # "aligning"
    BY <1>3 DEF GenerateTraces, Unblock, Sleep
  <2> QED
    BY <2>1, <2>2, SuiteKept DEF HealthyInv, Steady, Fresh, HealthyPasses
<1>4. CASE SleepPeriod
  <2>1. pc = "running" /\ pc' = "settling"
    BY <1>4 DEF SleepPeriod, Sleep, Due
  <2>2. UNCHANGED <<now, suite, round, start, senders, points, hurt>>
    BY <1>4 DEF SleepPeriod
  <2> QED
    BY <2>1, <2>2, SuiteKept DEF HealthyInv, Steady, Fresh, HealthyPasses, Sent, Batches
<1>5. CASE CheckData
  <2>1. pc' \in {"passed", "pausing"}
    BY <1>5 DEF CheckData, Sleep
  <2>2. ASSUME suite = Feature, pc' = "pausing", ~hurt' PROVE FALSE
    <3>1. ~hurt /\ ~AllOK(Window)
      BY <1>5, <2>2 DEF CheckData, Sleep, IInv, TypeOK
    <3> QED
      BY <1>5, <2>2, <3>1, SteadyJudged DEF CheckData, HealthyInv
  <2> QED
    BY <2>1, <2>2, SuiteKept DEF HealthyInv, Steady, Fresh, HealthyPasses
<1>6. CASE Retry
  <2>1. Fresh'
    <3>1. round' = round + 1 /\ points' \subseteq points
      BY <1>6 DEF Retry, Relaunch
    <3>2. \A p \in points : p.round \in 1 .. round
      BY DEF IInv, TypeOK
    <3> QED
      BY <3>1, <3>2, InvTypes DEF Fresh
  <2>2. pc' = "aligning"
    BY <1>6 DEF Retry, Relaunch
  <2> QED
    BY <2>1, <2>2 DEF HealthyInv, Steady, HealthyPasses
<1>7. CASE GiveUp
  BY <1>7 DEF GiveUp, HealthyInv, Steady, Fresh, HealthyPasses
<1>8. CASE Tick
  BY <1>8, SuiteKept DEF Tick, HealthyInv, Steady, Fresh, HealthyPasses, Sent, Batches
<1>9. ASSUME NEW s \in senders, Send(s) PROVE HealthyInv'
  <2>1. UNCHANGED <<suite, round, pc, hurt>>
    BY <1>9 DEF Send
  <2>2. Fresh'
    <3>1. pc = "aligning" => s.round # round
      BY DEF IInv, SendersApart
    <3>2. points' = points \cup {[round |-> s.round, load |-> s.load, at |-> now]}
      BY <1>9 DEF Send
    <3> QED
      BY <2>1, <3>1, <3>2 DEF HealthyInv, Fresh
  <2> QED
    BY <1>9, <2>1, <2>2, SteadySend DEF HealthyInv, HealthyPasses
<1>10. ASSUME NEW s \in senders, Finish(s) PROVE HealthyInv'
  <2>1. UNCHANGED <<suite, round, pc, points>> /\ (hurt => hurt')
    BY <1>10 DEF Finish, IInv, TypeOK
  <2> QED
    BY <1>10, <2>1, SteadyFinish DEF HealthyInv, HealthyPasses, Fresh
<1> QED
  BY <1>1, <1>2, <1>3, <1>4, <1>5, <1>6, <1>7, <1>8, <1>9, <1>10 DEF Next, Terminated

\* With no fault outside the validator a feature test passes in its first round:
\* however its senders are delayed, the window has exactly the samples it wants.
THEOREM HealthyPassesHolds == Spec => []HealthyPasses
<1>1. Init => HealthyInv
  BY DEF Init, HealthyInv, Steady, Fresh, HealthyPasses
<1>2. IInv /\ HealthyInv /\ [Next]_vars => HealthyInv'
  BY HealthyStep
<1>3. HealthyInv => HealthyPasses
  BY DEF HealthyInv
<1> QED
  BY <1>1, <1>2, <1>3, Invariant, PTL DEF Spec


===============================================================================
