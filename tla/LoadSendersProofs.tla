---------------------------- MODULE LoadSendersProofs ----------------------------
(***************************************************************************)
(* Proofs about the load senders: none outlasts the round of its validator *)
(* by more than its batches were held up, one period on top for the one    *)
(* that waits for a tick after its last look at the deadline; the load is  *)
(* steady while no batch lasts a period; and no loss goes unreported that  *)
(* is meant to end its sender.                                             *)
(***************************************************************************)
EXTENDS LoadSenders, SequenceTheorems, TLAPS

-------------------------------------------------------------------------------
(* The inductive invariant of SenderEndsInTime.                            *)

SendersTypeOK ==
    /\ sender \in DOMAIN Senders
    /\ at \in {"batch", "pause", "select", "asleep", "ended", "failed"}
    /\ clock \in Nat /\ took \in Nat /\ took <= clock
    /\ started \in Seq(Nat)
    /\ holds \in [count : Nat, longest : Nat, total : Nat]

\* Nothing has happened before the first batch, and only its hold-up before the
\* pause.
Beginning ==
    /\ Batches = 0 => clock = 0 /\ holds.total = 0
    /\ at \in {"select", "asleep", "pause"} => Batches > 0
    /\ at = "pause" =>
          /\ S.wait = "select" /\ S.pause > 0
          /\ took = 0 /\ clock <= holds.total /\ clock <= held
    /\ at = "asleep" => S.wait = "count"

\* The batches that are counted are the time, up to what they were held up.
CountsTime ==
    S.wait = "count" =>
        /\ at # "select"
        /\ at = "batch" => clock = Batches + holds.total /\ Batches < Duration
        /\ at = "asleep" => clock + 1 = Batches + holds.total /\ Batches <= Duration

\* Where the deadline is looked at after each batch, the last wait goes past it.
LooksAtDeadline ==
    S.wait = "deadline" =>
        /\ at = "batch" => clock < Duration + S.period
        /\ at = "select" => clock < Duration + S.period /\ (TickReady \/ clock < Duration)

\* On a tick, or behind it by no more than is left to make up for.
Near(t) ==
    \/ t % S.period = 0
    \/ /\ S.pause > 0
       /\ ((t \div S.period) + (t % S.period)) * S.period <= S.pause + ((S.period - 1) * S.period)

\* Where nothing lasts a period, no tick is received after the round.
NearTicks ==
    S.wait = "select" /\ held < S.period /\ CaughtUp =>
        /\ at = "batch" => clock = took /\ clock <= Duration /\ Near(clock)
        /\ at = "select" /\ TickReady => clock <= Duration /\ Near(clock)

IInv ==
    /\ SendersTypeOK
    /\ Beginning /\ CountsTime /\ LooksAtDeadline /\ NearTicks
    /\ SenderEndsInTime

-------------------------------------------------------------------------------
(* Numbers.                                                                *)

LEMMA Division ==
    ASSUME NEW a \in Nat, NEW b \in Nat \ {0}
    PROVE  /\ a = ((a \div b) * b) + (a % b)
           /\ a % b \in Nat /\ a \div b \in Nat /\ a % b < b
           /\ ((a \div b) * b) \in Nat
OBVIOUS

LEMMA Quotient ==
    ASSUME NEW a \in Nat, NEW b \in Nat \ {0}, NEW q \in Nat, NEW r \in Nat,
           r < b, a = (q * b) + r
    PROVE  a \div b = q /\ a % b = r
OBVIOUS

LEMMA Product ==
    ASSUME NEW a \in Nat, NEW b \in Nat, NEW c \in Nat
    PROVE  /\ (a * c) \in Nat
           /\ ((a + b) * c) = (a * c) + (b * c)
           /\ ((a + 1) * c) = (a * c) + c
OBVIOUS

LEMMA ProductGrows ==
    ASSUME NEW a \in Nat, NEW b \in Nat, NEW c \in Nat, a <= b
    PROVE  (a * c) <= (b * c)
OBVIOUS

\* The next tick comes within a period.
LEMMA TickFollows ==
    ASSUME NEW a \in Nat, NEW b \in Nat \ {0}
    PROVE  /\ (((a \div b) + 1) * b) \in Nat
           /\ (((a \div b) + 1) * b) % b = 0
           /\ a < (((a \div b) + 1) * b)
           /\ (((a \div b) + 1) * b) = a + (b - (a % b))
<1> DEFINE q == a \div b
           r == a % b
<1>1. a = (q * b) + r /\ r \in Nat /\ q \in Nat /\ r < b /\ (q * b) \in Nat
  BY Division
<1>2. ((q + 1) * b) = (q * b) + b
  BY <1>1, Product
<1>3. ((q + 1) * b) % b = 0
  <2>1. ((q + 1) * b) = ((q + 1) * b) + 0 /\ ((q + 1) * b) \in Nat /\ q + 1 \in Nat /\ 0 < b
    BY <1>1, <1>2
  <2> HIDE DEF q
  <2> QED BY <2>1, Quotient
<1> HIDE DEF q, r
<1>4. ((q + 1) * b) = a + (b - r) /\ a < ((q + 1) * b) /\ ((q + 1) * b) \in Nat
  BY <1>1, <1>2
<1> QED BY <1>3, <1>4 DEF q, r

\* Of a moment and the deadline the earlier one.
LEMMA MinOf ==
    ASSUME NEW a \in Nat, NEW b \in Nat, NEW T \in SUBSET {a, b}, T # {}
    PROVE  Min(T) \in T /\ \A t \in T : Min(T) <= t
<1>1. \E x \in T : \A y \in T : x <= y
  <2>1. \A y \in T : y = a \/ y = b
    OBVIOUS
  <2>2. CASE a \in T /\ (a <= b \/ b \notin T)
    <3>1. \A y \in T : a <= y
      BY <2>1, <2>2
    <3> QED BY <2>2, <3>1
  <2>3. CASE b \in T /\ (b <= a \/ a \notin T)
    <3>1. \A y \in T : b <= y
      BY <2>1, <2>3
    <3> QED BY <2>3, <3>1
  <2>4. a \in T \/ b \in T
    BY <2>1
  <2>5. a <= b \/ b <= a
    OBVIOUS
  <2> QED BY <2>2, <2>3, <2>4, <2>5
<1> QED BY <1>1 DEF Min

-------------------------------------------------------------------------------
(* Behind the ticks.  q ticks have passed and the sender is r behind.      *)

Behind(t, p, pause) ==
    \/ t % p = 0
    \/ /\ pause > 0
       /\ ((t \div p) + (t % p)) * p <= pause + ((p - 1) * p)

\* A batch that takes less than a period and yet ends after the next tick has
\* begun behind, and less remains.
LEMMA MakesUp ==
    ASSUME NEW p \in Nat \ {0}, NEW pause \in Nat, NEW t \in Nat, NEW d \in Nat, d < p,
           Behind(t, p, pause), t + d >= ((t \div p) + 1) * p,
           NEW limit \in Nat, pause = 0 \/ limit >= pause + ((p - 1) * p)
    PROVE  Behind(t + d, p, pause) /\ t + d <= limit
<1> DEFINE q == t \div p
           r == t % p
           next == (q + 1) * p
           most == pause + ((p - 1) * p)
<1>1. t = (q * p) + r /\ r \in Nat /\ q \in Nat /\ r < p /\ (q * p) \in Nat
  BY Division
<1>2. next = (q * p) + p /\ next \in Nat
  BY <1>1, Product
<1>3. t + d >= next
  OBVIOUS
<1>4. r = 0 \/ (pause > 0 /\ ((q + r) * p) <= most)
  BY DEF Behind
<1>5. most \in Nat /\ (pause = 0 \/ limit >= most)
  <2>1. p - 1 \in Nat
    OBVIOUS
  <2> QED BY <2>1, Product
<1>6. Behind(t + d, p, pause) <=>
        \/ (t + d) % p = 0
        \/ pause > 0 /\ ((((t + d) \div p) + ((t + d) % p)) * p) <= most
  BY DEF Behind
<1> HIDE DEF q, r, next, most
<1>7. r > 0 /\ pause > 0 /\ ((q + r) * p) <= most /\ limit >= most
  BY <1>1, <1>2, <1>3, <1>4, <1>5
<1> DEFINE s == (r + d) - p
<1>8. s \in Nat /\ s < p /\ s + 1 <= r
  BY <1>1, <1>2, <1>3
<1>9. t + d = ((q + 1) * p) + s
  BY <1>1, <1>2, <1>3 DEF next
<1> HIDE DEF s
<1>10. (t + d) \div p = q + 1 /\ (t + d) % p = s
  <2>1. q + 1 \in Nat /\ t + d \in Nat
    BY <1>1
  <2> QED BY <1>8, <1>9, <2>1, Quotient
<1>11. (((q + 1) + s) * p) <= ((q + r) * p)
  <2>1. (q + 1) + s <= q + r /\ (q + 1) + s \in Nat /\ q + r \in Nat
    BY <1>1, <1>8
  <2> QED BY <2>1, ProductGrows
<1>12. Behind(t + d, p, pause)
  <2>1. (((q + 1) + s) * p) \in Nat /\ ((q + r) * p) \in Nat
    BY <1>1, <1>8, Product
  <2>2. (((q + 1) + s) * p) <= most
    BY <1>5, <1>7, <1>11, <2>1
  <2> QED BY <1>6, <1>7, <1>10, <2>2
<1>13. (r * p) >= r + p - 1
  <2>1. PICK k \in Nat : r = k + 1
    <3>1. r - 1 \in Nat /\ r = (r - 1) + 1
      BY <1>1, <1>7
    <3> QED BY <3>1
  <2>2. (r * p) = (k * p) + p /\ (k * p) \in Nat
    BY <2>1, Product
  <2>3. (k * 1) <= (k * p)
    OBVIOUS
  <2> QED BY <2>1, <2>2, <2>3
<1>14. ((q + r) * p) = (q * p) + (r * p) /\ (r * p) \in Nat
  BY <1>1, Product
<1>15. t + d <= limit
  BY <1>1, <1>5, <1>7, <1>13, <1>14
<1> QED BY <1>12, <1>15

\* So is the first batch, and the pause after it.
LEMMA Pauses ==
    ASSUME NEW p \in Nat \ {0}, NEW pause \in Nat, pause > 0, NEW d \in Nat, d < p
    PROVE  Behind(d + pause, p, pause) /\ d + pause <= pause + ((p - 1) * p)
<1> DEFINE t == d + pause
           q == t \div p
           r == t % p
<1>0. t \in Nat
  OBVIOUS
<1> HIDE DEF t
<1>1. t = (q * p) + r /\ r \in Nat /\ q \in Nat /\ r < p /\ (q * p) \in Nat
  BY <1>0, Division
<1> HIDE DEF q, r
<1>2. ((q + r) * p) = (q * p) + (r * p) /\ (r * p) \in Nat
  BY <1>1, Product
<1>3. PICK k \in Nat : p = k + 1
  <2>1. p - 1 \in Nat /\ p = (p - 1) + 1
    OBVIOUS
  <2> QED BY <2>1
<1>4. r <= k /\ d <= k
  BY <1>1, <1>3
<1>5. (r * p) = (r * k) + r /\ (r * k) \in Nat
  BY <1>1, <1>3
<1>6. (r * k) <= (k * k) /\ (k * k) \in Nat
  BY <1>1, <1>4, ProductGrows, Product
<1>7. ((p - 1) * p) = (k * k) + k
  BY <1>3
<1>8. ((q + r) * p) <= pause + ((p - 1) * p)
  BY <1>1, <1>2, <1>4, <1>5, <1>6, <1>7 DEF t
<1>9. t <= pause + ((p - 1) * p)
  BY <1>4, <1>6, <1>7 DEF t
<1> QED BY <1>8, <1>9 DEF Behind, t, q, r

-------------------------------------------------------------------------------
(* The rows and the invariant, in terms of numbers.                        *)

P == S.period

LEMMA Rows ==
    ASSUME SendersAssumption, sender \in DOMAIN Senders
    PROVE  /\ P \in Nat \ {0} /\ S.pause \in Nat /\ S.pause <= Duration /\ Duration \in Nat \ {0}
           /\ S.wait \in {"count", "deadline", "select"}
           /\ S.wait = "count" => P = 1 /\ S.pause = 0
           /\ S.wait = "deadline" => S.pause = 0
<1> USE DEF SendersAssumption, Senders, Row, S, P,
            statsd, logs, emf, collectd, otlp, traces, app_signals
<1>1. sender \in {"statsd", "logs", "emf", "collectd", "otlp", "traces", "app_signals"}
  OBVIOUS
<1>2. CASE sender = "statsd"
  BY <1>2
<1>3. CASE sender = "logs"
  BY <1>3
<1>4. CASE sender = "emf"
  BY <1>4
<1>5. CASE sender = "collectd"
  BY <1>5
<1>6. CASE sender = "otlp"
  BY <1>6
<1>7. CASE sender = "traces"
  BY <1>7
<1>8. CASE sender = "app_signals"
  BY <1>8
<1> QED BY <1>1, <1>2, <1>3, <1>4, <1>5, <1>6, <1>7, <1>8

\* The types as facts about numbers.
LEMMA Numbers ==
    ASSUME SendersTypeOK
    PROVE  /\ clock \in Nat /\ took \in Nat /\ took <= clock
           /\ Batches \in Nat /\ held \in Nat
           /\ holds.total \in Nat /\ holds.count \in Nat /\ holds.longest \in Nat
BY LenProperties DEF SendersTypeOK, Batches, held

\* Where a wait ends: on the next tick, or of a select at the deadline.
Until == {NextTick} \cup (IF S.wait = "select" THEN {Duration} ELSE {})

LEMMA NextTickFollows ==
    ASSUME SendersAssumption, SendersTypeOK
    PROVE  /\ NextTick \in Nat /\ NextTick % P = 0
           /\ took < NextTick /\ NextTick <= took + P
<1>1. P \in Nat \ {0} /\ took \in Nat
  BY Rows, Numbers DEF SendersTypeOK
<1>2. took % P \in Nat
  BY <1>1, Division
<1>3. /\ NextTick \in Nat /\ NextTick % P = 0
      /\ took < NextTick /\ NextTick = took + (P - (took % P))
  BY <1>1, TickFollows DEF NextTick, P
<1> QED BY <1>1, <1>2, <1>3

-------------------------------------------------------------------------------
(* The invariant holds initially.                                          *)

LEMMA InitIInv == ASSUME SendersAssumption, LsInit PROVE IInv
<1>1. /\ sender \in DOMAIN Senders /\ at = "batch" /\ clock = 0 /\ took = 0
      /\ started = <<>> /\ holds = [count |-> 0, longest |-> 0, total |-> 0]
  BY DEF LsInit
<1>2. SendersTypeOK
  BY <1>1, EmptySeq DEF SendersTypeOK
<1>3. Batches = 0 /\ holds.total = 0 /\ held = 0
  BY <1>1, EmptySeq DEF Batches, held
<1>4. P \in Nat \ {0} /\ Duration \in Nat \ {0}
  BY <1>1, Rows
<1>5. Beginning /\ CountsTime
  BY <1>1, <1>3, <1>4 DEF Beginning, CountsTime
<1>6. LooksAtDeadline
  <2>1. 0 < Duration + P
    BY <1>4
  <2> QED BY <1>1, <2>1 DEF LooksAtDeadline, P
<1>7. NearTicks
  <2>1. 0 % P = 0
    <3>1. 0 = (0 * P) + 0 /\ 0 < P
      BY <1>4
    <3> QED BY <1>4, <3>1, Quotient
  <2>2. clock = took /\ clock <= Duration
    BY <1>1, <1>4
  <2> QED BY <1>1, <2>1, <2>2 DEF NearTicks, Near, P
<1>8. SenderEndsInTime
  <2>1. 0 <= Duration /\ 0 <= Duration + P
    BY <1>4
  <2>2. clock = 0 /\ Duration + 0 = Duration /\ (Duration + 0) + P = Duration + P
        /\ (Duration + 0) + 0 = Duration
    BY <1>1, <1>4
  <2> QED BY <1>3, <2>1, <2>2 DEF SenderEndsInTime, P
<1> QED BY <1>2, <1>5, <1>6, <1>7, <1>8 DEF IInv

-------------------------------------------------------------------------------
(* The invariant is kept by each action.                                   *)

\* The bounds of SenderEndsInTime, each by itself.
Wait0 == IF S.wait = "deadline" THEN P ELSE 0
InAll == clock <= Duration + holds.total + Wait0
AtMost == S.wait # "count" /\ held < P /\ CaughtUp => clock <= Duration + held + Wait0

LEMMA EndsIsBoth == SenderEndsInTime <=> InAll /\ AtMost
BY DEF SenderEndsInTime, InAll, AtMost, Wait0, P

LEMMA NearIsBehind ==
    ASSUME NEW t \in Nat
    PROVE  Near(t) <=> Behind(t, P, S.pause)
BY DEF Near, Behind, P

LEMMA EndStep ==
    ASSUME IInv, at' \in {"ended", "failed"},
           UNCHANGED <<sender, clock, took, started, holds>>
    PROVE  IInv'
<1>1. UNCHANGED <<S, Batches, held>>
  BY DEF S, Batches, held
<1>2. at' # "batch" /\ at' # "pause" /\ at' # "select" /\ at' # "asleep"
  OBVIOUS
<1>3. SendersTypeOK'
  BY DEF IInv, SendersTypeOK
<1>4. Beginning'
  BY <1>1, <1>2 DEF IInv, Beginning
<1>5. CountsTime' /\ LooksAtDeadline' /\ NearTicks'
  BY <1>2 DEF CountsTime, LooksAtDeadline, NearTicks
<1>6. SenderEndsInTime'
  BY <1>1 DEF IInv, SenderEndsInTime, CaughtUp
<1> QED BY <1>3, <1>4, <1>5, <1>6 DEF IInv

LEMMA TickStep == ASSUME SendersAssumption, IInv, Tick PROVE IInv'
<1>1. /\ at = "select" /\ at' = "batch" /\ TickReady /\ took' = clock
      /\ UNCHANGED <<sender, clock, started, holds>>
  BY DEF Tick
<1>2. UNCHANGED <<S, Batches, held, CaughtUp>>
  BY <1>1 DEF S, Batches, held, CaughtUp
<1>3. SendersTypeOK'
  BY <1>1, Numbers DEF IInv, SendersTypeOK
<1>4. Beginning'
  BY <1>1, <1>2 DEF IInv, Beginning
<1>5. CountsTime' /\ LooksAtDeadline'
  BY <1>1, <1>2 DEF IInv, CountsTime, LooksAtDeadline
<1>6. NearTicks'
  BY <1>1, <1>2 DEF IInv, NearTicks, Near
<1>7. SenderEndsInTime'
  BY <1>1, <1>2 DEF IInv, SenderEndsInTime
<1> QED BY <1>3, <1>4, <1>5, <1>6, <1>7 DEF IInv

LEMMA PauseStep == ASSUME SendersAssumption, IInv, Pause PROVE IInv'
<1>1. /\ at = "pause" /\ at' \in {"select", "failed"} /\ clock' = clock + S.pause
      /\ UNCHANGED <<sender, took, started, holds>>
  BY DEF Pause
<1>2. UNCHANGED <<S, Batches, held, CaughtUp, P>>
  BY <1>1 DEF S, Batches, held, CaughtUp, P
<1>3. /\ P \in Nat \ {0} /\ S.pause \in Nat /\ S.pause <= Duration /\ Duration \in Nat
      /\ clock \in Nat /\ took \in Nat /\ took <= clock /\ held \in Nat /\ holds.total \in Nat
      /\ Batches \in Nat
  BY Rows, Numbers DEF IInv, SendersTypeOK
<1>4. /\ S.wait = "select" /\ S.pause > 0 /\ Batches > 0
      /\ clock <= holds.total /\ clock <= held
  BY <1>1 DEF IInv, Beginning
<1>5. SendersTypeOK'
  <2>1. clock' \in Nat /\ took' <= clock'
    BY <1>1, <1>3
  <2> QED BY <1>1, <2>1 DEF IInv, SendersTypeOK
<1>6. Beginning'
  <2>1. Batches' > 0
    BY <1>2, <1>4
  <2>2. Batches' # 0
    BY <1>2, <1>3, <2>1
  <2> QED BY <1>1, <2>1, <2>2 DEF Beginning
<1>7. CountsTime' /\ LooksAtDeadline'
  BY <1>2, <1>4 DEF CountsTime, LooksAtDeadline
<1>8. ASSUME held < P, CaughtUp
      PROVE  clock' <= Duration /\ Near(clock)'
  <2>1. clock < P
    BY <1>3, <1>4, <1>8
  <2>2. Behind(clock + S.pause, P, S.pause) /\ clock + S.pause <= S.pause + ((P - 1) * P)
    BY <1>3, <1>4, <2>1, Pauses
  <2>3. Duration >= S.pause + ((P - 1) * P)
    BY <1>3, <1>4, <1>8 DEF CaughtUp, P
  <2>4. P - 1 \in Nat /\ ((P - 1) * P) \in Nat
    BY <1>3, Product
  <2>5. clock' <= Duration
    BY <1>1, <1>3, <2>2, <2>3, <2>4
  <2> QED BY <1>1, <1>2, <2>2, <2>5 DEF Near, Behind, P
<1>9. NearTicks'
  BY <1>1, <1>2, <1>8 DEF NearTicks, Near, P
<1>10. SenderEndsInTime'
  <2>1. Wait0 = 0 /\ Wait0' = 0
    BY <1>2, <1>4 DEF Wait0
  <2>2. clock' <= (Duration + holds.total) + 0 /\ clock' <= (Duration + held) + 0
    BY <1>1, <1>3, <1>4
  <2>3. clock' <= Duration + holds'.total + Wait0' /\ clock' <= Duration + held' + Wait0'
    BY <1>1, <1>2, <2>1, <2>2
  <2>4. InAll' /\ AtMost'
    BY <2>3 DEF InAll, AtMost
  <2> QED BY <2>4 DEF SenderEndsInTime, InAll, AtMost, Wait0, P
<1> QED BY <1>5, <1>6, <1>7, <1>9, <1>10 DEF IInv

\* A wait ends on the next tick, but that select also has the deadline.
LEMMA WaitEnds ==
    ASSUME SendersAssumption, SendersTypeOK, Wait
    PROVE  /\ clock' \in Nat /\ clock < clock' /\ clock' <= NextTick
           /\ S.wait = "select" => clock' <= Duration
           /\ clock' = NextTick \/ (S.wait = "select" /\ clock' = Duration)
<1>1. /\ clock \in Nat /\ NextTick \in Nat /\ Duration \in Nat
  BY Numbers, NextTickFollows DEF SendersAssumption
<1> DEFINE T == {t \in Until : t > clock}
<1>2. clock' = Min(T)
  BY DEF Wait, Until
<1>3. T \in SUBSET {NextTick, Duration} /\ NextTick \in T
  <2>1. NextTick > clock
    BY <1>1 DEF Wait, TickReady
  <2> QED BY <2>1 DEF Until
<1>4. Min(T) \in T /\ \A t \in T : Min(T) <= t
  <2>1. T # {}
    BY <1>3
  <2> HIDE DEF T
  <2> QED BY <1>1, <1>3, <2>1, MinOf
<1>5. clock' \in Until /\ clock' > clock
  BY <1>2, <1>4
<1>6. clock' <= NextTick
  BY <1>2, <1>3, <1>4
<1>7. ASSUME S.wait = "select"
      PROVE  clock' <= Duration
  <2>1. Duration > clock
    BY <1>1, <1>7 DEF Wait, TimedOut
  <2>2. Duration \in T
    BY <1>7, <2>1 DEF Until
  <2> QED BY <1>2, <1>4, <2>2
<1>8. clock' = NextTick \/ (S.wait = "select" /\ clock' = Duration)
  BY <1>5 DEF Until
<1>9. clock' \in Nat /\ clock < clock'
  BY <1>1, <1>5, <1>8
<1> QED BY <1>6, <1>7, <1>8, <1>9

LEMMA WaitStep == ASSUME SendersAssumption, IInv, Wait PROVE IInv'
<1>1. /\ at = "select" /\ ~TickReady /\ UNCHANGED <<sender, at, took, started, holds>>
  BY DEF Wait
<1>2. UNCHANGED <<S, Batches, held, CaughtUp, P, NextTick>>
  BY <1>1 DEF S, Batches, held, CaughtUp, P, NextTick
<1>3. /\ P \in Nat \ {0} /\ Duration \in Nat
      /\ clock \in Nat /\ took \in Nat /\ took <= clock /\ held \in Nat /\ holds.total \in Nat
      /\ Batches \in Nat
  BY Rows, Numbers DEF IInv, SendersTypeOK
<1>4. /\ NextTick \in Nat /\ NextTick % P = 0 /\ NextTick <= took + P
  BY NextTickFollows DEF IInv
<1>5. /\ clock' \in Nat /\ clock < clock' /\ clock' <= NextTick
      /\ S.wait = "select" => clock' <= Duration
      /\ clock' = NextTick \/ (S.wait = "select" /\ clock' = Duration)
  BY WaitEnds DEF IInv
<1>6. SendersTypeOK'
  <2>1. took' <= clock'
    BY <1>1, <1>3, <1>5
  <2> QED BY <1>1, <1>5, <2>1 DEF IInv, SendersTypeOK
<1>7. Batches > 0
  BY <1>1 DEF IInv, Beginning
<1>8. Beginning'
  <2>1. Batches' # 0 /\ Batches' > 0
    BY <1>2, <1>3, <1>7
  <2> QED BY <1>1, <2>1 DEF Beginning
<1>9. CountsTime'
  BY <1>1, <1>2 DEF IInv, CountsTime
<1>10. S.wait \in {"count", "deadline", "select"} /\ S.wait # "count"
  BY <1>1, Rows DEF IInv, CountsTime, SendersTypeOK
<1>11. ASSUME S.wait = "deadline"
       PROVE  clock' < Duration + P /\ TickReady'
  <2>1. clock < Duration
    BY <1>1, <1>11 DEF IInv, LooksAtDeadline
  <2>2. clock' = NextTick
    BY <1>5, <1>11
  <2>3. clock' < Duration + P
    BY <1>3, <1>4, <2>1, <2>2
  <2>4. clock' >= NextTick'
    BY <1>2, <1>5, <2>2
  <2> QED BY <2>3, <2>4 DEF TickReady
<1>12. LooksAtDeadline'
  BY <1>1, <1>2, <1>11 DEF LooksAtDeadline, P
<1>13. ASSUME S.wait = "select", TickReady'
       PROVE  clock' <= Duration /\ Near(clock)'
  <2>1. clock' >= NextTick
    BY <1>2, <1>13 DEF TickReady
  <2>2. clock' = NextTick
    BY <1>4, <1>5, <2>1
  <2>3. clock' % P = 0
    BY <1>4, <2>2
  <2> QED BY <1>2, <1>5, <1>13, <2>3 DEF Near, P
<1>14. NearTicks'
  BY <1>1, <1>2, <1>13 DEF NearTicks, Near, P
<1>15. SenderEndsInTime'
  <2>1. CASE S.wait = "select"
    <3>1. clock' <= Duration /\ Wait0' = 0
      BY <1>2, <1>5, <2>1 DEF Wait0
    <3>2. clock' <= (Duration + holds.total) + 0 /\ clock' <= (Duration + held) + 0
      BY <1>3, <1>5, <3>1
    <3>3. InAll' /\ AtMost'
      BY <1>1, <1>2, <3>1, <3>2 DEF InAll, AtMost
    <3> QED BY <3>3 DEF SenderEndsInTime, InAll, AtMost, Wait0, P
  <2>2. CASE S.wait = "deadline"
    <3>1. clock' < Duration + P /\ Wait0' = P
      BY <1>2, <1>11, <2>2 DEF Wait0
    <3>2. clock' <= (Duration + holds.total) + P /\ clock' <= (Duration + held) + P
      BY <1>3, <1>5, <3>1
    <3>3. InAll' /\ AtMost'
      BY <1>1, <1>2, <3>1, <3>2 DEF InAll, AtMost
    <3> QED BY <3>3 DEF SenderEndsInTime, InAll, AtMost, Wait0, P
  <2> QED BY <1>10, <2>1, <2>2
<1> QED BY <1>6, <1>8, <1>9, <1>12, <1>14, <1>15 DEF IInv

LEMMA SleepStep == ASSUME SendersAssumption, IInv, Sleep PROVE IInv'
<1>1. /\ at = "asleep" /\ clock' = clock + P
      /\ at' = (IF Batches = Duration THEN "ended" ELSE "batch")
      /\ UNCHANGED <<sender, took, started, holds>>
  BY DEF Sleep, P
<1>2. UNCHANGED <<S, Batches, held, CaughtUp, P>>
  BY <1>1 DEF S, Batches, held, CaughtUp, P
<1>3. S.wait = "count" /\ P = 1 /\ Batches > 0
  BY <1>1, Rows DEF IInv, Beginning, SendersTypeOK
<1>4. /\ Duration \in Nat
      /\ clock \in Nat /\ took \in Nat /\ took <= clock /\ holds.total \in Nat /\ Batches \in Nat
  BY Rows, Numbers DEF IInv, SendersTypeOK
<1>5. clock + 1 = Batches + holds.total /\ Batches <= Duration
  BY <1>1, <1>3 DEF IInv, CountsTime
<1>6. clock' = Batches + holds.total /\ clock' \in Nat /\ took <= clock'
  BY <1>1, <1>3, <1>4, <1>5
<1>7. SendersTypeOK'
  BY <1>1, <1>6 DEF IInv, SendersTypeOK
<1>8. at' \in {"ended", "batch"} /\ (at' = "batch" => Batches # Duration)
  BY <1>1
<1>9. Beginning'
  <2>1. Batches' # 0
    BY <1>2, <1>3, <1>4
  <2> QED BY <1>8, <2>1 DEF Beginning
<1>10. Batches # Duration => Batches < Duration
  BY <1>4, <1>5
<1>11. CountsTime'
  BY <1>1, <1>2, <1>6, <1>8, <1>10 DEF CountsTime
<1>12. LooksAtDeadline' /\ NearTicks'
  BY <1>2, <1>3 DEF LooksAtDeadline, NearTicks
<1>13. SenderEndsInTime'
  <2>1. Wait0' = 0
    BY <1>2, <1>3 DEF Wait0
  <2>2. clock' <= (Duration + holds.total) + 0
    BY <1>4, <1>5, <1>6
  <2>3. InAll' /\ AtMost'
    BY <1>1, <1>2, <1>3, <2>1, <2>2 DEF InAll, AtMost
  <2> QED BY <2>3 DEF SenderEndsInTime, InAll, AtMost, Wait0, P
<1> QED BY <1>7, <1>9, <1>11, <1>12, <1>13 DEF IInv

LEMMA AfterBatch ==
    ASSUME SendersAssumption, sender \in DOMAIN Senders, NEW n, NEW e, NEW t \in Nat
    PROVE  /\ After(n, e, t) \in {"failed", "ended", "pause", "asleep", "select"}
           /\ After(n, e, t) = "pause" => n = 1 /\ S.pause > 0 /\ S.wait = "select"
           /\ After(n, e, t) = "asleep" => S.wait = "count"
           /\ After(n, e, t) = "select" =>
                 S.wait # "count" /\ (S.wait = "deadline" => t < Duration)
<1>1. /\ S.wait \in {"count", "deadline", "select"} /\ S.pause \in Nat /\ Duration \in Nat
      /\ S.wait # "select" => S.pause = 0
  BY Rows
<1>2. S.pause > 0 => S.wait = "select"
  BY <1>1
<1>3. ~(t >= Duration) => t < Duration
  BY <1>1
<1> QED BY <1>2, <1>3 DEF After

\* What a batch does to the numbers.
LEMMA BatchNumbers ==
    ASSUME SendersAssumption, SendersTypeOK, Batch
    PROVE  \E d \in Nat :
              /\ clock' = clock + d /\ Batches' = Batches + 1
              /\ holds'.total = holds.total + d
              /\ held' >= held /\ held' >= d
              /\ SendersTypeOK'
              /\ at' = "pause" => Batches = 0 /\ S.pause > 0 /\ S.wait = "select"
              /\ at' = "asleep" => S.wait = "count"
              /\ at' = "select" => S.wait # "count" /\ (S.wait = "deadline" => clock' < Duration)
              /\ at' # "batch"
<1>1. PICK d \in Slow, error \in BOOLEAN :
        /\ started' = Append(started, clock) /\ clock' = clock + d
        /\ holds' = (IF d > 0 THEN HeldUp(d) ELSE holds)
        /\ at' = After(Batches + 1, error, clock')
  BY DEF Batch
<1>2. d \in Nat /\ UNCHANGED <<sender, took>> /\ sender \in DOMAIN Senders
  BY DEF SendersAssumption, Batch, SendersTypeOK
<1>3. /\ clock \in Nat /\ took \in Nat /\ took <= clock /\ Batches \in Nat
      /\ holds \in [count : Nat, longest : Nat, total : Nat]
      /\ holds.total \in Nat /\ holds.count \in Nat /\ holds.longest \in Nat
  BY Numbers DEF SendersTypeOK
<1>4. clock' \in Nat /\ took' <= clock' /\ took' \in Nat
  BY <1>1, <1>2, <1>3
<1>5. started' \in Seq(Nat) /\ Batches' = Batches + 1
  <2>1. started \in Seq(Nat)
    BY DEF SendersTypeOK
  <2> QED BY <1>1, <1>3, <2>1, AppendProperties DEF Batches
<1>6. /\ holds' \in [count : Nat, longest : Nat, total : Nat]
      /\ holds'.total = holds.total + d
      /\ held' >= held /\ held' >= d
  <2>1. CASE d > 0
    <3>1. holds' = HeldUp(d)
      BY <1>1, <2>1
    <3>2. CASE d > holds.longest
      BY <1>2, <1>3, <3>1, <3>2 DEF HeldUp, held
    <3>3. CASE ~(d > holds.longest)
      BY <1>2, <1>3, <3>1, <3>3 DEF HeldUp, held
    <3> QED BY <3>2, <3>3
  <2>2. CASE d = 0
    BY <1>1, <1>3, <2>2 DEF held
  <2> QED BY <1>2, <2>1, <2>2
<1>7. PICK e : at' = After(Batches + 1, e, clock')
  BY <1>1
<1>8. /\ at' \in {"failed", "ended", "pause", "asleep", "select"}
      /\ at' = "pause" => Batches + 1 = 1 /\ S.pause > 0 /\ S.wait = "select"
      /\ at' = "asleep" => S.wait = "count"
      /\ at' = "select" => S.wait # "count" /\ (S.wait = "deadline" => clock' < Duration)
  BY <1>2, <1>4, <1>7, AfterBatch
<1>9. Batches + 1 = 1 => Batches = 0
  BY <1>3
<1>10. SendersTypeOK'
  BY <1>2, <1>4, <1>5, <1>6, <1>8 DEF SendersTypeOK
<1>11. /\ at' = "pause" => Batches = 0 /\ S.pause > 0 /\ S.wait = "select"
       /\ at' # "batch"
  BY <1>8, <1>9
<1> QED BY <1>1, <1>2, <1>5, <1>6, <1>8, <1>10, <1>11

LEMMA BatchStep == ASSUME SendersAssumption, IInv, Batch PROVE IInv'
<1>1. at = "batch" /\ UNCHANGED <<sender, took>>
  BY DEF Batch
<1>2. UNCHANGED <<S, CaughtUp, P, NextTick>>
  BY <1>1 DEF S, CaughtUp, P, NextTick
<1>3. /\ P \in Nat \ {0} /\ Duration \in Nat \ {0} /\ S.pause \in Nat
      /\ clock \in Nat /\ took \in Nat /\ took <= clock /\ held \in Nat /\ holds.total \in Nat
      /\ Batches \in Nat
      /\ S.wait \in {"count", "deadline", "select"}
  BY Rows, Numbers DEF IInv, SendersTypeOK
<1>4. PICK d \in Nat :
        /\ clock' = clock + d /\ Batches' = Batches + 1
        /\ holds'.total = holds.total + d
        /\ held' >= held /\ held' >= d
        /\ SendersTypeOK'
        /\ at' = "pause" => Batches = 0 /\ S.pause > 0 /\ S.wait = "select"
        /\ at' = "asleep" => S.wait = "count"
        /\ at' = "select" => S.wait # "count" /\ (S.wait = "deadline" => clock' < Duration)
        /\ at' # "batch"
  BY BatchNumbers DEF IInv
<1>5. held' \in Nat /\ holds'.total \in Nat /\ clock' \in Nat /\ Batches' \in Nat /\ Batches' # 0
      /\ Batches' > 0
  <2>1. held' \in Nat
    BY <1>4 DEF SendersTypeOK, held
  <2> QED BY <1>3, <1>4, <2>1
<1>6. Beginning'
  <2>1. ASSUME at' = "pause"
        PROVE  took' = 0 /\ clock' <= holds'.total /\ clock' <= held'
    <3>1. clock = 0 /\ holds.total = 0
      BY <1>4, <2>1 DEF IInv, Beginning
    <3> QED BY <1>1, <1>3, <1>4, <1>5, <3>1
  <2> QED BY <1>2, <1>4, <1>5, <2>1 DEF Beginning
<1>7. CountsTime'
  <2> SUFFICES ASSUME S.wait = "count"
               PROVE  /\ at' # "select" /\ at' # "batch"
                      /\ clock' + 1 = Batches' + holds'.total /\ Batches' <= Duration
    BY <1>2 DEF CountsTime
  <2>1. clock = Batches + holds.total /\ Batches < Duration
    BY <1>1 DEF IInv, CountsTime
  <2>2. clock' + 1 = Batches' + holds'.total /\ Batches' <= Duration
    BY <1>3, <1>4, <2>1
  <2> QED BY <1>4, <2>2
<1>8. LooksAtDeadline'
  <2>1. Duration < Duration + P
    BY <1>3
  <2>2. S.wait = "deadline" /\ at' = "select" => clock' < Duration /\ clock' < Duration + P
    BY <1>3, <1>4, <1>5, <2>1
  <2> QED BY <1>2, <1>4, <2>2 DEF LooksAtDeadline, P
<1>9. ASSUME S.wait = "select", held' < P, CaughtUp
      PROVE  /\ clock = took /\ clock <= Duration /\ d < P
             /\ Near(clock)
  <2>1. held < P /\ d < P
    BY <1>3, <1>4, <1>5, <1>9
  <2> QED BY <1>1, <1>9, <2>1 DEF IInv, NearTicks, P
<1>10. NearTicks'
  <2> SUFFICES ASSUME S.wait = "select", held' < P, CaughtUp, at' = "select", TickReady'
               PROVE  clock' <= Duration /\ Near(clock)'
    BY <1>2, <1>4 DEF NearTicks, P
  <2>1. /\ clock = took /\ clock <= Duration /\ d < P
        /\ Behind(clock, P, S.pause)
    BY <1>3, <1>9, NearIsBehind
  <2>2. clock + d >= ((clock \div P) + 1) * P
    BY <1>1, <1>2, <1>4, <2>1 DEF TickReady, NextTick, P
  <2>3. S.pause = 0 \/ Duration >= S.pause + ((P - 1) * P)
    BY DEF CaughtUp, P
  <2>4. Behind(clock + d, P, S.pause) /\ clock + d <= Duration
    BY <1>3, <2>1, <2>2, <2>3, MakesUp
  <2> QED BY <1>2, <1>4, <2>4 DEF Near, Behind, P
<1>11. SenderEndsInTime'
  <2>1. UNCHANGED Wait0 /\ Wait0 \in Nat
    BY <1>2, <1>3 DEF Wait0
  <2>0. ASSUME NEW w \in Nat, clock <= Duration + w
        PROVE  clock' <= (Duration + held') + w
    <3>1. clock' = clock + d /\ held' >= d
      BY <1>4
    <3>2. \A h, l \in Nat : d <= h /\ clock <= l + w => clock + d <= (l + h) + w
      BY <1>3
    <3>3. clock + d <= (Duration + held') + w
      BY <1>3, <1>5, <2>0, <3>1, <3>2
    <3> QED BY <3>1, <3>3
  <2>2. InAll'
    <3>1. clock <= (Duration + holds.total) + Wait0
      BY EndsIsBoth DEF IInv, InAll
    <3>2. clock' <= (Duration + holds'.total) + Wait0
      BY <1>3, <1>4, <2>1, <3>1
    <3> QED BY <2>1, <3>2 DEF InAll
  <2>3. AtMost'
    <3>1. ASSUME S.wait = "select", held' < P, CaughtUp
          PROVE  clock' <= (Duration + held') + Wait0
      <4>1. clock <= Duration + 0 /\ Wait0 = 0
        BY <1>3, <1>9, <3>1 DEF Wait0
      <4>2. clock' <= (Duration + held') + 0
        BY <2>0, <4>1
      <4> QED BY <4>1, <4>2
    <3>2. ASSUME S.wait = "deadline"
          PROVE  clock' <= (Duration + held') + Wait0
      <4>1. clock < Duration + P
        BY <1>1, <3>2 DEF IInv, LooksAtDeadline, P
      <4>2. Wait0 = P
        BY <3>2 DEF Wait0
      <4>3. clock <= Duration + Wait0
        BY <1>3, <2>1, <4>1, <4>2
      <4> QED BY <2>0, <2>1, <4>3
    <3> QED BY <1>2, <1>3, <2>1, <3>1, <3>2 DEF AtMost
  <2> QED BY <2>2, <2>3 DEF SenderEndsInTime, InAll, AtMost, Wait0, P
<1> QED BY <1>4, <1>6, <1>7, <1>8, <1>10, <1>11 DEF IInv

-------------------------------------------------------------------------------
(* Each step keeps it.                                                     *)

LEMMA StepIInv == ASSUME SendersAssumption, IInv, [LsNext]_senderVars PROVE IInv'
<1>1. CASE Batch
  BY <1>1, BatchStep
<1>2. CASE DialFails
  BY <1>2, EndStep DEF DialFails
<1>3. CASE Pause
  BY <1>3, PauseStep
<1>4. CASE Tick
  BY <1>4, TickStep
<1>5. CASE TimeUp
  BY <1>5, EndStep DEF TimeUp
<1>6. CASE Wait
  BY <1>6, WaitStep
<1>7. CASE Sleep
  BY <1>7, SleepStep
<1>8. CASE UNCHANGED senderVars
  <2>1. UNCHANGED <<S, Batches, held, CaughtUp, NextTick, TickReady>>
    BY <1>8 DEF senderVars, S, Batches, held, CaughtUp, NextTick, TickReady
  <2> QED BY <1>8, <2>1 DEF senderVars, IInv, SendersTypeOK, Beginning, CountsTime,
          LooksAtDeadline, NearTicks, Near, SenderEndsInTime
<1> QED BY <1>1, <1>2, <1>3, <1>4, <1>5, <1>6, <1>7, <1>8 DEF LsNext

-------------------------------------------------------------------------------
(* The inductive invariant of LoadIsSteady.  A batch starts in each period *)
(* from the second batch on; that one comes in the period after the first, *)
(* or for collectd in the one in which its pause ends.                     *)

PeriodOf(i) == IF i = 1 THEN 0 ELSE (started[2] \div P) + (i - 2)

SecondComes(t) == P <= t /\ (t \div P = 1 \/ t <= held + S.pause)

InTurn ==
    /\ \A i \in 1 .. Batches :
          started[i] \div P = PeriodOf(i) /\ (S.pause = 0 => started[i] % P = 0)
    /\ Batches > 1 => SecondComes(started[2])

\* The batch that is going to start at t is in its turn as well.
Follows(t) ==
    /\ IF Batches = 1 THEN SecondComes(t) ELSE t \div P = PeriodOf(Batches) + 1
    /\ S.pause = 0 => t % P = 0

\* While it waits the sender is before its next tick, or for collectd less than
\* a period or its pause behind it.
InReach ==
    \/ clock <= NextTick
    \/ S.pause > 0 /\ (clock < NextTick + P \/ (Batches = 1 /\ clock <= held + S.pause))

Steady ==
    S.wait # "count" /\ held < P =>
        /\ InTurn
        /\ at = "batch" /\ Batches > 0 => clock = took /\ Follows(clock)
        /\ at # "batch" /\ Batches > 0 => took = started[Batches]
        /\ at = "pause" => Batches = 1
        /\ at = "ended" => Batches > 0 /\ clock >= Duration
        /\ at \in {"select", "ended"} => InReach

\* First lines of a log that got lost have ended its sender; the first batch is told
\* from the others by its time.
Losses ==
    /\ Batches > 0 => started[1] = 0
    /\ Batches > 0 /\ at = "batch" => clock > 0
    /\ at = "ended" => Batches > 0
    /\ sender = "logs" /\ at # "failed" => 0 \notin lost

SInv == IInv /\ Steady /\ Losses

-------------------------------------------------------------------------------
(* More numbers.                                                           *)

LEMMA InPeriod ==
    ASSUME NEW p \in Nat \ {0}, NEW q \in Nat, NEW t \in Nat, q * p <= t, t < (q * p) + p
    PROVE  t \div p = q
<1> DEFINE r == t - (q * p)
<1>1. (q * p) \in Nat
  BY Product
<1>2. r \in Nat /\ r < p /\ t = (q * p) + r
  BY <1>1
<1> HIDE DEF r
<1> QED BY <1>2, Quotient

LEMMA PeriodBounds ==
    ASSUME NEW p \in Nat \ {0}, NEW t \in Nat
    PROVE  /\ t \div p \in Nat
           /\ (t \div p) * p <= t /\ t < ((t \div p) * p) + p
           /\ ((t \div p) * p) \in Nat
           /\ ((t \div p) + 1) * p = ((t \div p) * p) + p
<1>1. /\ t = ((t \div p) * p) + (t % p)
      /\ t % p \in Nat /\ t \div p \in Nat /\ t % p < p
      /\ ((t \div p) * p) \in Nat
  BY Division
<1>2. ((t \div p) + 1) * p = ((t \div p) * p) + p
  BY <1>1, Product
<1> DEFINE q == t \div p
           m == q * p
           r == t % p
<1>3. t = m + r /\ r \in Nat /\ r < p /\ m \in Nat
  BY <1>1
<1> HIDE DEF m, r
<1>4. m <= t /\ t < m + p
  BY <1>3
<1> QED BY <1>1, <1>2, <1>4 DEF m

\* On a tick, the next one is a period away.
LEMMA OnTick ==
    ASSUME NEW p \in Nat \ {0}, NEW t \in Nat, t % p = 0
    PROVE  ((t \div p) + 1) * p = t + p
<1>1. t = ((t \div p) * p) + (t % p) /\ ((t \div p) * p) \in Nat
  BY Division
<1>2. ((t \div p) + 1) * p = ((t \div p) * p) + p
  BY PeriodBounds
<1> DEFINE m == (t \div p) * p
<1> HIDE DEF m
<1> QED BY <1>1, <1>2 DEF m

\* Which facts the steps start from.
LEMMA SenderNumbers ==
    ASSUME SendersAssumption, IInv
    PROVE  /\ P \in Nat \ {0} /\ Duration \in Nat \ {0} /\ S.pause \in Nat
           /\ clock \in Nat /\ took \in Nat /\ took <= clock /\ held \in Nat
           /\ Batches \in Nat /\ NextTick \in Nat
           /\ S.wait \in {"count", "deadline", "select"}
           /\ \A i \in 1 .. Batches : started[i] \in Nat
           /\ NextTick = ((took \div P) + 1) * P
           /\ DOMAIN started = 1 .. Batches
<1>1. sender \in DOMAIN Senders /\ started \in Seq(Nat)
  BY DEF IInv, SendersTypeOK
<1>2. Batches \in Nat /\ DOMAIN started = 1 .. Batches /\ \A i \in 1 .. Batches : started[i] \in Nat
  BY <1>1, LenProperties, ElementOfSeq DEF Batches
<1>3. NextTick = ((took \div P) + 1) * P
  BY DEF NextTick, P
<1> QED BY <1>1, <1>2, <1>3, Rows, Numbers, NextTickFollows DEF IInv

\* InTurn and what is about it stands still while no batch starts and none is held up.
LEMMA SameTurn ==
    ASSUME UNCHANGED <<sender, started, holds>>
    PROVE  /\ UNCHANGED <<S, P, Batches, held>>
           /\ InTurn' = InTurn
           /\ \A t : Follows(t)' = Follows(t)
<1>1. UNCHANGED <<S, P, Batches, held>>
  BY DEF S, P, Batches, held
<1>2. \A i : PeriodOf(i)' = PeriodOf(i)
  BY <1>1 DEF PeriodOf
<1>3. \A t : SecondComes(t)' = SecondComes(t)
  BY <1>1 DEF SecondComes
<1> QED BY <1>1, <1>2, <1>3 DEF InTurn, Follows

-------------------------------------------------------------------------------
(* Steady is kept by each action.                                          *)

LEMMA InitSteady == ASSUME SendersAssumption, LsInit PROVE Steady /\ Losses
<1>1. at = "batch" /\ started = <<>> /\ lost = {} /\ Batches = 0
  BY EmptySeq DEF LsInit, Batches
<1>2. InTurn
  BY <1>1 DEF InTurn
<1> QED BY <1>1, <1>2 DEF Steady, Losses

LEMMA TickSteady == ASSUME SendersAssumption, IInv, Steady, Tick PROVE Steady'
<1>1. /\ at = "select" /\ at' = "batch" /\ TickReady /\ took' = clock
      /\ UNCHANGED <<sender, clock, started, holds>>
  BY DEF Tick
<1>2. /\ UNCHANGED <<S, P, Batches, held>> /\ InTurn' = InTurn
      /\ \A t : Follows(t)' = Follows(t)
  BY <1>1, SameTurn
<1>3. /\ P \in Nat \ {0} /\ S.pause \in Nat
      /\ clock \in Nat /\ took \in Nat /\ held \in Nat /\ Batches \in Nat
      /\ NextTick = ((took \div P) + 1) * P
  BY SenderNumbers
<1>4. Batches > 0
  BY <1>1 DEF IInv, Beginning
<1> SUFFICES ASSUME S.wait # "count", held < P
             PROVE  Follows(clock)
  <2>1. ASSUME S.wait # "count", held < P
        PROVE  InTurn
    BY <2>1 DEF Steady
  <2> QED BY <1>1, <1>2, <2>1 DEF Steady
<1>5. InTurn /\ took = started[Batches] /\ InReach
  BY <1>1, <1>4 DEF Steady
<1>6. NextTick <= clock
  BY <1>1 DEF TickReady
<1>7. took \div P = PeriodOf(Batches) /\ took \div P \in Nat
      /\ NextTick = ((took \div P) * P) + P /\ ((took \div P) * P) \in Nat
  <2>1. Batches \in 1 .. Batches
    BY <1>3, <1>4
  <2> QED BY <1>3, <1>5, <2>1, PeriodBounds DEF InTurn
<1>8. ASSUME clock < NextTick + P
      PROVE  clock \div P = (took \div P) + 1
  <2> DEFINE q == (took \div P) + 1
  <2>1. q \in Nat /\ q * P = NextTick
    BY <1>3, <1>7
  <2>2. q * P <= clock /\ clock < (q * P) + P
    BY <1>6, <1>8, <2>1
  <2> HIDE DEF q
  <2>3. clock \div P = q
    BY <1>3, <2>1, <2>2, InPeriod
  <2> QED BY <2>3 DEF q
<1>9. clock <= NextTick => clock < NextTick + P /\ clock = NextTick
  BY <1>3, <1>6, <1>7
<1>10. CASE Batches = 1
  <2>1. took \div P = 0 /\ NextTick = P
    <3>1. took \div P = 0
      BY <1>7, <1>10 DEF PeriodOf
    <3>2. (took \div P) * P = 0
      BY <1>3, <3>1
    <3> QED BY <1>3, <1>7, <3>1, <3>2
  <2>2. clock \div P = 1 \/ clock <= held + S.pause
    <3>1. clock < NextTick + P => clock \div P = 1
      BY <1>8, <2>1
    <3> QED BY <1>5, <1>9, <3>1 DEF InReach
  <2>3. S.pause = 0 => clock % P = 0
    <3>1. S.pause = 0 => clock = NextTick
      <4>1. S.pause = 0 => clock <= NextTick
        BY <1>5 DEF InReach
      <4> QED BY <1>9, <4>1
    <3> QED BY <3>1, NextTickFollows DEF IInv
  <2>4. SecondComes(clock)
    BY <1>6, <2>1, <2>2 DEF SecondComes
  <2> QED BY <1>10, <2>3, <2>4 DEF Follows
<1>11. CASE Batches # 1
  <2>1. clock < NextTick + P
    BY <1>5, <1>9, <1>11 DEF InReach
  <2>2. S.pause = 0 => clock % P = 0
    <3>1. S.pause = 0 => clock = NextTick
      <4>1. S.pause = 0 => clock <= NextTick
        BY <1>5 DEF InReach
      <4> QED BY <1>9, <4>1
    <3> QED BY <3>1, NextTickFollows DEF IInv
  <2>3. clock \div P = PeriodOf(Batches) + 1
    BY <1>7, <1>8, <2>1
  <2> QED BY <1>11, <2>2, <2>3 DEF Follows
<1> QED BY <1>10, <1>11

LEMMA PauseSteady == ASSUME SendersAssumption, IInv, Steady, Pause PROVE Steady'
<1>1. /\ at = "pause" /\ at' \in {"select", "failed"} /\ clock' = clock + S.pause
      /\ UNCHANGED <<sender, took, started, holds>>
  BY DEF Pause
<1>2. UNCHANGED <<S, P, Batches, held>> /\ InTurn' = InTurn
  BY <1>1, SameTurn
<1>3. /\ clock \in Nat /\ S.pause \in Nat /\ held \in Nat
  BY SenderNumbers
<1>4. S.pause > 0 /\ Batches > 0 /\ clock <= held
  BY <1>1 DEF IInv, Beginning
<1> SUFFICES ASSUME S.wait # "count", held < P
             PROVE  InTurn /\ took = started[Batches] /\ InReach'
  BY <1>1, <1>2 DEF Steady
<1>5. InTurn /\ took = started[Batches] /\ Batches = 1
  BY <1>1, <1>4 DEF Steady
<1>6. clock' <= held + S.pause
  BY <1>1, <1>3, <1>4
<1>7. InReach'
  BY <1>2, <1>4, <1>5, <1>6 DEF InReach
<1> QED BY <1>5, <1>7

LEMMA WaitSteady == ASSUME SendersAssumption, IInv, Steady, Wait PROVE Steady'
<1>1. /\ at = "select" /\ UNCHANGED <<sender, at, took, started, holds>>
  BY DEF Wait
<1>2. UNCHANGED <<S, P, Batches, held, NextTick>> /\ InTurn' = InTurn
  <2>1. UNCHANGED <<S, P, Batches, held>> /\ InTurn' = InTurn
    BY <1>1, SameTurn
  <2> QED BY <1>1, <2>1 DEF NextTick
<1>3. clock' <= NextTick /\ Batches > 0
  BY <1>1, WaitEnds DEF IInv, Beginning
<1>4. InReach'
  BY <1>2, <1>3 DEF InReach
<1> QED BY <1>1, <1>2, <1>3, <1>4 DEF Steady

LEMMA TimeUpSteady == ASSUME SendersAssumption, IInv, Steady, TimeUp PROVE Steady'
<1>1. /\ at = "select" /\ at' = "ended" /\ TimedOut
      /\ UNCHANGED <<sender, clock, took, started, holds>>
  BY DEF TimeUp
<1>2. UNCHANGED <<S, P, Batches, held, NextTick>> /\ InTurn' = InTurn
  <2>1. UNCHANGED <<S, P, Batches, held>> /\ InTurn' = InTurn
    BY <1>1, SameTurn
  <2> QED BY <1>1, <2>1 DEF NextTick
<1>3. clock >= Duration /\ Batches > 0
  BY <1>1 DEF TimedOut, IInv, Beginning
<1>4. InReach' = InReach
  BY <1>1, <1>2 DEF InReach
<1> QED BY <1>1, <1>2, <1>3, <1>4 DEF Steady

\* What fails ends the sender, and says nothing of its load.
LEMMA DialSteady == ASSUME IInv, Steady, DialFails PROVE Steady'
<1>1. /\ at' = "failed" /\ UNCHANGED <<sender, clock, took, started, holds>> /\ Batches = 0
  BY DEF DialFails
<1>2. UNCHANGED <<S, P, Batches, held>> /\ InTurn' = InTurn
  BY <1>1, SameTurn
<1> QED BY <1>1, <1>2 DEF Steady

LEMMA SleepSteady == ASSUME IInv, Steady, Sleep PROVE Steady'
<1>1. S.wait = "count" /\ UNCHANGED sender
  BY DEF Sleep, IInv, Beginning
<1>2. S.wait' = "count"
  BY <1>1 DEF S
<1> QED BY <1>2 DEF Steady

\* What a batch does, besides its numbers.
LEMMA BatchDoes ==
    ASSUME SendersAssumption, SendersTypeOK, Batch
    PROVE  /\ UNCHANGED <<sender, took>> /\ at = "batch"
           /\ started' = Append(started, clock)
           /\ clock' >= clock /\ clock' - clock <= held' /\ held <= held'
           /\ at' \in {"failed", "ended", "pause", "asleep", "select"}
           /\ at' = "ended" => S.wait = "deadline" /\ clock' >= Duration
           /\ at' = "pause" => Batches = 0
<1>1. PICK d \in Slow, error \in BOOLEAN :
        /\ started' = Append(started, clock) /\ clock' = clock + d
        /\ at' = After(Batches + 1, error, clock')
  BY DEF Batch
<1>2. UNCHANGED <<sender, took>> /\ at = "batch"
  BY DEF Batch
<1>3. PICK e : at' = After(Batches + 1, e, clock')
  BY <1>1
<1>4. at' = "ended" => S.wait = "deadline" /\ clock' >= Duration
  BY <1>3 DEF After
<1>5. at' \in {"failed", "ended", "pause", "asleep", "select"}
  BY <1>3 DEF After
<1>6. PICK n \in Nat : clock' = clock + n /\ held' >= held /\ held' >= n
                       /\ (at' = "pause" => Batches = 0) /\ SendersTypeOK'
  BY BatchNumbers
<1>7. clock \in Nat /\ held \in Nat /\ held' \in Nat
  BY <1>6, Numbers DEF SendersTypeOK, held
<1>8. clock' >= clock /\ clock' - clock <= held' /\ held <= held'
  BY <1>6, <1>7
<1> QED BY <1>1, <1>2, <1>4, <1>5, <1>6, <1>8

\* The batch that has started is in its turn.
LEMMA BatchInTurn ==
    ASSUME SendersAssumption, IInv, Batch, InTurn, Losses,
           Batches > 0 => clock = took /\ Follows(clock), held' < P
    PROVE  InTurn'
<1>1. /\ UNCHANGED <<sender, took>> /\ at = "batch" /\ started' = Append(started, clock)
      /\ held <= held'
  BY BatchDoes DEF IInv
<1>2. UNCHANGED <<S, P>>
  BY <1>1 DEF S, P
<1>3. /\ P \in Nat \ {0} /\ S.pause \in Nat
      /\ clock \in Nat /\ took \in Nat /\ held \in Nat /\ Batches \in Nat
      /\ \A i \in 1 .. Batches : started[i] \in Nat
  BY SenderNumbers
<1>4. PICK n \in Nat : SendersTypeOK' /\ Batches' = Batches + 1
  BY BatchNumbers DEF IInv
<1>5. held' \in Nat
  BY <1>4 DEF SendersTypeOK, held
<1>6. /\ \A i \in 1 .. Batches : started'[i] = started[i]
      /\ started'[Batches + 1] = clock
  <2>1. started \in Seq(Nat)
    BY DEF IInv, SendersTypeOK
  <2> QED BY <1>1, <1>3, <2>1, AppendProperties DEF Batches
<1>7. ASSUME NEW t \in Nat, SecondComes(t)
      PROVE  P <= t /\ (t \div P = 1 \/ t <= held' + S.pause)
  <2>1. t <= held + S.pause => t <= held' + S.pause
    BY <1>1, <1>3, <1>5
  <2> QED BY <1>7, <2>1 DEF SecondComes
<1>8. CASE Batches = 0
  <2>1. clock = 0 /\ Batches' = 1 /\ started'[1] = 0
    BY <1>4, <1>6, <1>8 DEF IInv, Beginning
  <2>2. 0 \div P = 0 /\ 0 % P = 0
    <3>1. 0 = (0 * P) + 0 /\ 0 < P
      BY <1>3
    <3> QED BY <1>3, <3>1, Quotient
  <2>3. \A i \in 1 .. Batches' : i = 1
    BY <2>1
  <2>4. PeriodOf(1)' = 0
    BY DEF PeriodOf
  <2>5. ~(Batches' > 1)
    BY <2>1
  <2> QED BY <1>2, <2>1, <2>2, <2>3, <2>4, <2>5 DEF InTurn
<1>9. CASE Batches = 1
  <2>1. SecondComes(clock) /\ (S.pause = 0 => clock % P = 0)
    BY <1>9 DEF Follows
  <2>2. Batches' = 2 /\ started'[2] = clock /\ started'[1] = started[1]
    BY <1>4, <1>6, <1>9
  <2>3. P <= clock /\ (clock \div P = 1 \/ clock <= held' + S.pause)
    BY <1>3, <1>7, <2>1
  <2>4. started[1] \div P = 0 /\ (S.pause = 0 => started[1] % P = 0)
    BY <1>9 DEF InTurn, PeriodOf
  <2>5. PeriodOf(1)' = 0 /\ PeriodOf(2)' = clock \div P
    <3>1. clock \div P \in Nat
      BY <1>3, Division
    <3>2. PeriodOf(2)' = (clock \div P) + (2 - 2)
      BY <1>2, <2>2 DEF PeriodOf
    <3>3. (clock \div P) + (2 - 2) = clock \div P
      BY <3>1
    <3> QED BY <3>2, <3>3 DEF PeriodOf
  <2>6. SecondComes(started[2])'
    BY <1>2, <2>2, <2>3 DEF SecondComes
  <2>7. \A i \in 1 .. Batches' : i = 1 \/ i = 2
    BY <2>2
  <2>8. /\ started'[1] \div P' = PeriodOf(1)' /\ (S.pause' = 0 => started'[1] % P' = 0)
        /\ started'[2] \div P' = PeriodOf(2)' /\ (S.pause' = 0 => started'[2] % P' = 0)
    BY <1>2, <2>1, <2>2, <2>4, <2>5
  <2> QED BY <2>6, <2>7, <2>8 DEF InTurn
<1>10. CASE Batches > 1
  <2>1. clock \div P = PeriodOf(Batches) + 1 /\ (S.pause = 0 => clock % P = 0)
        /\ SecondComes(started[2])
    BY <1>3, <1>10 DEF Follows, InTurn
  <2>2. started'[2] = started[2] /\ started[2] \in Nat /\ Batches' > 1
    BY <1>3, <1>4, <1>6, <1>10
  <2>3. \A i : PeriodOf(i)' = PeriodOf(i)
    BY <1>2, <2>2 DEF PeriodOf
  <2>4. PeriodOf(Batches + 1) = PeriodOf(Batches) + 1
    <3>1. started[2] \div P \in Nat
      BY <1>3, <2>2, Division
    <3>2. PeriodOf(Batches) = (started[2] \div P) + (Batches - 2)
          /\ PeriodOf(Batches + 1) = (started[2] \div P) + ((Batches + 1) - 2)
      BY <1>3, <1>10 DEF PeriodOf
    <3> QED BY <1>3, <3>1, <3>2
  <2>5. SecondComes(started[2])'
    <3>1. /\ P <= started[2]
          /\ started[2] \div P = 1 \/ started[2] <= held' + S.pause
      BY <1>7, <2>1, <2>2
    <3> QED BY <1>2, <2>2, <3>1 DEF SecondComes
  <2>6. ASSUME NEW i \in 1 .. Batches'
        PROVE  started'[i] \div P = PeriodOf(i) /\ (S.pause = 0 => started'[i] % P = 0)
    <3>1. i \in 1 .. Batches \/ i = Batches + 1
      BY <1>3, <1>4
    <3>2. CASE i \in 1 .. Batches
      BY <1>6, <3>2 DEF InTurn
    <3>3. CASE i = Batches + 1
      BY <1>6, <2>1, <2>4, <3>3
    <3> QED BY <3>1, <3>2, <3>3
  <2> QED BY <1>2, <2>2, <2>3, <2>5, <2>6 DEF InTurn
<1> QED BY <1>3, <1>8, <1>9, <1>10

LEMMA BatchSteady == ASSUME SendersAssumption, IInv, Steady, Losses, Batch PROVE Steady'
<1>1. /\ UNCHANGED <<sender, took>> /\ at = "batch" /\ started' = Append(started, clock)
      /\ clock' >= clock /\ clock' - clock <= held' /\ held <= held'
      /\ at' \in {"failed", "ended", "pause", "asleep", "select"}
      /\ at' = "ended" => clock' >= Duration
      /\ at' = "pause" => Batches = 0
  BY BatchDoes DEF IInv
<1>2. UNCHANGED <<S, P, NextTick>>
  BY <1>1 DEF S, P, NextTick
<1>3. /\ P \in Nat \ {0} /\ S.pause \in Nat
      /\ clock \in Nat /\ took \in Nat /\ took <= clock /\ held \in Nat /\ Batches \in Nat
      /\ NextTick = ((took \div P) + 1) * P
  BY SenderNumbers
<1>4. PICK n \in Nat : SendersTypeOK' /\ Batches' = Batches + 1
  BY BatchNumbers DEF IInv
<1>5. held' \in Nat /\ clock' \in Nat /\ Batches' > 0
  BY <1>3, <1>4 DEF SendersTypeOK, held
<1>0. clock' - clock <= held' /\ held <= held'
  BY BatchDoes DEF IInv
<1>16. held' < P => held < P /\ clock' < clock + P
  <2>1. \A a, b, c, d, p \in Nat : a - b <= c /\ d <= c /\ c < p => d < p /\ a < b + p
    OBVIOUS
  <2> QED BY <1>0, <1>3, <1>5, <2>1
<1>17. at' # "batch" /\ (at' = "pause" => Batches' = 1)
  <2>1. Batches = 0 => Batches' = 1
    BY <1>3, <1>4
  <2> QED BY <1>1, <2>1
<1> SUFFICES ASSUME S.wait # "count", held' < P
             PROVE  InTurn' /\ took' = started'[Batches'] /\ InReach'
  BY <1>1, <1>2, <1>5, <1>16, <1>17 DEF Steady
<1>6. held < P
  BY <1>16
<1>7. InTurn /\ (Batches > 0 => clock = took /\ Follows(clock))
  BY <1>1, <1>6 DEF Steady
<1>8. InTurn'
  BY <1>7, BatchInTurn
<1>9. took = clock
  <2>1. Batches = 0 => clock = 0
    BY DEF IInv, Beginning
  <2> QED BY <1>3, <1>7, <2>1
<1>10. started'[Batches'] = clock
  <2>1. started \in Seq(Nat)
    BY DEF IInv, SendersTypeOK
  <2> QED BY <1>1, <1>3, <1>4, <2>1, AppendProperties DEF Batches
<1>11. clock' < clock + P
  BY <1>16
<1>12. S.pause = 0 => clock % P = 0
  <2>1. Batches = 0 => clock % P = 0
    <3>1. 0 = (0 * P) + 0 /\ 0 < P
      BY <1>3
    <3>2. 0 % P = 0
      BY <1>3, <3>1, Quotient
    <3> QED BY <3>2 DEF IInv, Beginning
  <2> QED BY <1>3, <1>7, <2>1 DEF Follows
<1>13. S.pause = 0 => clock' <= NextTick
  <2>1. S.pause = 0 => NextTick = clock + P
    BY <1>3, <1>9, <1>12, OnTick
  <2> QED BY <1>3, <1>5, <1>11, <2>1
<1>14. clock' < NextTick + P
  <2>1. clock < NextTick /\ NextTick \in Nat
    BY <1>9, NextTickFollows DEF IInv
  <2> QED BY <1>3, <1>5, <1>11, <2>1
<1>15. InReach'
  <2>1. S.pause > 0 \/ S.pause = 0
    BY <1>3
  <2> QED BY <1>2, <1>13, <1>14, <2>1 DEF InReach
<1> QED BY <1>1, <1>8, <1>9, <1>10, <1>15

LEMMA StepSteady ==
    ASSUME SendersAssumption, IInv, Steady, Losses, [LsNext]_senderVars PROVE Steady'
<1>1. CASE UNCHANGED senderVars
  <2>1. UNCHANGED <<S, P, Batches, held, NextTick>> /\ InTurn' = InTurn
        /\ \A t : Follows(t)' = Follows(t)
    <3>1. /\ UNCHANGED <<S, P, Batches, held>> /\ InTurn' = InTurn
          /\ \A t : Follows(t)' = Follows(t)
      BY <1>1, SameTurn DEF senderVars
    <3> QED BY <1>1, <3>1 DEF senderVars, NextTick
  <2>2. UNCHANGED <<at, clock, took, started>>
    BY <1>1 DEF senderVars
  <2>3. InReach' = InReach /\ Follows(clock)' = Follows(clock)
    BY <2>1, <2>2 DEF InReach, Follows, PeriodOf, SecondComes
  <2> QED BY <2>1, <2>2, <2>3 DEF Steady
<1> QED BY <1>1, BatchSteady, DialSteady, PauseSteady, TickSteady, TimeUpSteady, WaitSteady,
           SleepSteady DEF LsNext

-------------------------------------------------------------------------------
(* Losses is kept as well.                                                 *)

\* The sender of logs looks at the errors of its first lines, which tell of every
\* loss, and pauses after none.
LEMMA LogsTell == sender = "logs" => Looks(1) /\ S.tells /\ S.pause = 0
BY DEF Looks, S, Senders, logs, Row

LEMMA BatchLosses == ASSUME SendersAssumption, IInv, Losses, Batch PROVE Losses'
<1>1. PICK d \in Slow, fault \in BOOLEAN, error \in BOOLEAN :
        /\ lost' = (IF fault THEN lost \cup {clock} ELSE lost)
        /\ at' = After(Batches + 1, error, clock')
        /\ fault /\ Looks(Batches + 1) /\ S.tells => error
  BY DEF Batch
<1>2. /\ UNCHANGED sender /\ at = "batch" /\ started' = Append(started, clock)
      /\ at' \in {"failed", "ended", "pause", "asleep", "select"}
  BY BatchDoes DEF IInv
<1>3. Batches \in Nat /\ clock \in Nat
  BY SenderNumbers
<1>4. PICK n \in Nat : SendersTypeOK' /\ Batches' = Batches + 1
  BY BatchNumbers DEF IInv
<1>5. Batches' > 0 /\ Batches' # 0
  BY <1>3, <1>4
<1>6. Batches = 0 => clock = 0 /\ Batches + 1 = 1
  BY <1>3 DEF IInv, Beginning
<1>7. started'[1] = 0
  <2>1. started \in Seq(Nat) /\ Batches = Len(started)
    BY DEF IInv, SendersTypeOK, Batches
  <2>2. CASE Batches = 0
    <3>1. started'[Len(started) + 1] = clock
      BY <1>2, <1>3, <2>1, AppendProperties
    <3> QED BY <1>6, <2>1, <2>2, <3>1
  <2>3. CASE Batches > 0
    <3>1. 1 \in 1 .. Len(started)
      BY <1>3, <2>1, <2>3
    <3>2. started'[1] = started[1]
      BY <1>2, <1>3, <2>1, <3>1, AppendProperties
    <3> QED BY <2>3, <3>2 DEF Losses
  <2> QED BY <1>3, <2>2, <2>3
<1>8. ASSUME sender = "logs", at' # "failed"
      PROVE  0 \notin lost'
  <2>1. Batches = 0 => ~fault
    <3>1. ~error
      BY <1>1, <1>8 DEF After
    <3> QED BY <1>1, <1>6, <1>8, <3>1, LogsTell
  <2>2. Batches # 0 => clock # 0
    <3>1. Batches # 0 => clock > 0
      BY <1>2, <1>3 DEF Losses
    <3> QED BY <1>3, <3>1
  <2>3. 0 \notin lost
    BY <1>2, <1>8 DEF Losses
  <2> QED BY <1>1, <2>1, <2>2, <2>3
<1>9. at' # "batch"
  BY <1>2
<1> QED BY <1>2, <1>5, <1>7, <1>8, <1>9 DEF Losses

\* A batch after the first starts later.
LEMMA LaterThanFirst ==
    ASSUME SendersAssumption, IInv, Tick \/ Sleep
    PROVE  clock' > 0
<1>1. /\ P \in Nat \ {0} /\ clock \in Nat /\ took \in Nat /\ NextTick \in Nat
  BY SenderNumbers
<1>2. CASE Tick
  <2>1. took < NextTick
    BY NextTickFollows DEF IInv
  <2>2. clock' = clock /\ clock >= NextTick
    BY <1>2 DEF Tick, TickReady
  <2> QED BY <1>1, <2>1, <2>2
<1>3. CASE Sleep
  <2>1. clock' = clock + P
    BY <1>3 DEF Sleep, P
  <2> QED BY <1>1, <2>1
<1> QED BY <1>2, <1>3

LEMMA StepLosses ==
    ASSUME SendersAssumption, IInv, Losses, [LsNext]_senderVars PROVE Losses'
<1>1. ASSUME UNCHANGED <<sender, started, lost>>, at' = "batch" => clock' > 0 \/ UNCHANGED <<at, clock>>,
             at' = "ended" => at = "ended" \/ Batches > 0, at = "failed" => at' = "failed"
      PROVE  Losses'
  <2>1. UNCHANGED Batches
    BY <1>1 DEF Batches
  <2> QED BY <1>1, <2>1 DEF Losses
<1>2. CASE DialFails
  BY <1>1, <1>2 DEF DialFails
<1>3. CASE Pause
  <2>1. /\ at = "pause" /\ at' \in {"select", "failed"} /\ UNCHANGED <<sender, started>>
        /\ UNCHANGED Batches
    BY <1>3 DEF Pause, Batches
  <2>2. sender # "logs"
    <3>1. S.pause > 0
      BY <2>1 DEF IInv, Beginning
    <3> QED BY <3>1, LogsTell
  <2> QED BY <2>1, <2>2 DEF Losses
<1>4. CASE Tick
  BY <1>1, <1>4, LaterThanFirst DEF Tick
<1>5. CASE TimeUp
  BY <1>1, <1>5 DEF TimeUp, IInv, Beginning
<1>6. CASE Wait
  BY <1>1, <1>6 DEF Wait
<1>7. CASE Sleep
  BY <1>1, <1>7, LaterThanFirst DEF Sleep, IInv, Beginning
<1>8. CASE UNCHANGED senderVars
  BY <1>1, <1>8 DEF senderVars
<1> QED BY <1>2, <1>3, <1>4, <1>5, <1>6, <1>7, <1>8, BatchLosses DEF LsNext

-------------------------------------------------------------------------------
(* What they imply.                                                        *)

LEMMA LossesImply == ASSUME Losses PROVE NilIsNoLoss
BY DEF Losses, NilIsNoLoss

LEMMA SteadyImplies == ASSUME SendersAssumption, IInv, Steady PROVE LoadIsSteady
<1> SUFFICES ASSUME at = "ended", S.wait # "count", held < P,
                    NEW k \in 0 .. (Duration \div P)
             PROVE  LET from == k * P
                        begun == {i \in DOMAIN started : started[i] \in from .. from + P - 1}
                    IN  /\ \A i, j \in begun : i = j
                        /\ begun = {} =>
                              \/ from >= Duration
                              \/ S.pause > 0 /\ (from + P <= held + S.pause \/ from + P > Duration)
  BY DEF LoadIsSteady, P
<1> DEFINE from == k * P
           begun == {i \in DOMAIN started : started[i] \in from .. from + P - 1}
<1>1. /\ P \in Nat \ {0} /\ Duration \in Nat \ {0} /\ S.pause \in Nat
      /\ clock \in Nat /\ took \in Nat /\ held \in Nat /\ Batches \in Nat
      /\ \A i \in 1 .. Batches : started[i] \in Nat
      /\ NextTick = ((took \div P) + 1) * P
      /\ DOMAIN started = 1 .. Batches
  BY SenderNumbers
<1>2. InTurn /\ took = started[Batches] /\ Batches > 0 /\ clock >= Duration /\ InReach
  BY DEF Steady
<1>3. k \in Nat
  <2>1. Duration \div P \in Nat
    BY <1>1, Division
  <2> QED BY <2>1
<1>4. from \in Nat /\ (k + 1) * P = from + P
  BY <1>1, <1>3, Product
<1>5. ASSUME NEW i \in 1 .. Batches
      PROVE  i \in begun <=> PeriodOf(i) = k
  <2>1. started[i] \in Nat /\ started[i] \div P = PeriodOf(i)
    BY <1>1, <1>2 DEF InTurn
  <2>2. ASSUME i \in begun PROVE PeriodOf(i) = k
    <3>1. from <= started[i] /\ started[i] < from + P
      BY <1>1, <1>4, <2>1, <2>2
    <3> QED BY <1>1, <1>3, <2>1, <3>1, InPeriod
  <2>3. ASSUME PeriodOf(i) = k PROVE i \in begun
    <3>1. from <= started[i] /\ started[i] < from + P
      BY <1>1, <2>1, <2>3, PeriodBounds
    <3>2. started[i] \in from .. from + P - 1
      BY <1>1, <1>4, <2>1, <3>1
    <3> QED BY <1>1, <3>2
  <2> QED BY <2>2, <2>3
<1>6. \A i \in begun : i \in 1 .. Batches
  BY <1>1
<1> HIDE DEF from, begun
<1>7. Batches > 1 => /\ started[2] \in Nat /\ started[2] \div P \in Nat /\ P <= started[2]
                     /\ started[2] \div P >= 1
                     /\ started[2] \div P = 1 \/ started[2] <= held + S.pause
  <2> SUFFICES ASSUME Batches > 1
               PROVE  /\ started[2] \in Nat /\ started[2] \div P \in Nat /\ P <= started[2]
                      /\ started[2] \div P >= 1
                      /\ started[2] \div P = 1 \/ started[2] <= held + S.pause
    OBVIOUS
  <2>1. started[2] \in Nat
    BY <1>1
  <2>2. P <= started[2] /\ (started[2] \div P = 1 \/ started[2] <= held + S.pause)
    BY <1>2 DEF InTurn, SecondComes
  <2>3. /\ started[2] \div P \in Nat /\ started[2] < ((started[2] \div P) * P) + P
    BY <1>1, <2>1, PeriodBounds
  <2>4. started[2] \div P # 0
    <3>1. ASSUME started[2] \div P = 0 PROVE FALSE
      <4>1. (started[2] \div P) * P = 0
        BY <1>1, <3>1
      <4> QED BY <1>1, <2>1, <2>2, <2>3, <4>1
    <3> QED BY <3>1
  <2> QED BY <2>1, <2>2, <2>3, <2>4
<1>8. ASSUME NEW i \in begun, NEW j \in begun
      PROVE  i = j
  <2>1. i \in 1 .. Batches /\ j \in 1 .. Batches /\ PeriodOf(i) = PeriodOf(j)
    BY <1>5, <1>6
  <2>2. CASE i = 1 /\ j = 1
    BY <2>2
  <2>3. CASE i = 1 /\ j # 1
    <3>1. Batches > 1 /\ j \in Nat /\ j >= 2
      BY <1>1, <2>1, <2>3
    <3>2. (started[2] \div P) + (j - 2) = 0
      BY <2>1, <2>3 DEF PeriodOf
    <3> QED BY <1>7, <3>1, <3>2
  <2>4. CASE i # 1 /\ j = 1
    <3>1. Batches > 1 /\ i \in Nat /\ i >= 2
      BY <1>1, <2>1, <2>4
    <3>2. (started[2] \div P) + (i - 2) = 0
      BY <2>1, <2>4 DEF PeriodOf
    <3> QED BY <1>7, <3>1, <3>2
  <2>5. CASE i # 1 /\ j # 1
    <3>1. Batches > 1 /\ i \in Nat /\ i >= 2 /\ j \in Nat
      BY <1>1, <2>1, <2>5
    <3>2. (started[2] \div P) + (i - 2) = (started[2] \div P) + (j - 2)
      BY <2>1, <2>5 DEF PeriodOf
    <3> QED BY <1>7, <3>1, <3>2
  <2> QED BY <2>2, <2>3, <2>4, <2>5
<1>9. ASSUME begun = {}
      PROVE  \/ from >= Duration
             \/ S.pause > 0 /\ (from + P <= held + S.pause \/ from + P > Duration)
  <2>1. \A i \in 1 .. Batches : PeriodOf(i) # k
    BY <1>5, <1>9
  <2>2. k # 0
    <3>1. 1 \in 1 .. Batches
      BY <1>1, <1>2
    <3> QED BY <2>1, <3>1 DEF PeriodOf
  <2>3. took \div P = PeriodOf(Batches) /\ took \div P \in Nat
        /\ NextTick = ((took \div P) * P) + P /\ ((took \div P) * P) \in Nat
    <3>1. Batches \in 1 .. Batches
      BY <1>1, <1>2
    <3> QED BY <1>1, <1>2, <3>1, PeriodBounds DEF InTurn
  \* Past the last batch: the round was over before that period, or it ends within.
  <2>4. ASSUME k > took \div P
        PROVE  \/ from >= Duration
               \/ S.pause > 0 /\ (from + P <= held + S.pause \/ from + P > Duration)
    <3>1. NextTick <= from
      <4>1. (took \div P) + 1 <= k /\ (took \div P) + 1 \in Nat
        BY <1>3, <2>3, <2>4
      <4> QED BY <1>1, <1>3, <4>1, ProductGrows DEF from
    <3>2. NextTick \in Nat
      BY <1>1, <2>3
    <3>3. CASE clock <= NextTick
      BY <1>1, <1>2, <1>4, <3>1, <3>2, <3>3
    <3>4. CASE S.pause > 0 /\ clock < NextTick + P
      BY <1>1, <1>2, <1>4, <3>1, <3>2, <3>4
    <3>5. CASE S.pause > 0 /\ clock <= held + S.pause
      BY <1>1, <1>2, <1>4, <3>5
    <3> QED BY <1>2, <3>3, <3>4, <3>5 DEF InReach
  \* Before the second batch: the pause of the first lasts longer.
  <2>5. ASSUME Batches > 1, k < started[2] \div P
        PROVE  S.pause > 0 /\ from + P <= held + S.pause
    <3>1. started[2] <= held + S.pause /\ P <= started[2] /\ started[2] \in Nat
      BY <1>3, <1>7, <2>2, <2>5
    <3>2. S.pause > 0
      BY <1>1, <3>1
    <3>3. (k + 1) * P <= (started[2] \div P) * P
      <4>1. k + 1 \in Nat /\ k + 1 <= started[2] \div P /\ started[2] \div P \in Nat
        BY <1>3, <1>7, <2>5
      <4> QED BY <1>1, <4>1, ProductGrows
    <3>4. (started[2] \div P) * P <= started[2] /\ ((started[2] \div P) * P) \in Nat
      BY <1>1, <3>1, PeriodBounds
    <3>5. from + P <= held + S.pause
      <4>1. from + P <= (started[2] \div P) * P
        BY <1>4, <3>3
      <4> DEFINE m == (started[2] \div P) * P
      <4> HIDE DEF m
      <4> QED BY <1>1, <1>4, <3>1, <3>4, <4>1 DEF m
    <3> QED BY <3>2, <3>5
  <2>6. CASE Batches = 1
    <3>1. took \div P = 0
      BY <2>3, <2>6 DEF PeriodOf
    <3>2. k > took \div P
      BY <1>3, <2>2, <3>1
    <3> QED BY <2>4, <3>2
  <2>7. CASE Batches > 1 /\ k >= started[2] \div P
    <3> DEFINE q == started[2] \div P
    <3>0. q \in Nat
      BY <1>7, <2>7
    <3>1. k > q + (Batches - 2)
      <4>1. ASSUME k <= q + (Batches - 2) PROVE FALSE
        <5> DEFINE i == (k - q) + 2
        <5>0. q <= k /\ 1 < Batches
          BY <2>7
        <5> HIDE DEF q
        <5>1. i \in 1 .. Batches /\ i # 1 /\ q + (i - 2) = k
          BY <1>1, <1>3, <3>0, <4>1, <5>0
        <5>2. PeriodOf(i) = q + (i - 2)
          BY <5>1 DEF PeriodOf, q
        <5> QED BY <2>1, <5>1, <5>2
      <4> QED BY <1>1, <1>3, <3>0, <4>1
    <3>2. took \div P = q + (Batches - 2)
      BY <1>1, <2>3, <2>7 DEF PeriodOf
    <3> QED BY <2>4, <3>1, <3>2
  <2> QED BY <1>1, <1>2, <1>3, <1>7, <2>4, <2>5, <2>6, <2>7
<1> QED BY <1>8, <1>9 DEF from, begun

-------------------------------------------------------------------------------
(* The theorem.                                                            *)

LEMMA InitSInv == ASSUME SendersAssumption, LsInit PROVE SInv
BY InitIInv, InitSteady DEF SInv

LEMMA StepSInv == ASSUME SendersAssumption, SInv, [LsNext]_senderVars PROVE SInv'
<1>1. IInv /\ Steady /\ Losses
  BY DEF SInv
<1> QED BY <1>1, StepIInv, StepSteady, StepLosses DEF SInv

LEMMA SInvImplies ==
    ASSUME SendersAssumption, SInv
    PROVE  SenderEndsInTime /\ LoadIsSteady /\ NilIsNoLoss
BY SteadyImplies, LossesImply DEF SInv, IInv

\* No sender outlasts its round by more than its batches were held up, each sends
\* a batch a period to the end of the round, and that of logs returns no error
\* only if its first lines were written, whatever the intervals and the hold-ups
\* are: the sending loops over ticker and timer, over the deadline, and those that
\* count (metrics.go, logs.go, otlp.go).
THEOREM SendersInvariant == ASSUME SendersAssumption PROVE LsSpec => []SInv
<1>1. LsInit => SInv
  BY InitSInv
<1>2. SInv /\ [LsNext]_senderVars => SInv'
  BY StepSInv
<1> QED BY <1>1, <1>2, PTL DEF LsSpec

===============================================================================
