----------------------------- MODULE LogEventsProofs -----------------------------
(***************************************************************************)
(* Proofs about the assertions of LogEvents, for streams of any length:    *)
(* the numbers of the events come out sorted, the walk over them collects  *)
(* the numbers between two neighbours, and what AssertNoMissingLogs says   *)
(* follows.                                                                *)
(***************************************************************************)
EXTENDS LogEvents, FiniteSetTheorems, SequenceTheorems, WellFoundedInduction, TLAPS

-------------------------------------------------------------------------------
(* Numbers, and the folds of the community modules.                        *)

\* A non-empty set of numbers has a least one.
LEMMA LeastNumber ==
    ASSUME NEW T, T \subseteq Nat, T # {}
    PROVE  \E x \in T : \A y \in T : x <= y
<1>1. PICK x \in T : \A y \in T : ~(<<y, x>> \in OpToRel(<, Nat))
  BY WFMin, NatLessThanWellFounded
<1>2. \A y \in T : ~(y < x)
  BY <1>1 DEF OpToRel
<1>3. \A y \in T : x \in Nat /\ y \in Nat
  OBVIOUS
<1> QED BY <1>2, <1>3

\* A set of numbers that has 0 and the successor of each of its own has them all.
LEMMA NumbersByStep ==
    ASSUME NEW T, T \subseteq Nat, 0 \in T, \A n \in T : n + 1 \in T
    PROVE  T = Nat
<1> SUFFICES ASSUME Nat \ T # {} PROVE FALSE
  OBVIOUS
<1>1. PICK x \in Nat \ T : \A y \in Nat \ T : x <= y
  BY LeastNumber
<1>2. x # 0 /\ x - 1 \in Nat
  OBVIOUS
<1>3. x - 1 \in T
  BY <1>1, <1>2
<1> QED BY <1>2, <1>3

\* A bounded non-empty set of numbers has a greatest one, and Max is it.
LEMMA MaxOfBounded ==
    ASSUME NEW n \in Nat, NEW s \in SUBSET (0 .. n), s # {}
    PROVE  Max(s) \in s /\ \A y \in s : y <= Max(s)
<1> DEFINE T == {m \in Nat : \A y \in s : y <= m}
<1>1. n \in T /\ T \subseteq Nat
  OBVIOUS
<1>2. PICK m \in T : \A k \in T : m <= k
  <2> HIDE DEF T
  <2> QED BY <1>1, LeastNumber
<1>3. m \in s
  <2> SUFFICES ASSUME m \notin s PROVE FALSE
    OBVIOUS
  <2>1. PICK y \in s : TRUE
    OBVIOUS
  <2>2. y \in Nat /\ m \in Nat /\ y <= m /\ y # m
    BY <2>1
  <2>3. m - 1 \in Nat
    BY <2>2
  <2>4. \A z \in s : z \in Nat /\ z <= m /\ z # m
    OBVIOUS
  <2>5. \A z \in s : z <= m - 1
    BY <2>2, <2>4
  <2>6. m - 1 \in T
    BY <2>3, <2>5
  <2> HIDE DEF T
  <2>7. m <= m - 1
    BY <1>2, <2>6
  <2> QED BY <2>2, <2>7
<1>4. \A y \in s : m >= y /\ y <= m
  OBVIOUS
<1>5. Max(s) \in s /\ \A y \in s : Max(s) >= y
  BY <1>3, <1>4 DEF Max
<1>6. \A y \in s : y \in Nat
  OBVIOUS
<1> QED BY <1>5, <1>6

\* The recursion of FoldLeft over a sequence of length n, which takes the last
\* element first, and the function it defines.
FoldOf(n, base, step, f) ==
    \A s \in SUBSET (1 .. n) :
        f[s] = IF s = {} THEN base ELSE step[Max(s)][f[s \ {Max(s)}]]

LEMMA FoldExists ==
    ASSUME NEW n \in Nat, NEW V, NEW base \in V, NEW step \in [1 .. n -> [V -> V]]
    PROVE  \E f \in [SUBSET (1 .. n) -> V] : FoldOf(n, base, step, f)
<1> DEFINE D == 1 .. n
           Good(f, k) ==
              \A s \in SUBSET D : Cardinality(s) <= k =>
                 f[s] = IF s = {} THEN base ELSE step[Max(s)][f[s \ {Max(s)}]]
           T == {k \in Nat : \E f \in [SUBSET D -> V] : Good(f, k)}
<1>1. IsFiniteSet(D) /\ Cardinality(D) = n
  BY FS_Interval
<1>2. \A s \in SUBSET D : IsFiniteSet(s) /\ Cardinality(s) \in Nat /\ Cardinality(s) <= n
  <2> TAKE s \in SUBSET D
  <2> HIDE DEF D
  <2>1. IsFiniteSet(s) /\ Cardinality(s) <= Cardinality(D)
    BY <1>1, FS_Subset
  <2>2. Cardinality(s) \in Nat
    BY <2>1, FS_CardinalityType
  <2> QED BY <1>1, <2>1, <2>2
<1>3. \A s \in SUBSET D : s # {} => Max(s) \in s
  <2> TAKE s \in SUBSET D
  <2>1. s \in SUBSET (0 .. n)
    OBVIOUS
  <2> QED BY <2>1, MaxOfBounded
<1>4. 0 \in T
  <2>1. [s \in SUBSET D |-> base] \in [SUBSET D -> V]
    OBVIOUS
  <2>2. \A s \in SUBSET D : Cardinality(s) <= 0 => s = {}
    <3> TAKE s \in SUBSET D
    <3>1. IsFiniteSet(s) /\ Cardinality(s) \in Nat
      BY <1>2
    <3>2. Cardinality(s) = 0 <=> s = {}
      BY <3>1, FS_EmptySet
    <3> QED BY <3>1, <3>2
  <2>3. Good([s \in SUBSET D |-> base], 0)
    BY <2>2
  <2> QED BY <2>1, <2>3
<1>5. ASSUME NEW k \in T PROVE k + 1 \in T
  <2>1. PICK f \in [SUBSET D -> V] : Good(f, k)
    BY <1>5
  <2>2. k \in Nat
    BY <1>5
  <2> DEFINE g == [s \in SUBSET D |->
                     IF s = {} THEN base ELSE step[Max(s)][f[s \ {Max(s)}]]]
  <2>3. g \in [SUBSET D -> V]
    <3>1. ASSUME NEW s \in SUBSET D PROVE g[s] \in V
      <4>1. CASE s = {}
        BY <4>1
      <4>2. CASE s # {}
        <5>1. Max(s) \in D /\ s \ {Max(s)} \in SUBSET D
          BY <1>3, <4>2
        <5>2. step[Max(s)] \in [V -> V] /\ f[s \ {Max(s)}] \in V
          BY <5>1
        <5> QED BY <4>2, <5>2
      <4> QED BY <4>1, <4>2
    <3> QED BY <3>1
  <2>4. ASSUME NEW s \in SUBSET D, Cardinality(s) <= k + 1, s # {}
        PROVE  g[s \ {Max(s)}] = f[s \ {Max(s)}]
    <3> DEFINE t == s \ {Max(s)}
    <3>1. t \in SUBSET D /\ Max(s) \in s
      BY <1>3, <2>4
    <3>2. Cardinality(t) = Cardinality(s) - 1
      BY <1>2, <2>4, <3>1, FS_RemoveElement
    <3>3. Cardinality(s) \in Nat
      BY <1>2
    <3>4. Cardinality(t) <= k
      BY <2>2, <2>4, <3>2, <3>3
    <3>5. f[t] = IF t = {} THEN base ELSE step[Max(t)][f[t \ {Max(t)}]]
      BY <2>1, <3>1, <3>4
    <3>6. g[t] = IF t = {} THEN base ELSE step[Max(t)][f[t \ {Max(t)}]]
      BY <3>1
    <3> QED BY <3>5, <3>6
  <2>5. Good(g, k + 1)
    <3> SUFFICES ASSUME NEW s \in SUBSET D, Cardinality(s) <= k + 1
                 PROVE  g[s] = IF s = {} THEN base ELSE step[Max(s)][g[s \ {Max(s)}]]
      OBVIOUS
    <3>1. g[s] = IF s = {} THEN base ELSE step[Max(s)][f[s \ {Max(s)}]]
      OBVIOUS
    <3> HIDE DEF g
    <3> QED BY <2>4, <3>1
  <2> HIDE DEF g, Good
  <2>6. \E h \in [SUBSET D -> V] : Good(h, k + 1)
    BY <2>3, <2>5
  <2>7. k + 1 \in Nat
    BY <2>2
  <2> QED BY <2>6, <2>7
<1>6. T = Nat
  <2>1. T \subseteq Nat
    OBVIOUS
  <2> HIDE DEF T
  <2> QED BY <1>4, <1>5, <2>1, NumbersByStep
<1>7. PICK f \in [SUBSET D -> V] : Good(f, n)
  BY <1>6
<1>8. FoldOf(n, base, step, f)
  BY <1>2, <1>7 DEF FoldOf
<1> QED BY <1>8

\* What holds of 0 and with every number of the next holds up to the end.
LEMMA UpToEnd ==
    ASSUME NEW n \in Nat, NEW T, 0 \in T, \A i \in 1 .. n : i - 1 \in T => i \in T
    PROVE  \A i \in 0 .. n : i \in T
<1> DEFINE U == {i \in Nat : i <= n => i \in T}
<1>1. U \subseteq Nat /\ 0 \in U
  OBVIOUS
<1>2. \A i \in U : i + 1 \in U
  <2> TAKE i \in U
  <2>1. i \in Nat /\ i + 1 \in Nat
    OBVIOUS
  <2>2. ASSUME i + 1 <= n PROVE i + 1 \in T
    <3>1. i <= n /\ i + 1 \in 1 .. n /\ (i + 1) - 1 = i
      BY <2>1, <2>2
    <3> QED BY <3>1
  <2> QED BY <2>1, <2>2
<1>3. U = Nat
  <2> HIDE DEF U
  <2> QED BY <1>1, <1>2, NumbersByStep
<1>4. \A i \in 0 .. n : i \in Nat /\ i <= n
  OBVIOUS
<1> QED BY <1>3, <1>4

\* What the fold has walked over when it reaches the i-th element.
LEMMA PartsOfWalk ==
    ASSUME NEW n \in Nat, NEW i \in 1 .. n
    PROVE  /\ 1 .. i \in SUBSET (1 .. n) /\ 1 .. i # {}
           /\ Max(1 .. i) = i /\ (1 .. i) \ {i} = 1 .. (i - 1)
<1>1. i \in Nat /\ i \in 1 .. i
  OBVIOUS
<1>2. \A y \in 1 .. i : y \in 1 .. n /\ y \in 0 .. n
  BY <1>1
<1>3. 1 .. i \in SUBSET (0 .. n) /\ 1 .. i # {}
  BY <1>1, <1>2
<1>4. Max(1 .. i) \in 1 .. i /\ \A y \in 1 .. i : y <= Max(1 .. i)
  BY <1>3, MaxOfBounded
<1>5. Max(1 .. i) = i
  BY <1>1, <1>4
<1>6. (1 .. i) \ {i} = 1 .. (i - 1)
  BY <1>1
<1> QED BY <1>2, <1>3, <1>5, <1>6

-------------------------------------------------------------------------------
(* NumbersOf sorts.                                                        *)

\* The events of a stream, for all that the assertions read of them.
Streams == Seq([ts : Nat, msg : Nat \cup {Unnumbered}])

\* The events that have a number, and those of them up to one.
Numbered(events) == {i \in DOMAIN events : events[i].msg # Unnumbered}

UpToIn(events, i) ==
    {j \in Numbered(events) : \/ events[j].msg < events[i].msg
                              \/ events[j].msg = events[i].msg /\ j <= i}

LEMMA NumberedTypes ==
    ASSUME NEW events \in Streams
    PROVE  /\ IsFiniteSet(Numbered(events)) /\ Cardinality(Numbered(events)) \in Nat
           /\ Numbered(events) \subseteq Nat
           /\ Numbered(events) \subseteq DOMAIN events
           /\ \A i \in Numbered(events) : events[i].msg \in Nat
<1>1. Len(events) \in Nat /\ DOMAIN events = 1 .. Len(events)
  BY DEF Streams
<1>2. IsFiniteSet(1 .. Len(events))
  BY <1>1, FS_Interval
<1>3. Numbered(events) \subseteq 1 .. Len(events)
  BY <1>1 DEF Numbered
<1>4. IsFiniteSet(Numbered(events))
  BY <1>2, <1>3, FS_Subset
<1>5. Cardinality(Numbered(events)) \in Nat
  BY <1>4, FS_CardinalityType
<1>6. \A i \in Numbered(events) : events[i].msg \in Nat
  <2> TAKE i \in Numbered(events)
  <2>1. i \in DOMAIN events /\ events[i].msg # Unnumbered
    BY DEF Numbered
  <2>2. events[i] \in [ts : Nat, msg : Nat \cup {Unnumbered}]
    BY <1>1, <2>1, ElementOfSeq DEF Streams
  <2> QED BY <2>1, <2>2
<1> QED BY <1>1, <1>3, <1>4, <1>5, <1>6

PlaceIn(events) == [i \in Numbered(events) |-> Cardinality(UpToIn(events, i))]

\* Each event has its own place, and the places leave none out.
LEMMA Places ==
    ASSUME NEW events \in Streams
    PROVE  /\ PlaceIn(events) \in Bijection(Numbered(events), 1 .. Cardinality(Numbered(events)))
           /\ \A i, j \in Numbered(events) :
                 PlaceIn(events)[i] <= PlaceIn(events)[j] => events[i].msg <= events[j].msg
<1> DEFINE S == Numbered(events)
           U(i) == UpToIn(events, i)
           place == [i \in S |-> Cardinality(U(i))]
<1>1. /\ IsFiniteSet(S) /\ Cardinality(S) \in Nat /\ S \subseteq Nat
      /\ \A i \in S : events[i].msg \in Nat
  BY NumberedTypes
<1>2. \A i \in S : U(i) \subseteq S /\ i \in U(i)
  BY <1>1 DEF UpToIn
<1>3. \A i \in S : IsFiniteSet(U(i)) /\ Cardinality(U(i)) \in 1 .. Cardinality(S)
  <2> TAKE i \in S
  <2>1. U(i) \subseteq S /\ i \in U(i)
    BY <1>2
  <2> HIDE DEF S, U
  <2>2. IsFiniteSet(U(i)) /\ Cardinality(U(i)) <= Cardinality(S)
    BY <1>1, <2>1, FS_Subset
  <2>3. Cardinality(U(i)) \in Nat
    BY <2>2, FS_CardinalityType
  <2>4. Cardinality(U(i)) # 0
    BY <2>1, <2>2, FS_EmptySet
  <2> QED BY <1>1, <2>2, <2>3, <2>4
<1>4. ASSUME NEW i \in S, NEW j \in S,
             \/ events[i].msg < events[j].msg
             \/ events[i].msg = events[j].msg /\ i < j
      PROVE  place[i] < place[j]
  <2>1. U(i) \subseteq U(j) /\ j \notin U(i) /\ j \in U(j)
    BY <1>1, <1>4 DEF UpToIn
  <2>2. IsFiniteSet(U(j)) /\ Cardinality(U(i)) \in Nat /\ Cardinality(U(j)) \in Nat
    BY <1>1, <1>3
  <2>3. place[i] = Cardinality(U(i)) /\ place[j] = Cardinality(U(j))
    OBVIOUS
  <2> HIDE DEF S, U, place
  <2>4. Cardinality(U(i)) <= Cardinality(U(j))
    BY <2>1, <2>2, FS_Subset
  <2>5. Cardinality(U(i)) # Cardinality(U(j))
    BY <2>1, <2>2, FS_Subset
  <2> QED BY <2>2, <2>3, <2>4, <2>5
<1>5. \A i \in S : place[i] \in 1 .. Cardinality(S)
  BY <1>3
<1> HIDE DEF S, U, place
<1>6. \A i, j \in S : i # j => \/ events[i].msg < events[j].msg
                               \/ events[i].msg = events[j].msg /\ i < j
                               \/ events[j].msg < events[i].msg
                               \/ events[i].msg = events[j].msg /\ j < i
  BY <1>1
<1>7. \A i, j \in S : place[i] \in Nat /\ place[j] \in Nat
  BY <1>1, <1>5
<1>8. \A i, j \in S : i # j => place[i] # place[j]
  BY <1>4, <1>6, <1>7
<1>9. place \in [S -> 1 .. Cardinality(S)]
  BY <1>5 DEF place
<1>10. place \in Injection(S, 1 .. Cardinality(S))
  BY <1>8, <1>9 DEF Injection, IsInjective
<1>11. /\ IsFiniteSet(1 .. Cardinality(S))
       /\ Cardinality(1 .. Cardinality(S)) = Cardinality(S)
  BY <1>1, FS_Interval
<1>12. place \in Surjection(S, 1 .. Cardinality(S))
  BY <1>10, <1>11, FS_Injection
<1>13. place \in Bijection(S, 1 .. Cardinality(S))
  BY <1>10, <1>12 DEF Bijection
<1>14. \A i, j \in S : place[i] <= place[j] => events[i].msg <= events[j].msg
  BY <1>1, <1>4, <1>7
<1> QED BY <1>13, <1>14 DEF PlaceIn, S, U, place

\* The numbers of a stream: sorted, as many as there are events that have one,
\* and strictly sorted if no two have the same.
LEMMA NumbersSorted ==
    ASSUME NEW events \in Streams
    PROVE  /\ NumbersOf(events) \in Seq(Nat)
           /\ Len(NumbersOf(events)) = Cardinality(Numbered(events))
           /\ \A k, l \in 1 .. Len(NumbersOf(events)) :
                 k <= l => NumbersOf(events)[k] <= NumbersOf(events)[l]
           /\ \A k \in 1 .. Len(NumbersOf(events)) :
                 \E i \in Numbered(events) : NumbersOf(events)[k] = events[i].msg
           /\ \A i \in Numbered(events) :
                 \E k \in 1 .. Len(NumbersOf(events)) : NumbersOf(events)[k] = events[i].msg
           /\ (\A i, j \in Numbered(events) : events[i].msg = events[j].msg => i = j) =>
                 \A k, l \in 1 .. Len(NumbersOf(events)) :
                    k < l => NumbersOf(events)[k] < NumbersOf(events)[l]
<1> DEFINE S == Numbered(events)
           place == [i \in S |-> Cardinality(UpToIn(events, i))]
           at == [k \in 1 .. Cardinality(S) |-> CHOOSE i \in S : place[i] = k]
           N == [k \in 1 .. Cardinality(S) |-> events[at[k]].msg]
<1>1. /\ Cardinality(S) \in Nat /\ S \subseteq Nat
      /\ \A i \in S : events[i].msg \in Nat
  BY NumberedTypes
<1>2. /\ place \in Bijection(S, 1 .. Cardinality(S))
      /\ \A i, j \in S : place[i] <= place[j] => events[i].msg <= events[j].msg
  BY Places DEF PlaceIn
<1>3. NumbersOf(events) = N
  <2>1. \A i \in S : place[i] = Cardinality(UpToIn(events, i))
    OBVIOUS
  <2>2. \A k \in 1 .. Cardinality(S) :
           at[k] = CHOOSE i \in S : Cardinality(UpToIn(events, i)) = k
    BY <2>1
  <2> DEFINE choice(k) == CHOOSE i \in S : Cardinality(UpToIn(events, i)) = k
             M == [k \in 1 .. Cardinality(S) |-> events[choice(k)].msg]
  <2>3. NumbersOf(events) = M
    BY DEF NumbersOf, Numbered, UpToIn
  <2>4. \A k \in 1 .. Cardinality(S) : at[k] = choice(k)
    BY <2>2
  <2> HIDE DEF S, place, at, choice
  <2>5. N = M
    BY <2>4
  <2> QED BY <2>3, <2>5
<1>4. /\ \A k \in 1 .. Cardinality(S) : \E i \in S : place[i] = k
      /\ \A i, j \in S : place[i] = place[j] => i = j
      /\ \A i \in S : place[i] \in 1 .. Cardinality(S)
  <2> HIDE DEF S, place
  <2> QED BY <1>2 DEF Bijection, Injection, Surjection, IsInjective
<1> HIDE DEF place, S
<1>5. \A k \in 1 .. Cardinality(S) : at[k] \in S /\ place[at[k]] = k
  BY <1>4
<1>6. \A i \in S : at[place[i]] = i
  BY <1>4, <1>5
<1>7. \A k \in 1 .. Cardinality(S) : N[k] = events[at[k]].msg
  OBVIOUS
<1>8. N \in Seq(Nat) /\ Len(N) = Cardinality(S)
  <2>1. \A k \in 1 .. Cardinality(S) : N[k] \in Nat
    BY <1>1, <1>5
  <2>2. N \in [1 .. Cardinality(S) -> Nat]
    BY <2>1
  <2> HIDE DEF N
  <2> QED BY <1>1, <2>2
<1> HIDE DEF at, N
<1>9. \A k, l \in 1 .. Len(N) : k <= l => N[k] <= N[l]
  BY <1>2, <1>5, <1>7, <1>8
<1>10. \A k \in 1 .. Len(N) : \E i \in S : N[k] = events[i].msg
  BY <1>5, <1>7, <1>8
<1>11. \A i \in S : \E k \in 1 .. Len(N) : N[k] = events[i].msg
  <2> TAKE i \in S
  <2>1. place[i] \in 1 .. Len(N) /\ at[place[i]] = i
    BY <1>4, <1>6, <1>8
  <2> QED BY <1>7, <1>8, <2>1
<1>12. ASSUME \A i, j \in S : events[i].msg = events[j].msg => i = j,
              NEW k \in 1 .. Len(N), NEW l \in 1 .. Len(N), k < l
       PROVE  N[k] < N[l]
  <2>1. N[k] <= N[l] /\ N[k] \in Nat /\ N[l] \in Nat
    <3>1. k <= l
      BY <1>1, <1>8, <1>12
    <3>2. N[k] <= N[l]
      BY <1>9, <3>1
    <3>3. N[k] \in Nat /\ N[l] \in Nat
      BY <1>1, <1>5, <1>7, <1>8
    <3> QED BY <3>2, <3>3
  <2>2. at[k] # at[l]
    BY <1>5, <1>8, <1>12, <1>1
  <2>3. N[k] # N[l]
    BY <1>5, <1>7, <1>8, <1>12, <2>2
  <2> QED BY <2>1, <2>3
<1>13. (\A i, j \in S : events[i].msg = events[j].msg => i = j) =>
          \A k, l \in 1 .. Len(N) : k < l => N[k] < N[l]
  BY <1>12
<1> QED BY <1>3, <1>8, <1>9, <1>10, <1>11, <1>13 DEF S

-------------------------------------------------------------------------------
(* The walk of AssertNoMissingLogs.                                        *)

\* What the walk carries, and what it does with one number.
Walks == [next : Int, missing : SUBSET Int]

Onto(acc, n) == [next |-> (IF acc.next < n THEN n ELSE acc.next) + 1,
                 missing |-> acc.missing \cup acc.next .. (n - 1)]

\* Scan is a walk w from the first number on, one number after the other.
LEMMA ScanWalks ==
    ASSUME NEW N \in Seq(Nat), N # << >>
    PROVE  \E w \in [0 .. Len(N) -> Walks] :
              /\ w[0] = [next |-> N[1], missing |-> {}]
              /\ \A i \in 1 .. Len(N) : w[i] = Onto(w[i - 1], N[i])
              /\ Scan(N) = w[Len(N)]
<1> DEFINE n == Len(N)
           base == [next |-> N[1], missing |-> {}]
           step == [i \in 1 .. n |-> [acc \in Walks |-> Onto(acc, N[i])]]
           Rec(f) == [s \in SUBSET (DOMAIN N) |->
                        IF s = {} THEN base
                        ELSE Onto(f[s \ {Max(s)}], N[Max(s)])]
           iter == CHOOSE f : f = Rec(f)
<1>1. n \in Nat /\ n # 0 /\ DOMAIN N = 1 .. n /\ \A i \in 1 .. n : N[i] \in Nat
  BY EmptySeq
<1>2. base \in Walks
  <2>1. N[1] \in Int
    BY <1>1
  <2> QED BY <2>1 DEF Walks
<1>3. ASSUME NEW acc \in Walks, NEW i \in 1 .. n PROVE Onto(acc, N[i]) \in Walks
  <2>1. N[i] \in Int /\ acc.next \in Int /\ acc.missing \subseteq Int
    BY <1>1, <1>3 DEF Walks
  <2>2. (IF acc.next < N[i] THEN N[i] ELSE acc.next) + 1 \in Int
    BY <2>1
  <2>3. acc.missing \cup acc.next .. (N[i] - 1) \subseteq Int
    BY <2>1
  <2> QED BY <2>2, <2>3 DEF Onto, Walks
<1>4. step \in [1 .. n -> [Walks -> Walks]]
  BY <1>3
<1>5. PICK f \in [SUBSET (1 .. n) -> Walks] : FoldOf(n, base, step, f)
  <2> HIDE DEF n, base, step
  <2> QED BY <1>1, <1>2, <1>4, FoldExists
<1>6. \A s \in SUBSET (1 .. n) : s # {} => Max(s) \in s
  <2> TAKE s \in SUBSET (1 .. n)
  <2>1. s \in SUBSET (0 .. n)
    BY <1>1
  <2> QED BY <1>1, <2>1, MaxOfBounded
<1>7. f = Rec(f)
  <2>1. ASSUME NEW s \in SUBSET (1 .. n)
        PROVE  f[s] = IF s = {} THEN base ELSE Onto(f[s \ {Max(s)}], N[Max(s)])
    <3>1. CASE s = {}
      BY <1>5, <3>1 DEF FoldOf
    <3>2. CASE s # {}
      <4>1. Max(s) \in 1 .. n /\ f[s \ {Max(s)}] \in Walks
        BY <1>5, <1>6, <3>2
      <4>2. step[Max(s)][f[s \ {Max(s)}]] = Onto(f[s \ {Max(s)}], N[Max(s)])
        BY <4>1
      <4> HIDE DEF step
      <4> QED BY <1>5, <3>2, <4>2 DEF FoldOf
    <3> QED BY <3>1, <3>2
  <2>2. f = [s \in SUBSET (1 .. n) |-> f[s]]
    BY <1>5
  <2> HIDE DEF base
  <2> QED BY <1>1, <2>1, <2>2
<1>8. iter = Rec(iter)
  <2> HIDE DEF Rec
  <2> QED BY <1>7
<1>9. Scan(N) = iter[1 .. n]
  BY <1>1 DEF Scan, FoldLeft, MapThenFoldSet, Onto
<1> HIDE DEF iter
<1>10. \A s \in SUBSET (1 .. n) :
          iter[s] = IF s = {} THEN base ELSE Onto(iter[s \ {Max(s)}], N[Max(s)])
  <2> HIDE DEF base, n
  <2> QED BY <1>1, <1>8
<1> DEFINE w == [i \in 0 .. n |-> iter[1 .. i]]
<1>11. w[0] = base
  <2>1. 1 .. 0 = {} /\ {} \in SUBSET (1 .. n)
    OBVIOUS
  <2>2. w[0] = iter[1 .. 0]
    BY <1>1
  <2> QED BY <1>10, <2>1, <2>2
<1>12. ASSUME NEW i \in 1 .. n PROVE w[i] = Onto(w[i - 1], N[i])
  <2>1. i \in 0 .. n /\ i - 1 \in 0 .. n /\ i \in Nat
    BY <1>1
  <2>2. /\ 1 .. i \in SUBSET (1 .. n) /\ 1 .. i # {}
        /\ Max(1 .. i) = i /\ (1 .. i) \ {i} = 1 .. (i - 1)
    <3> HIDE DEF n
    <3> QED BY <1>1, PartsOfWalk
  <2>6. w[i] = iter[1 .. i] /\ w[i - 1] = iter[1 .. (i - 1)]
    BY <2>1
  <2> HIDE DEF w, base
  <2> QED BY <1>10, <2>2, <2>6
<1>13. w[n] = iter[1 .. n]
  BY <1>1
<1>14. w \in [0 .. n -> Walks]
  <2> DEFINE T == {i \in 0 .. n : w[i] \in Walks}
  <2>1. 0 \in T
    BY <1>1, <1>2, <1>11
  <2>2. \A i \in 1 .. n : i - 1 \in T => i \in T
    <3> TAKE i \in 1 .. n
    <3>1. i \in 0 .. n
      BY <1>1
    <3> HIDE DEF w, n
    <3> QED BY <1>3, <1>12, <3>1
  <2>3. \A i \in 0 .. n : i \in T
    <3> HIDE DEF T, n
    <3> QED BY <1>1, <2>1, <2>2, UpToEnd
  <2>4. \A i \in 0 .. n : w[i] \in Walks
    <3> HIDE DEF w
    <3> QED BY <2>3
  <2> QED BY <2>4
<1> HIDE DEF w, base
<1> QED BY <1>9, <1>11, <1>12, <1>13, <1>14 DEF base

\* What the walk reports lies between two neighbours.
LEMMA WalkBounds ==
    ASSUME NEW N \in Seq(Nat), N # << >>
    PROVE  \A x \in Scan(N).missing :
              x \in Int /\ \E k \in 2 .. Len(N) : N[k - 1] < x /\ x < N[k]
<1>1. Len(N) \in Nat /\ Len(N) # 0 /\ \A i \in 1 .. Len(N) : N[i] \in Nat
  BY EmptySeq
<1>2. PICK w \in [0 .. Len(N) -> Walks] :
         /\ w[0] = [next |-> N[1], missing |-> {}]
         /\ \A i \in 1 .. Len(N) : w[i] = Onto(w[i - 1], N[i])
         /\ Scan(N) = w[Len(N)]
  BY ScanWalks
<1> DEFINE Found(i) == \A x \in w[i].missing :
                          \E k \in 2 .. Len(N) : N[k - 1] < x /\ x < N[k]
           Past(i) == i = 0 \/ w[i].next > N[i]
           T == {i \in Nat : i <= Len(N) => Found(i) /\ Past(i)}
<1>3. 0 \in T
  BY <1>1, <1>2
<1>4. ASSUME NEW i \in T PROVE i + 1 \in T
  <2>1. SUFFICES ASSUME i + 1 <= Len(N) PROVE Found(i + 1) /\ Past(i + 1)
    OBVIOUS
  <2>2. /\ i \in Nat /\ i + 1 \in 1 .. Len(N) /\ (i + 1) - 1 = i /\ i \in 0 .. Len(N)
        /\ i <= Len(N) /\ i + 1 # 0
    BY <1>1, <2>1
  <2>3. Found(i) /\ Past(i)
    BY <2>2
  <2>4. w[i + 1] = Onto(w[i], N[i + 1]) /\ w[i] \in Walks /\ N[i + 1] \in Nat
    BY <1>1, <1>2, <2>2
  <2>5. w[i].next \in Int /\ w[i].missing \subseteq Int
    BY <2>4 DEF Walks
  <2>6. /\ w[i + 1].next = (IF w[i].next < N[i + 1] THEN N[i + 1] ELSE w[i].next) + 1
        /\ w[i + 1].missing = w[i].missing \cup w[i].next .. (N[i + 1] - 1)
    BY <2>4 DEF Onto
  <2>7. Past(i + 1)
    BY <2>4, <2>5, <2>6
  <2>8. ASSUME NEW x \in w[i].next .. (N[i + 1] - 1)
        PROVE  \E k \in 2 .. Len(N) : N[k - 1] < x /\ x < N[k]
    <3>1. x \in Int /\ w[i].next <= x /\ x < N[i + 1]
      BY <2>4, <2>5
    <3>2. CASE i = 0
      <4>1. w[i].next = N[1] /\ N[i + 1] = N[1]
        BY <1>2, <3>2
      <4> QED BY <2>4, <3>1, <4>1
    <3>3. CASE i # 0
      <4>1. i \in 1 .. Len(N) /\ i + 1 \in 2 .. Len(N)
        BY <1>1, <2>2, <3>3
      <4>2. N[i] < x
        BY <1>1, <2>3, <2>5, <3>1, <3>3, <4>1
      <4> HIDE DEF Found, Past, T
      <4> QED BY <2>2, <3>1, <4>1, <4>2
    <3> QED BY <3>2, <3>3
  <2>9. Found(i + 1)
    BY <2>3, <2>6, <2>8
  <2> QED BY <2>7, <2>9
<1>5. T = Nat
  <2>1. T \subseteq Nat
    OBVIOUS
  <2> HIDE DEF T
  <2> QED BY <1>3, <1>4, <2>1, NumbersByStep
<1>6. Found(Len(N))
  BY <1>1, <1>5
<1>7. w[Len(N)].missing \subseteq Int
  BY <1>1, <1>2 DEF Walks
<1> QED BY <1>2, <1>6, <1>7

\* Over distinct numbers the walk reports whatever lies between two neighbours.
LEMMA WalkFinds ==
    ASSUME NEW N \in Seq(Nat), N # << >>,
           \A k, l \in 1 .. Len(N) : k < l => N[k] < N[l]
    PROVE  \A k \in 2 .. Len(N) : \A x \in Int :
              N[k - 1] < x /\ x < N[k] => x \in Scan(N).missing
<1>1. Len(N) \in Nat /\ Len(N) # 0 /\ \A i \in 1 .. Len(N) : N[i] \in Nat
  BY EmptySeq
<1>2. PICK w \in [0 .. Len(N) -> Walks] :
         /\ w[0] = [next |-> N[1], missing |-> {}]
         /\ \A i \in 1 .. Len(N) : w[i] = Onto(w[i - 1], N[i])
         /\ Scan(N) = w[Len(N)]
  BY ScanWalks
<1> DEFINE Has(i) == \A k \in 2 .. i : \A x \in Int :
                        N[k - 1] < x /\ x < N[k] => x \in w[i].missing
           Next(i) == i = 0 \/ w[i].next = N[i] + 1
           T == {i \in Nat : i <= Len(N) => Has(i) /\ Next(i)}
<1>3. 0 \in T
  BY <1>1, <1>2
<1>4. ASSUME NEW i \in T PROVE i + 1 \in T
  <2>1. SUFFICES ASSUME i + 1 <= Len(N) PROVE Has(i + 1) /\ Next(i + 1)
    OBVIOUS
  <2>2. /\ i \in Nat /\ i + 1 \in 1 .. Len(N) /\ (i + 1) - 1 = i /\ i \in 0 .. Len(N)
        /\ i <= Len(N) /\ i + 1 # 0
    BY <1>1, <2>1
  <2>3. Has(i) /\ Next(i)
    BY <2>2
  <2>4. w[i + 1] = Onto(w[i], N[i + 1]) /\ w[i] \in Walks /\ N[i + 1] \in Nat
    BY <1>1, <1>2, <2>2
  <2>5. w[i].next \in Int /\ w[i].missing \subseteq Int
    BY <2>4 DEF Walks
  <2>6. /\ w[i + 1].next = (IF w[i].next < N[i + 1] THEN N[i + 1] ELSE w[i].next) + 1
        /\ w[i + 1].missing = w[i].missing \cup w[i].next .. (N[i + 1] - 1)
    BY <2>4 DEF Onto
  <2>7. w[i].next <= N[i + 1] /\ (i # 0 => w[i].next = N[i] + 1)
    <3>1. CASE i = 0
      BY <1>1, <1>2, <3>1
    <3>2. CASE i # 0
      <4>1. i \in 1 .. Len(N) /\ i < i + 1
        BY <1>1, <2>2, <3>2
      <4>2. N[i] < N[i + 1] /\ N[i] \in Nat
        BY <1>1, <2>2, <4>1
      <4> QED BY <2>3, <2>4, <3>2, <4>2
    <3> QED BY <3>1, <3>2
  <2>8. Next(i + 1)
    BY <2>4, <2>5, <2>6, <2>7
  <2>9. ASSUME NEW k \in 2 .. (i + 1), NEW x \in Int, N[k - 1] < x, x < N[k]
        PROVE  x \in w[i + 1].missing
    <3>1. CASE k = i + 1
      <4>1. i # 0 /\ k - 1 = i /\ N[k] = N[i + 1] /\ i \in 1 .. Len(N)
        BY <1>1, <2>2, <2>9, <3>1
      <4>2. N[i] < x /\ x < N[i + 1] /\ N[i] \in Nat /\ w[i].next = N[i] + 1
        BY <1>1, <2>7, <2>9, <4>1
      <4>3. x \in w[i].next .. (N[i + 1] - 1)
        BY <2>4, <2>9, <4>2
      <4> QED BY <2>6, <4>3
    <3>2. CASE k # i + 1
      <4>1. k \in 2 .. i
        BY <2>2, <2>9, <3>2
      <4>2. x \in w[i].missing
        BY <2>3, <2>9, <4>1
      <4> QED BY <2>6, <4>2
    <3> QED BY <3>1, <3>2
  <2> QED BY <2>8, <2>9
<1>5. T = Nat
  <2>1. T \subseteq Nat
    OBVIOUS
  <2> HIDE DEF T
  <2> QED BY <1>3, <1>4, <2>1, NumbersByStep
<1>6. Has(Len(N))
  BY <1>1, <1>5
<1> QED BY <1>2, <1>6

\* A number that is missing between two others is between two neighbours.
LEMMA Neighbours ==
    ASSUME NEW N \in Seq(Nat), NEW x \in Int,
           NEW a \in 1 .. Len(N), NEW b \in 1 .. Len(N), N[a] < x, x < N[b],
           \A k \in 1 .. Len(N) : N[k] # x,
           \A k, l \in 1 .. Len(N) : k <= l => N[k] <= N[l]
    PROVE  \E k \in 2 .. Len(N) : N[k - 1] < x /\ x < N[k]
<1>1. Len(N) \in Nat /\ \A i \in 1 .. Len(N) : N[i] \in Nat
  OBVIOUS
<1> DEFINE T == {k \in 1 .. Len(N) : x < N[k]}
<1>2. b \in T /\ T \subseteq Nat
  BY <1>1
<1>3. PICK k \in T : \A l \in T : k <= l
  <2> HIDE DEF T
  <2> QED BY <1>2, LeastNumber
<1>4. k \in 1 .. Len(N) /\ x < N[k]
  OBVIOUS
<1>5. k # 1
  <2> SUFFICES ASSUME k = 1 PROVE FALSE
    OBVIOUS
  <2>1. N[k] <= N[a]
    BY <1>1, <1>4
  <2> QED BY <1>1, <1>4, <2>1
<1>6. k - 1 \in 1 .. Len(N) /\ k \in 2 .. Len(N) /\ ~(k <= k - 1)
  BY <1>1, <1>4, <1>5
<1>7. k - 1 \notin T
  <2> HIDE DEF T
  <2> QED BY <1>3, <1>6
<1>8. ~(x < N[k - 1]) /\ N[k - 1] # x /\ N[k - 1] \in Nat
  BY <1>1, <1>6, <1>7
<1>9. N[k - 1] < x
  BY <1>8
<1> QED BY <1>4, <1>6, <1>9

\* As many distinct numbers as there are between the first and the last of them
\* are all of those.
LEMMA Contiguous ==
    ASSUME NEW N \in Seq(Nat), N # << >>,
           \A k, l \in 1 .. Len(N) : k < l => N[k] < N[l],
           Len(N) = N[Len(N)] - N[1] + 1
    PROVE  \A x \in N[1] .. N[Len(N)] : \E k \in 1 .. Len(N) : N[k] = x
<1> DEFINE n == Len(N)
           first == N[1]
           last == N[Len(N)]
<1>1. n \in Nat /\ n # 0 /\ \A i \in 1 .. n : N[i] \in Nat
  BY EmptySeq
<1>2. first \in Nat /\ last \in Nat /\ n = last - first + 1
  BY <1>1
<1>3. ASSUME NEW i \in 1 .. n PROVE N[i] \in first .. last
  <2>1. i = 1 \/ 1 < i
    BY <1>1
  <2>2. i = n \/ i < n
    BY <1>1
  <2>3. 1 \in 1 .. n /\ n \in 1 .. n /\ N[i] \in Nat
    BY <1>1
  <2>4. first <= N[i]
    <3>1. 1 < i => N[1] < N[i]
      BY <2>3
    <3> QED BY <1>2, <2>1, <2>3, <3>1
  <2>5. N[i] <= last
    <3>1. i < n => N[i] < N[n]
      BY <2>3
    <3> QED BY <1>2, <2>2, <2>3, <3>1
  <2> QED BY <1>2, <2>3, <2>4, <2>5
<1>4. N \in [1 .. n -> first .. last]
  <2>1. N = [i \in 1 .. n |-> N[i]]
    OBVIOUS
  <2> HIDE DEF n, first, last
  <2> QED BY <1>3, <2>1
<1>5. \A i, j \in 1 .. n : N[i] = N[j] => i = j
  BY <1>1
<1> HIDE DEF n, first, last
<1>6. N \in Injection(1 .. n, first .. last)
  BY <1>4, <1>5 DEF Injection, IsInjective
<1>7. /\ IsFiniteSet(first .. last) /\ Cardinality(first .. last) = n
      /\ Cardinality(1 .. n) = n
  <2>1. /\ ~(first > last) /\ last - first + 1 = n /\ ~(1 > n) /\ n - 1 + 1 = n
        /\ n \in Int /\ first \in Int /\ last \in Int /\ 1 \in Int
    BY <1>1, <1>2
  <2>2. IsFiniteSet(first .. last) /\ Cardinality(first .. last) = last - first + 1
    BY <2>1, FS_Interval
  <2>3. Cardinality(1 .. n) = n - 1 + 1
    BY <2>1, FS_Interval
  <2> QED BY <2>1, <2>2, <2>3
<1>8. N \in Surjection(1 .. n, first .. last)
  BY <1>6, <1>7, FS_Injection
<1> QED BY <1>8 DEF Surjection, n, first, last

-------------------------------------------------------------------------------
(* What AssertNoMissingLogs says of a stream.                              *)

\* The numbers that are in a stream, and the gaps between them.
NumbersIn(events) == {events[i].msg : i \in DOMAIN events} \ {Unnumbered}

GapsIn(events) ==
    {x \in Nat : x \notin NumbersIn(events)
                 /\ \E a, b \in NumbersIn(events) : a < x /\ x < b}

\* No two events have the same number.
Distinct(events) ==
    \A i, j \in Numbered(events) : events[i].msg = events[j].msg => i = j

LEMMA NumbersInSorted ==
    ASSUME NEW events \in Streams
    PROVE  /\ \A x : x \in NumbersIn(events) <=>
                     \E k \in 1 .. Len(NumbersOf(events)) : NumbersOf(events)[k] = x
           /\ NumbersOf(events) = << >> <=> NumbersIn(events) = {}
           /\ NumbersIn(events) \subseteq Nat
<1>1. \A x : x \in NumbersIn(events) <=> \E i \in Numbered(events) : events[i].msg = x
  BY DEF NumbersIn, Numbered
<1>2. \A x : x \in NumbersIn(events) <=>
             \E k \in 1 .. Len(NumbersOf(events)) : NumbersOf(events)[k] = x
  <2>1. /\ \A k \in 1 .. Len(NumbersOf(events)) :
              \E i \in Numbered(events) : NumbersOf(events)[k] = events[i].msg
        /\ \A i \in Numbered(events) :
              \E k \in 1 .. Len(NumbersOf(events)) : NumbersOf(events)[k] = events[i].msg
    BY NumbersSorted
  <2> QED BY <1>1, <2>1, Zenon
<1>3. NumbersOf(events) \in Seq(Nat)
  BY NumbersSorted
<1>4. NumbersOf(events) = << >> => NumbersIn(events) = {}
  <2>1. NumbersOf(events) = << >> => Len(NumbersOf(events)) = 0
    BY EmptySeq
  <2> QED BY <1>2, <2>1
<1>5. NumbersOf(events) # << >> => NumbersIn(events) # {}
  <2>1. NumbersOf(events) # << >> => 1 \in 1 .. Len(NumbersOf(events))
    BY <1>3, EmptySeq
  <2> QED BY <1>2, <2>1
<1>6. NumbersIn(events) \subseteq Nat
  BY <1>1, NumberedTypes
<1> QED BY <1>2, <1>4, <1>5, <1>6

\* Whatever the walk collects is a gap.
LEMMA MissingAreGaps ==
    ASSUME NEW events \in Streams, NumbersOf(events) # << >>
    PROVE  Missing(events) \subseteq GapsIn(events)
<1> DEFINE N == NumbersOf(events)
<1>1. /\ N \in Seq(Nat) /\ N # << >>
      /\ \A k, l \in 1 .. Len(N) : k <= l => N[k] <= N[l]
  BY NumbersSorted
<1>2. \A x : x \in NumbersIn(events) <=> \E k \in 1 .. Len(N) : N[k] = x
  BY NumbersInSorted
<1> HIDE DEF N
<1>3. Len(N) \in Nat /\ \A k \in 1 .. Len(N) : N[k] \in Nat
  BY <1>1
<1>4. ASSUME NEW x \in Scan(N).missing PROVE x \in GapsIn(events)
  <2>1. PICK k \in 2 .. Len(N) : N[k - 1] < x /\ x < N[k]
    BY <1>1, WalkBounds
  <2>2. x \in Int
    BY <1>1, WalkBounds
  <2>3. k - 1 \in 1 .. Len(N) /\ k \in 1 .. Len(N) /\ k \in Nat
    BY <1>3
  <2>4. N[k - 1] \in Nat /\ N[k] \in Nat
    BY <1>3, <2>3
  <2>5. x \in Nat
    BY <2>1, <2>2, <2>4
  <2>6. ASSUME NEW l \in 1 .. Len(N), N[l] = x PROVE FALSE
    <3>1. l \in Nat /\ (l <= k - 1 \/ k <= l)
      BY <1>3, <2>3
    <3>2. N[l] <= N[k - 1] \/ N[k] <= N[l]
      BY <1>1, <2>3, <2>6, <3>1
    <3> QED BY <2>1, <2>4, <2>5, <2>6, <3>2
  <2>7. N[k - 1] \in NumbersIn(events) /\ N[k] \in NumbersIn(events)
    BY <1>2, <2>3
  <2>8. x \notin NumbersIn(events)
    BY <1>2, <2>6
  <2> QED BY <2>1, <2>5, <2>7, <2>8 DEF GapsIn
<1> QED BY <1>4 DEF Missing, N

\* If no number is repeated it collects every gap.
LEMMA GapsAreMissing ==
    ASSUME NEW events \in Streams, NumbersOf(events) # << >>, Distinct(events)
    PROVE  GapsIn(events) \subseteq Missing(events)
<1> DEFINE N == NumbersOf(events)
<1>1. /\ N \in Seq(Nat) /\ N # << >>
      /\ \A k, l \in 1 .. Len(N) : k <= l => N[k] <= N[l]
      /\ \A k, l \in 1 .. Len(N) : k < l => N[k] < N[l]
  BY NumbersSorted DEF Distinct
<1>2. \A x : x \in NumbersIn(events) <=> \E k \in 1 .. Len(N) : N[k] = x
  BY NumbersInSorted
<1> HIDE DEF N
<1>3. ASSUME NEW x \in GapsIn(events) PROVE x \in Scan(N).missing
  <2>1. x \in Nat /\ x \notin NumbersIn(events)
    BY DEF GapsIn
  <2>2. PICK a \in NumbersIn(events), b \in NumbersIn(events) : a < x /\ x < b
    BY DEF GapsIn
  <2>3. PICK i \in 1 .. Len(N) : N[i] = a
    BY <1>2
  <2>4. PICK j \in 1 .. Len(N) : N[j] = b
    BY <1>2
  <2>5. \A k \in 1 .. Len(N) : N[k] # x
    BY <1>2, <2>1
  <2>6. x \in Int /\ N[i] < x /\ x < N[j]
    BY <2>1, <2>2, <2>3, <2>4
  <2>7. PICK k \in 2 .. Len(N) : N[k - 1] < x /\ x < N[k]
    BY <1>1, <2>5, <2>6, Neighbours
  <2> QED BY <1>1, <2>6, <2>7, WalkFinds
<1> QED BY <1>3 DEF Missing, N

\* Over distinct numbers the count between the ends agrees only if there is no gap.
LEMMA CountAgrees ==
    ASSUME NEW events \in Streams, NumbersOf(events) # << >>, Distinct(events),
           Len(NumbersOf(events)) =
              NumbersOf(events)[Len(NumbersOf(events))] - NumbersOf(events)[1] + 1
    PROVE  GapsIn(events) = {}
<1> DEFINE N == NumbersOf(events)
<1>1. /\ N \in Seq(Nat) /\ N # << >>
      /\ \A k, l \in 1 .. Len(N) : k <= l => N[k] <= N[l]
      /\ \A k, l \in 1 .. Len(N) : k < l => N[k] < N[l]
      /\ Len(N) = N[Len(N)] - N[1] + 1
  BY NumbersSorted DEF Distinct
<1>2. \A x : x \in NumbersIn(events) <=> \E k \in 1 .. Len(N) : N[k] = x
  BY NumbersInSorted
<1> HIDE DEF N
<1>3. \A x \in N[1] .. N[Len(N)] : \E k \in 1 .. Len(N) : N[k] = x
  BY <1>1, Contiguous
<1>4. Len(N) \in Nat /\ Len(N) # 0 /\ \A k \in 1 .. Len(N) : N[k] \in Nat
  BY <1>1, EmptySeq
<1>5. SUFFICES ASSUME NEW x \in GapsIn(events) PROVE FALSE
  OBVIOUS
<1>6. x \in Nat /\ x \notin NumbersIn(events)
  BY DEF GapsIn
<1>7. PICK a \in NumbersIn(events), b \in NumbersIn(events) : a < x /\ x < b
  BY DEF GapsIn
<1>8. PICK i \in 1 .. Len(N) : N[i] = a
  BY <1>2
<1>9. PICK j \in 1 .. Len(N) : N[j] = b
  BY <1>2
<1>10. 1 \in 1 .. Len(N) /\ Len(N) \in 1 .. Len(N) /\ 1 <= i /\ j <= Len(N)
  BY <1>4
<1>11. N[1] <= a /\ b <= N[Len(N)]
  BY <1>1, <1>8, <1>9, <1>10
<1>12. /\ N[1] \in Nat /\ N[Len(N)] \in Nat /\ a \in Nat /\ b \in Nat
  BY <1>4, <1>8, <1>9, <1>10
<1>13. x \in N[1] .. N[Len(N)]
  BY <1>6, <1>7, <1>11, <1>12
<1> QED BY <1>2, <1>3, <1>6, <1>13

\* An error of AssertNoMissingLogs names gaps, and there are some.
LEMMA ReportedAreGaps ==
    ASSUME NEW events \in Streams, NoMissingLogs(events) = "missing"
    PROVE  Missing(events) \subseteq GapsIn(events) /\ GapsIn(events) # {}
<1>1. NumbersOf(events) # << >> /\ Missing(events) # {}
  BY DEF NoMissingLogs
<1>2. Missing(events) \subseteq GapsIn(events)
  BY <1>1, MissingAreGaps
<1> QED BY <1>1, <1>2

\* Without repeated numbers it fails exactly if there is a gap, and names all.
LEMMA GapsExactly ==
    ASSUME NEW events \in Streams, NumbersIn(events) # {}, Distinct(events)
    PROVE  /\ NoMissingLogs(events) = IF GapsIn(events) = {} THEN "pass" ELSE "missing"
           /\ Missing(events) = GapsIn(events)
<1>1. NumbersOf(events) # << >>
  BY NumbersInSorted
<1>2. Missing(events) = GapsIn(events)
  BY <1>1, MissingAreGaps, GapsAreMissing
<1> DEFINE counts == Len(NumbersOf(events)) =
                        NumbersOf(events)[Len(NumbersOf(events))] - NumbersOf(events)[1] + 1
<1>3. NoMissingLogs(events) = IF ~counts /\ Missing(events) # {} THEN "missing" ELSE "pass"
  BY <1>1 DEF NoMissingLogs
<1>4. counts => GapsIn(events) = {}
  BY <1>1, CountAgrees
<1> HIDE DEF counts
<1> QED BY <1>2, <1>3, <1>4

\* As many numbers as events that have one: no two have the same.
LEMMA DistinctByCount ==
    ASSUME NEW events \in Streams,
           Cardinality(Numbered(events)) = Cardinality(NumbersIn(events))
    PROVE  Distinct(events)
<1> DEFINE S == Numbered(events)
           f == [i \in S |-> events[i].msg]
<1>1. IsFiniteSet(S)
  BY NumberedTypes
<1>2. f \in Surjection(S, NumbersIn(events))
  <2>1. \A x : x \in NumbersIn(events) <=> \E i \in S : events[i].msg = x
    BY DEF NumbersIn, Numbered
  <2> HIDE DEF S
  <2>2. f \in [S -> NumbersIn(events)]
    BY <2>1
  <2>3. \A x \in NumbersIn(events) : \E i \in S : f[i] = x
    BY <2>1
  <2> QED BY <2>2, <2>3 DEF Surjection
<1>3. f \in Injection(S, NumbersIn(events))
  <2> HIDE DEF f
  <2> QED BY <1>1, <1>2, FS_SurjSameCardinalityImpliesInj
<1>4. \A i, j \in S : f[i] = f[j] => i = j
  <2> HIDE DEF f, S
  <2> QED BY <1>3 DEF Injection, IsInjective
<1>5. \A i, j \in S : events[i].msg = events[j].msg => i = j
  BY <1>4
<1> QED BY <1>5 DEF Distinct

================================================================================
