--------------------------- MODULE QueryCacheProofs ---------------------------
(***************************************************************************)
(* Proofs about QueryCache, for every set of callers, metrics and host     *)
(* types and every capacity of the semaphore.                              *)
(***************************************************************************)
EXTENDS QueryCache, FiniteSetTheorems, TLAPS

(* Values an operator of the module returns.                               *)

\* A fetch launches its workers in states of the type.
LEMMA LaunchType ==
    ASSUME NEW m \in Metrics PROVE Launch(m) \in [Targets -> TaskStates]
BY DEF Launch, TaskStates

\* A fetch ends with an entry, and storing an entry keeps the map's type.
LEMMA FetchedType == ASSUME NEW c PROVE Fetched(c) \in Entries
BY DEF Fetched, Entries

LEMMA CachedType ==
    ASSUME NEW map \in [Metrics -> Entries \cup {NoEntry}],
           NEW m \in Metrics, NEW e \in Entries
    PROVE  Cached(map, m, e) \in [Metrics -> Entries \cup {NoEntry}]
BY DEF Cached

LEMMA EmptyType == Empty \in Entries /\ Empty # NoEntry
<1>1. Empty \in Entries
  BY DEF Empty, Entries
<1> QED
  BY <1>1, EntryAssumption

-------------------------------------------------------------------------------
(* Type correctness.                                                       *)

LEMMA TypeInit == Init => TypeOK
BY DEF Init, TypeOK, NoTasks, TaskStates, GetStates, RawStates, FilterStates,
       Callers

LEMMA TypeStep == TypeOK /\ [Next]_vars => TypeOK'
<1> SUFFICES ASSUME TypeOK, [Next]_vars PROVE TypeOK'
  OBVIOUS
<1> USE CacheAssumption DEF TypeOK, TaskStates, GetStates, RawStates, FilterStates, Callers
<1>1. ASSUME NEW c \in Getters, NEW m \in Metrics, GetCall(c, m) PROVE TypeOK'
  BY <1>1 DEF GetCall
<1>2. ASSUME NEW c \in Getters, Hit(c) PROVE TypeOK'
  BY <1>2 DEF Hit
<1>3. ASSUME NEW c \in Getters, Join(c) PROVE TypeOK'
  BY <1>3 DEF Join
<1>4. ASSUME NEW c \in Getters, Upgrade(c) PROVE TypeOK'
  BY <1>4 DEF Upgrade
<1>5. ASSUME NEW c \in Getters, Claim(c) PROVE TypeOK'
  <2>1. Launch(metric[c]) \in [Targets -> TaskStates]
    BY LaunchType
  <2> QED
    BY <1>5, <2>1 DEF Claim, Register
<1>6. ASSUME NEW c \in Getters, Store(c) PROVE TypeOK'
  <2>1. Fetched(c) \in Entries
    BY FetchedType
  <2>2. filtered' \in [Metrics -> Entries \cup {NoEntry}]
    BY <1>6, <2>1, CachedType DEF Store, Publish
  <2>3. NoTasks \in [Targets -> TaskStates]
    BY DEF NoTasks
  <2>4. missed' \subseteq Getters
    BY <1>6 DEF Store, Publish, AskingFor
  <2> QED
    BY <1>6, <2>1, <2>2, <2>3, <2>4 DEF Store, Publish
<1>7. ASSUME NEW c \in Getters, Close(c) PROVE TypeOK'
  BY <1>7 DEF Close, Waiters
<1>8. ASSUME NEW c \in Getters, ReadBack(c) PROVE TypeOK'
  BY <1>8, EmptyType DEF ReadBack
<1>9. ASSUME NEW c \in Getters, NEW h \in HostTypes, Acquire(c, h) PROVE TypeOK'
  <2>1. sem' \subseteq Getters \X HostTypes
    BY <1>9 DEF Acquire
  <2>2. task' \in [Callers -> [Targets -> TaskStates]]
    BY <1>9 DEF Acquire, SetTask, Targets
  <2> QED
    BY <1>9, <2>1, <2>2 DEF Acquire
<1>10. ASSUME NEW c \in Getters, NEW h \in HostTypes, GiveUp(c, h) PROVE TypeOK'
  BY <1>10 DEF GiveUp, SetTask, Targets
<1>11. ASSUME NEW c \in Getters, Cancel(c) PROVE TypeOK'
  BY <1>11 DEF Cancel
<1>12. ASSUME NEW c \in RawGetters, NEW m \in Metrics, RawCall(c, m) PROVE TypeOK'
  BY <1>12 DEF RawCall
<1>13. ASSUME NEW c \in RawGetters, RawHit(c) PROVE TypeOK'
  BY <1>13 DEF RawHit
<1>14. ASSUME NEW c \in RawGetters, RawUpgrade(c) PROVE TypeOK'
  BY <1>14 DEF RawUpgrade
<1>15. ASSUME NEW c \in RawGetters, RawQuery(c) PROVE TypeOK'
  BY <1>15 DEF RawQuery, SetTask, Targets
<1>16. ASSUME NEW c \in RawGetters, RawStore(c) PROVE TypeOK'
  <2>1. Fetched(c) \in Entries
    BY FetchedType
  <2>2. unfiltered' \in [Metrics -> Entries \cup {NoEntry}]
    BY <1>16, <2>1, CachedType DEF RawStore
  <2>3. NoTasks \in [Targets -> TaskStates]
    BY DEF NoTasks
  <2> QED
    BY <1>16, <2>2, <2>3 DEF RawStore
<1>17. ASSUME NEW c \in Filterers, NEW m \in Metrics, FilterCall(c, m) PROVE TypeOK'
  <2>1. task' \in [Callers -> [Targets -> TaskStates]]
    BY <1>17 DEF FilterCall, SetTask, Targets
  <2> QED
    BY <1>17, <2>1 DEF FilterCall
<1>18. ASSUME NEW c \in Filterers, FilterReturn(c) PROVE TypeOK'
  <2>1. NoTasks \in [Targets -> TaskStates]
    BY DEF NoTasks
  <2> QED
    BY <1>18, <2>1 DEF FilterReturn
<1>19. ASSUME NEW c \in Callers, NEW t \in Targets, Respond(c, t) PROVE TypeOK'
  BY <1>19 DEF Respond, SetTask
<1>20. CASE UNCHANGED vars
  BY <1>20 DEF vars
<1> QED
  BY <1>1, <1>2, <1>3, <1>4, <1>5, <1>6, <1>7, <1>8, <1>9, <1>10, <1>11, <1>12,
     <1>13, <1>14, <1>15, <1>16, <1>17, <1>18, <1>19, <1>20
  DEF Next, GetStep, RawStep

\* Every variable keeps its type.
THEOREM TypeCorrect == Spec => []TypeOK
BY TypeInit, TypeStep, PTL DEF Spec

-------------------------------------------------------------------------------
(* Single flight, write-once entries and waiters that are woken.           *)

LEMMA InvInit == Init => IInv
<1> SUFFICES ASSUME Init PROVE IInv
  OBVIOUS
<1>1. TypeOK
  BY TypeInit
<1>2. InflightExact /\ FetchOnlyMissing /\ NoOrphanWaiter /\ ReplyCached
  BY CacheAssumption DEF Init, InflightExact, FetchOnlyMissing, NoOrphanWaiter,
     ReplyCached, Callers
<1> QED
  BY <1>1, <1>2 DEF IInv

\* Storing never disturbs an entry of another metric.
LEMMA CachedElsewhere ==
    ASSUME NEW map \in [Metrics -> Entries \cup {NoEntry}],
           NEW m \in Metrics, NEW e \in Entries
    PROVE  /\ \A n \in Metrics \ {m} : Cached(map, m, e)[n] = map[n]
           /\ e # Empty => Cached(map, m, e)[m] = e
           /\ e = Empty => Cached(map, m, e) = map
BY DEF Cached

LEMMA InvStep == IInv /\ [Next]_vars => IInv'
<1> SUFFICES ASSUME IInv, [Next]_vars PROVE IInv'
  OBVIOUS
<1>t. TypeOK'
  BY TypeStep DEF IInv
<1> DEFINE Rest == InflightExact /\ FetchOnlyMissing /\ NoOrphanWaiter /\ ReplyCached
<1> USE CacheAssumption
<1>1. ASSUME NEW c \in Getters, NEW m \in Metrics, GetCall(c, m) PROVE Rest'
  BY <1>1 DEF GetCall, IInv, TypeOK, InflightExact, FetchOnlyMissing,
     NoOrphanWaiter, ReplyCached, Callers
<1>2. ASSUME NEW c \in Getters, Hit(c) PROVE Rest'
  BY <1>2 DEF Hit, Looking, IInv, TypeOK, InflightExact, FetchOnlyMissing,
     NoOrphanWaiter, ReplyCached, Callers
<1>3. ASSUME NEW c \in Getters, Join(c) PROVE Rest'
  BY <1>3 DEF Join, Looking, IInv, TypeOK, InflightExact, FetchOnlyMissing,
     NoOrphanWaiter, ReplyCached, Callers
<1>4. ASSUME NEW c \in Getters, Upgrade(c) PROVE Rest'
  BY <1>4 DEF Upgrade, IInv, TypeOK, InflightExact, FetchOnlyMissing,
     NoOrphanWaiter, ReplyCached, Callers
<1>5. ASSUME NEW c \in Getters, Claim(c) PROVE Rest'
  BY <1>5 DEF Claim, Register, IInv, TypeOK, InflightExact, FetchOnlyMissing,
     NoOrphanWaiter, ReplyCached, Callers
<1>6. ASSUME NEW c \in Getters, Store(c) PROVE Rest'
  <2> DEFINE e == Fetched(c)
  <2>1. e \in Entries
    BY FetchedType
  <2>2. /\ pc[c] = "fetch" /\ pc' = [pc EXCEPT ![c] = "close"]
        /\ inflight' = [inflight EXCEPT ![metric[c]] = NoFetch]
        /\ reply' = [reply EXCEPT ![c] = e]
        /\ filtered' = Cached(filtered, metric[c], e)
        /\ UNCHANGED <<metric, chan>>
    BY <1>6 DEF Store, Publish
  <2>3. /\ \A n \in Metrics \ {metric[c]} : filtered'[n] = filtered[n]
        /\ e # Empty => filtered'[metric[c]] = e
        /\ e = Empty => filtered' = filtered
    <3>1. filtered \in [Metrics -> Entries \cup {NoEntry}] /\ metric[c] \in Metrics
      BY DEF IInv, TypeOK, Callers
    <3> QED
      BY <2>1, <2>2, <3>1, CachedElsewhere
  <2>4. inflight[metric[c]] = c /\ filtered[metric[c]] = NoEntry
    BY <2>2 DEF IInv, TypeOK, InflightExact, FetchOnlyMissing, Callers
  <2> HIDE DEF e
  <2>5. InflightExact'
    BY <2>2, <2>4 DEF IInv, TypeOK, InflightExact, Callers
  <2>6. FetchOnlyMissing'
    BY <2>2, <2>3 DEF IInv, TypeOK, FetchOnlyMissing, Callers
  <2>7. NoOrphanWaiter'
    BY <2>2 DEF IInv, TypeOK, NoOrphanWaiter, Callers
  <2>8. ReplyCached'
    BY <2>1, <2>2, <2>3, <2>4, EmptyType DEF IInv, TypeOK, ReplyCached, Callers
  <2> QED
    BY <2>5, <2>6, <2>7, <2>8
<1>7. ASSUME NEW c \in Getters, Close(c) PROVE Rest'
  BY <1>7 DEF Close, Waiters, IInv, TypeOK, InflightExact, FetchOnlyMissing,
     NoOrphanWaiter, ReplyCached, Callers
<1>8. ASSUME NEW c \in Getters, ReadBack(c) PROVE Rest'
  BY <1>8, EmptyType DEF ReadBack, IInv, TypeOK, InflightExact, FetchOnlyMissing,
     NoOrphanWaiter, ReplyCached, Callers
<1>9. ASSUME UNCHANGED <<filtered, inflight, pc, metric, chan, reply>> PROVE Rest'
  BY <1>9 DEF IInv, InflightExact, FetchOnlyMissing, NoOrphanWaiter, ReplyCached
<1>10. ASSUME NEW c \in RawGetters \cup Filterers,
              UNCHANGED <<filtered, inflight, chan, reply>>,
              \A d \in Getters : pc'[d] = pc[d] /\ metric'[d] = metric[d]
       PROVE  Rest'
  BY <1>10 DEF IInv, InflightExact, FetchOnlyMissing, NoOrphanWaiter, ReplyCached
<1>11. ASSUME NEW c \in RawGetters,
              RawStep(c) \/ \E m \in Metrics : RawCall(c, m)
       PROVE  Rest'
  BY <1>10, <1>11 DEF RawStep, RawHit, RawUpgrade, RawQuery, RawStore, RawCall,
     IInv, TypeOK, Callers
<1>12. ASSUME NEW c \in Filterers,
              FilterReturn(c) \/ \E m \in Metrics : FilterCall(c, m)
       PROVE  Rest'
  BY <1>10, <1>12 DEF FilterReturn, FilterCall, IInv, TypeOK, Callers
<1>13. ASSUME NEW c \in Getters,
              Cancel(c) \/ \E h \in HostTypes : Acquire(c, h) \/ GiveUp(c, h)
       PROVE  Rest'
  BY <1>9, <1>13 DEF Cancel, Acquire, GiveUp
<1>14. ASSUME NEW c \in Callers, NEW t \in Targets, Respond(c, t) PROVE Rest'
  BY <1>9, <1>14 DEF Respond
<1>15. ASSUME UNCHANGED vars PROVE Rest'
  BY <1>9, <1>15 DEF vars
<1> HIDE DEF Rest
<1>16. Rest'
  BY <1>1, <1>2, <1>3, <1>4, <1>5, <1>6, <1>7, <1>8, <1>11, <1>12, <1>13,
     <1>14, <1>15 DEF Next, GetStep
<1> QED
  BY <1>t, <1>16 DEF IInv, Rest

\* The inductive invariant holds in every reachable state.
THEOREM Invariance == Spec => []IInv
BY InvInit, InvStep, PTL DEF Spec

\* Concurrent requests for one metric are deduplicated, however many tests
\* ask (Get).
THEOREM SingleFlightHolds == Spec => []SingleFlight
<1>1. IInv => SingleFlight
  BY DEF IInv, TypeOK, InflightExact, SingleFlight, Callers
<1> QED
  BY Invariance, <1>1, PTL

\* No waiter is left on a channel that nobody is going to close (Get).
THEOREM NoOrphanWaiterHolds == Spec => []NoOrphanWaiter
<1>1. IInv => NoOrphanWaiter
  BY DEF IInv
<1> QED
  BY Invariance, <1>1, PTL

\* Two calls of Get for one metric that both get something get the same.
THEOREM AnswersAgreeHolds == Spec => []AnswersAgree
<1>1. IInv => AnswersAgree
  BY DEF IInv, ReplyCached, AnswersAgree
<1> QED
  BY Invariance, <1>1, PTL

-------------------------------------------------------------------------------
(* What a step does to the cache.                                          *)

LEMMA OnlyStoreCaches ==
    [Next]_vars => UNCHANGED filtered \/ \E c \in Getters : Store(c)
BY DEF Next, GetStep, RawStep, GetCall, Hit, Join, Upgrade, Claim, Register, Close,
   ReadBack, Acquire, GiveUp, Cancel, RawCall, RawHit, RawUpgrade, RawQuery,
   RawStore, FilterCall, FilterReturn, Respond, vars

\* Once cached, the answer to Get never changes (the store at the end of Get).
THEOREM FilteredStableHolds == Spec => FilteredStable
<1>1. ASSUME IInv, [Next]_vars
      PROVE  \A m \in Metrics : filtered[m] # NoEntry => filtered'[m] = filtered[m]
  <2>1. ASSUME NEW c \in Getters, Store(c), NEW m \in Metrics, filtered[m] # NoEntry
        PROVE  filtered'[m] = filtered[m]
    <3>1. m # metric[c]
      BY <1>1, <2>1, CacheAssumption DEF Store, Publish, IInv, TypeOK,
         InflightExact, FetchOnlyMissing, Callers
    <3>2. Fetched(c) \in Entries /\ metric[c] \in Metrics
      BY <1>1, FetchedType DEF IInv, TypeOK, Callers
    <3>3. filtered' = Cached(filtered, metric[c], Fetched(c))
      BY <2>1 DEF Store, Publish
    <3>4. filtered \in [Metrics -> Entries \cup {NoEntry}]
      BY <1>1 DEF IInv, TypeOK
    <3> QED
      BY <3>1, <3>2, <3>3, <3>4, CachedElsewhere
  <2> QED
    BY <1>1, <2>1, OnlyStoreCaches
<1> QED
  BY Invariance, <1>1, PTL DEF Spec, FilteredStable

-------------------------------------------------------------------------------
(* Get implements the write-once cache: the safety part of the refinement. *)

LEMMA RefinesInit == Init => WriteOnce!Init
BY CacheAssumption DEF Init, WriteOnce!Init, InGet, Callers

LEMMA RefinesStep == IInv /\ IInv' /\ [Next]_vars => [WriteOnce!Next]_(WriteOnce!vars)
<1> SUFFICES ASSUME IInv, IInv', [Next]_vars
             PROVE  [WriteOnce!Next]_(WriteOnce!vars)
  OBVIOUS
<1> DEFINE pending == [c \in Getters |-> IF pc[c] \in InGet THEN metric[c] ELSE NoFetch]
<1> USE CacheAssumption
<1>t. /\ TypeOK /\ TypeOK'
      /\ Getters \subseteq Callers
      /\ \A c \in Getters : pc[c] \in InGet => pending[c] \in Metrics /\ pending[c] # NoFetch
  BY DEF IInv, TypeOK, Callers, InGet
<1>1. ASSUME NEW c \in Getters, NEW m \in Metrics, GetCall(c, m) PROVE WriteOnce!Ask(c, m)
  BY <1>1, <1>t DEF GetCall, WriteOnce!Ask, TypeOK, InGet
<1>2. ASSUME NEW c \in Getters, Hit(c) PROVE WriteOnce!Hit(c)
  <2>1. pending' = [pending EXCEPT ![c] = NoFetch]
    BY <1>2, <1>t DEF Hit, TypeOK, InGet
  <2> QED
    BY <1>2, <2>1, <1>t DEF Hit, Looking, WriteOnce!Hit, WriteOnce!Finish, TypeOK, InGet
<1>3. ASSUME NEW c \in Getters, ReadBack(c) PROVE WriteOnce!Hit(c) \/ WriteOnce!Miss(c)
  <2>1. pending' = [pending EXCEPT ![c] = NoFetch]
    BY <1>3, <1>t DEF ReadBack, TypeOK, InGet
  <2> QED
    BY <1>3, <2>1, <1>t DEF ReadBack, WriteOnce!Hit, WriteOnce!Miss,
       WriteOnce!Finish, TypeOK, InGet
<1>4. ASSUME NEW c \in Getters, Store(c)
      PROVE  WriteOnce!Miss(c) \/ \E e \in Answers : WriteOnce!Decide(c, e)
  <2>1. pending' = [pending EXCEPT ![c] = NoFetch]
    BY <1>4, <1>t DEF Store, Publish, TypeOK, InGet
  <2>2. pc[c] = "fetch" /\ reply' = [reply EXCEPT ![c] = Fetched(c)]
    BY <1>4 DEF Store, Publish
  <2>3. pending[c] = metric[c] /\ pending[c] # NoFetch
    BY <2>2, <1>t DEF InGet
  <2>4. filtered[metric[c]] = NoEntry
    BY <2>2, <1>t DEF IInv, TypeOK, InflightExact, FetchOnlyMissing
  <2>5. Fetched(c) \in Entries
    BY FetchedType
  <2>6. CASE Fetched(c) = Empty
    <3>1. filtered' = filtered
      BY <1>4, <2>6 DEF Store, Publish, Cached
    <3> QED
      BY <2>1, <2>2, <2>3, <2>4, <2>6, <3>1 DEF WriteOnce!Miss, WriteOnce!Finish
  <2>7. CASE Fetched(c) # Empty
    <3>1. filtered' = [filtered EXCEPT ![metric[c]] = Fetched(c)]
      BY <1>4, <2>7 DEF Store, Publish, Cached
    <3>2. WriteOnce!Decide(c, Fetched(c))
      BY <2>1, <2>2, <2>3, <2>4, <3>1 DEF WriteOnce!Decide, WriteOnce!Finish
    <3> QED
      BY <3>2, <2>5, <2>7 DEF Answers
  <2> QED
    BY <2>6, <2>7
<1>5. ASSUME UNCHANGED <<filtered, pending, reply>> PROVE UNCHANGED WriteOnce!vars
  BY <1>5 DEF WriteOnce!vars
<1>6. ASSUME NEW c \in Getters, Join(c) \/ Upgrade(c) \/ Claim(c) \/ Close(c)
      PROVE  UNCHANGED WriteOnce!vars
  <2>1. pending' = pending
    BY <1>6, <1>t DEF Join, Upgrade, Claim, Register, Close, Waiters, Looking,
       TypeOK, InGet
  <2> QED
    BY <1>5, <1>6, <2>1 DEF Join, Upgrade, Claim, Register, Close
<1>7. ASSUME NEW c \in RawGetters \cup Filterers,
             UNCHANGED <<filtered, reply>>,
             \A d \in Getters : pc'[d] = pc[d] /\ metric'[d] = metric[d]
      PROVE  UNCHANGED WriteOnce!vars
  <2>1. pending' = pending
    BY <1>7
  <2> QED
    BY <1>5, <1>7, <2>1
<1>8. ASSUME NEW c \in RawGetters,
             RawStep(c) \/ \E m \in Metrics : RawCall(c, m)
      PROVE  UNCHANGED WriteOnce!vars
  BY <1>7, <1>8, <1>t DEF RawStep, RawHit, RawUpgrade, RawQuery, RawStore, RawCall,
     TypeOK, Callers
<1>9. ASSUME NEW c \in Filterers,
             FilterReturn(c) \/ \E m \in Metrics : FilterCall(c, m)
      PROVE  UNCHANGED WriteOnce!vars
  <2>1. UNCHANGED <<filtered, reply>> /\ \A d \in Getters : pc'[d] = pc[d] /\ metric'[d] = metric[d]
    BY <1>9, <1>t DEF FilterReturn, FilterCall, TypeOK, Callers
  <2> QED
    BY <1>7, <2>1
<1>10. ASSUME NEW c \in Getters,
              Cancel(c) \/ \E h \in HostTypes : Acquire(c, h) \/ GiveUp(c, h)
       PROVE  UNCHANGED WriteOnce!vars
  BY <1>5, <1>10 DEF Cancel, Acquire, GiveUp
<1>11. ASSUME NEW c \in Callers, NEW t \in Targets, Respond(c, t)
       PROVE  UNCHANGED WriteOnce!vars
  BY <1>5, <1>11 DEF Respond
<1>12. ASSUME UNCHANGED vars PROVE UNCHANGED WriteOnce!vars
  BY <1>5, <1>12 DEF vars
<1> QED
  BY <1>1, <1>2, <1>3, <1>4, <1>6, <1>8, <1>9, <1>10, <1>11, <1>12
  DEF Next, GetStep, WriteOnce!Next, WriteOnce!Resolve

\* Get behaves as a write-once cache, whatever the locks, channels, workers
\* and other callers do.
THEOREM RefinementHolds ==
    Spec => WriteOnce!Init /\ [][WriteOnce!Next]_(WriteOnce!vars)
BY RefinesInit, RefinesStep, Invariance, PTL DEF Spec

-------------------------------------------------------------------------------
(* The semaphore.                                                          *)

Querying == {w \in Getters \X HostTypes : task[w[1]][w[2]] = "querying"}

\* The slots are finitely many, so that they can be counted.
LEMMA SlotsFinite == TypeOK => IsFiniteSet(sem)
<1> SUFFICES ASSUME TypeOK PROVE IsFiniteSet(sem)
  OBVIOUS
<1>1. IsFiniteSet(Getters) /\ IsFiniteSet(HostTypes)
  BY CacheAssumption, FS_Subset DEF Callers
<1>2. IsFiniteSet(Getters \X HostTypes)
  BY <1>1, FS_Product
<1> QED
  BY <1>2, FS_Subset DEF TypeOK

LEMMA SlotsInit == Init => SlotsInv
<1> SUFFICES ASSUME Init PROVE SlotsInv
  OBVIOUS
<1>1. sem = Querying
  BY DEF Init, NoTasks, Querying, Callers, Targets
<1>2. Cardinality(sem) = 0
  BY FS_EmptySet DEF Init
<1>3. WorkersInFetch
  BY DEF Init, WorkersInFetch, Callers
<1> QED
  BY <1>1, <1>2, <1>3, TypeInit, CacheAssumption
  DEF SlotsInv, SlotsMatchWorkers, Querying

LEMMA SlotsStep == SlotsInv /\ [Next]_vars => SlotsInv'
<1> SUFFICES ASSUME SlotsInv, [Next]_vars PROVE SlotsInv'
  OBVIOUS
<1> DEFINE Slots == WorkersInFetch' /\ sem' = Querying' /\ Cardinality(sem') <= MaxConcurrency
<1> USE CacheAssumption
<1>t. TypeOK /\ TypeOK' /\ sem = Querying /\ Cardinality(sem) <= MaxConcurrency
  BY TypeStep DEF SlotsInv, SlotsMatchWorkers, Querying
<1>w. \A c \in Getters, h \in HostTypes : task[c][h] = "querying" => pc[c] = "fetch"
  BY DEF SlotsInv, WorkersInFetch, NoTasks, Targets
<1>1. ASSUME UNCHANGED sem, WorkersInFetch',
             \A c \in Getters, h \in HostTypes :
                 task'[c][h] = "querying" <=> task[c][h] = "querying"
      PROVE  Slots
  <2>1. sem' = Querying'
    BY <1>1, <1>t DEF Querying
  <2> QED
    BY <1>1, <1>t, <2>1
<1>2. ASSUME NEW c \in Getters,
             \/ \E m \in Metrics : GetCall(c, m)
             \/ Hit(c) \/ Join(c) \/ Upgrade(c) \/ ReadBack(c) \/ Cancel(c)
      PROVE  Slots
  <2>1. UNCHANGED <<sem, task>>
    BY <1>2 DEF GetCall, Hit, Join, Upgrade, ReadBack, Cancel
  <2>2. \A d \in Getters : pc[d] = "fetch" => pc'[d] = "fetch"
    BY <1>2, <1>t DEF GetCall, Hit, Join, Upgrade, ReadBack, Cancel, Looking, TypeOK, Callers
  <2>3. WorkersInFetch'
    BY <2>1, <2>2 DEF SlotsInv, WorkersInFetch
  <2> QED
    BY <1>1, <2>1, <2>3
<1>3. ASSUME NEW c \in Getters, Close(c) PROVE Slots
  <2>1. UNCHANGED <<sem, task>>
    BY <1>3 DEF Close
  <2>2. \A d \in Getters : pc[d] = "fetch" => pc'[d] = "fetch"
    BY <1>3, <1>t DEF Close, Waiters, TypeOK, Callers
  <2>3. WorkersInFetch'
    BY <2>1, <2>2 DEF SlotsInv, WorkersInFetch
  <2> QED
    BY <1>1, <2>1, <2>3
<1>4. ASSUME NEW c \in Getters, Claim(c) PROVE Slots
  <2>1. pc[c] # "fetch" /\ pc' = [pc EXCEPT ![c] = "fetch"] /\ UNCHANGED sem
    BY <1>4 DEF Claim, Register
  <2>2. task' = [task EXCEPT ![c] = Launch(metric[c])]
    BY <1>4 DEF Claim, Register
  <2>3. \A h \in HostTypes : Launch(metric[c])[h] # "querying"
    BY DEF Launch, Targets
  <2>4. WorkersInFetch'
    BY <2>1, <2>2, <1>t DEF SlotsInv, WorkersInFetch, TypeOK, Callers
  <2>5. ASSUME NEW d \in Getters, NEW h \in HostTypes
        PROVE  task'[d][h] = "querying" <=> task[d][h] = "querying"
    BY <2>1, <2>2, <2>3, <1>t, <1>w DEF TypeOK, Callers
  <2> QED
    BY <1>1, <2>1, <2>4, <2>5
<1>5. ASSUME NEW c \in Getters, Store(c) PROVE Slots
  <2>1. /\ UNCHANGED sem /\ task' = [task EXCEPT ![c] = NoTasks]
        /\ pc' = [pc EXCEPT ![c] = "close"]
        /\ \A h \in HostTypes : task[c][h] # "querying"
    BY <1>5 DEF Store, Publish, Finished, Targets
  <2>2. WorkersInFetch'
    BY <2>1, <1>t DEF SlotsInv, WorkersInFetch, TypeOK, Callers
  <2>3. ASSUME NEW d \in Getters, NEW h \in HostTypes
        PROVE  task'[d][h] = "querying" <=> task[d][h] = "querying"
    BY <2>1, <1>t DEF TypeOK, Callers, NoTasks, Targets
  <2> QED
    BY <1>1, <2>1, <2>2, <2>3
<1>6. ASSUME NEW c \in Getters, NEW h \in HostTypes, Acquire(c, h) PROVE Slots
  <2>1. /\ task[c][h] = "queued" /\ Cardinality(sem) < MaxConcurrency
        /\ sem' = sem \cup {<<c, h>>} /\ UNCHANGED pc
        /\ task' = [task EXCEPT ![c][h] = "querying"]
    BY <1>6 DEF Acquire, SetTask
  <2>2. WorkersInFetch'
    BY <2>1, <1>t DEF SlotsInv, WorkersInFetch, TypeOK, Callers, NoTasks, Targets
  <2>3. ASSUME NEW d \in Getters, NEW k \in HostTypes
        PROVE  task'[d][k] = "querying" <=> task[d][k] = "querying" \/ (d = c /\ k = h)
    BY <2>1, <1>t DEF TypeOK, Callers, Targets
  <2>4. sem' = Querying'
    BY <2>1, <2>3, <1>t DEF Querying
  <2>5. IsFiniteSet(sem)
    BY <1>t, SlotsFinite
  <2>6. \A w : Cardinality(sem \cup {w}) = IF w \in sem THEN Cardinality(sem)
                                           ELSE Cardinality(sem) + 1
    BY <2>5, FS_AddElement
  <2>7. Cardinality(sem) \in Nat
    BY <2>5, FS_CardinalityType
  <2>8. Cardinality(sem') = Cardinality(sem) \/ Cardinality(sem') = Cardinality(sem) + 1
    BY <2>1, <2>6
  <2>9. Cardinality(sem') <= MaxConcurrency
    <3>1. MaxConcurrency \in Nat
      OBVIOUS
    <3> QED
      BY <2>1, <2>7, <2>8, <3>1
  <2> QED
    BY <2>2, <2>4, <2>9
<1>7. ASSUME NEW c \in Getters, NEW h \in HostTypes, GiveUp(c, h) PROVE Slots
  <2>1. /\ task[c][h] = "queued" /\ UNCHANGED <<sem, pc>>
        /\ task' = [task EXCEPT ![c][h] = "error"]
    BY <1>7 DEF GiveUp, SetTask
  <2>2. WorkersInFetch'
    BY <2>1, <1>t DEF SlotsInv, WorkersInFetch, TypeOK, Callers, NoTasks, Targets
  <2>3. ASSUME NEW d \in Getters, NEW k \in HostTypes
        PROVE  task'[d][k] = "querying" <=> task[d][k] = "querying"
    BY <2>1, <1>t DEF TypeOK, Callers, Targets
  <2> QED
    BY <1>1, <2>1, <2>2, <2>3
<1>8. ASSUME NEW c \in Callers, NEW t \in Targets, Respond(c, t) PROVE Slots
  <2>1. PICK s \in {"data", "empty", "error"} :
            /\ task[c][t] = "querying" /\ UNCHANGED pc
            /\ sem' = sem \ {<<c, t>>}
            /\ task' = [task EXCEPT ![c][t] = s]
    BY <1>8 DEF Respond, SetTask
  <2>2. WorkersInFetch'
    BY <2>1, <1>t DEF SlotsInv, WorkersInFetch, TypeOK, Callers, NoTasks, Targets
  <2>3. ASSUME NEW d \in Getters, NEW k \in HostTypes
        PROVE  task'[d][k] = "querying" <=> task[d][k] = "querying" /\ ~(d = c /\ k = t)
    BY <2>1, <1>t DEF TypeOK, Callers, Targets
  <2>4. sem' = Querying'
    BY <2>1, <2>3, <1>t DEF Querying
  <2>5. Cardinality(sem') <= Cardinality(sem)
    BY <2>1, <1>t, SlotsFinite, FS_Subset
  <2>6. Cardinality(sem) \in Nat /\ Cardinality(sem') \in Nat
    BY <2>1, <1>t, SlotsFinite, FS_Subset, FS_CardinalityType
  <2> QED
    BY <2>2, <2>4, <2>5, <2>6, <1>t
<1>9. ASSUME UNCHANGED sem,
             \A d \in Getters : pc'[d] = pc[d] /\ task'[d] = task[d]
      PROVE  Slots
  <2>1. WorkersInFetch'
    BY <1>9 DEF SlotsInv, WorkersInFetch
  <2> QED
    BY <1>1, <1>9, <2>1
<1>10. ASSUME NEW c \in RawGetters,
              RawStep(c) \/ \E m \in Metrics : RawCall(c, m)
       PROVE  Slots
  <2>1. UNCHANGED sem /\ \A d \in Getters : pc'[d] = pc[d] /\ task'[d] = task[d]
    BY <1>10, <1>t DEF RawStep, RawHit, RawUpgrade, RawQuery, RawStore, RawCall,
       SetTask, TypeOK, Callers
  <2> QED
    BY <1>9, <2>1
<1>11. ASSUME NEW c \in Filterers,
              FilterReturn(c) \/ \E m \in Metrics : FilterCall(c, m)
       PROVE  Slots
  <2>1. UNCHANGED sem /\ \A d \in Getters : pc'[d] = pc[d] /\ task'[d] = task[d]
    BY <1>11, <1>t DEF FilterReturn, FilterCall, SetTask, TypeOK, Callers
  <2> QED
    BY <1>9, <2>1
<1>12. ASSUME UNCHANGED vars PROVE Slots
  BY <1>9, <1>12 DEF vars
<1> HIDE DEF Slots
<1>13. Slots
  BY <1>2, <1>3, <1>4, <1>5, <1>6, <1>7, <1>8, <1>10, <1>11, <1>12
  DEF Next, GetStep
<1> QED
  BY <1>13, <1>t DEF Slots, SlotsInv, SlotsMatchWorkers, Querying

\* No slot of the semaphore leaks and no more than its capacity are taken
\* (the workers of fetchFiltered).
THEOREM SlotsMatchWorkersHolds == Spec => []SlotsMatchWorkers
<1>1. SlotsInv => SlotsMatchWorkers
  BY DEF SlotsInv
<1> QED
  BY SlotsInit, SlotsStep, <1>1, PTL DEF Spec

-------------------------------------------------------------------------------
(* The nil, nil answer.                                                    *)

LEMMA HonestInit == Init => HonestInv
BY EmptyType DEF Init, HonestInv, WaitersKnow, EmptyIsHonest, Callers

LEMMA HonestStep == IInv /\ HonestInv /\ [Next]_vars => HonestInv'
<1> SUFFICES ASSUME IInv, HonestInv, [Next]_vars PROVE HonestInv'
  OBVIOUS
<1> USE CacheAssumption, EmptyType
<1>t. TypeOK /\ TypeOK' /\ Getters \subseteq Callers
  BY TypeStep DEF IInv, Callers
<1>1. ASSUME NEW c \in Getters, NEW m \in Metrics, GetCall(c, m) PROVE HonestInv'
  BY <1>1, <1>t DEF GetCall, IInv, NoOrphanWaiter, TypeOK, HonestInv, WaitersKnow, EmptyIsHonest
<1>2. ASSUME NEW c \in Getters, Hit(c) PROVE HonestInv'
  BY <1>2, <1>t DEF Hit, Looking, IInv, NoOrphanWaiter, TypeOK, HonestInv, WaitersKnow,
     EmptyIsHonest
<1>3. ASSUME NEW c \in Getters, Join(c) PROVE HonestInv'
  <2>1. pc[inflight[metric[c]]] = "fetch"
    BY <1>3, <1>t DEF Join, Looking, IInv, InflightExact, TypeOK
  <2> QED
    BY <1>3, <1>t, <2>1 DEF Join, Looking, TypeOK, HonestInv, WaitersKnow, EmptyIsHonest
<1>4. ASSUME NEW c \in Getters, Upgrade(c) \/ Claim(c) PROVE HonestInv'
  <2>1. /\ UNCHANGED <<filtered, metric, chan, reply, missed>>
        /\ pc' = [pc EXCEPT ![c] = "claim"] \/ pc' = [pc EXCEPT ![c] = "fetch"]
    BY <1>4 DEF Upgrade, Claim, Register
  <2>2. \A d \in Getters : pc[d] = "wait" => chan[d] \in Getters
    BY DEF IInv, NoOrphanWaiter
  <2>3. \A d \in Getters : pc'[d] \in {"wait", "woken", "close"} => pc'[d] = pc[d]
    BY <1>t, <2>1 DEF TypeOK
  <2> QED
    BY <2>1, <2>2, <2>3 DEF HonestInv, WaitersKnow, EmptyIsHonest
<1>5. ASSUME NEW c \in Getters, Store(c) PROVE HonestInv'
  <2> DEFINE e == Fetched(c)
  <2>1. /\ pc[c] = "fetch" /\ pc' = [pc EXCEPT ![c] = "close"]
        /\ reply' = [reply EXCEPT ![c] = e]
        /\ filtered' = Cached(filtered, metric[c], e)
        /\ missed' = IF e = Empty THEN missed \cup AskingFor(metric[c]) ELSE missed
        /\ UNCHANGED <<metric, chan>>
    BY <1>5 DEF Store, Publish
  <2>2. e \in Entries
    BY FetchedType
  <2>3. /\ \A n \in Metrics \ {metric[c]} : filtered'[n] = filtered[n]
        /\ e # Empty => filtered'[metric[c]] = e
        /\ e = Empty => filtered' = filtered
    <3>1. filtered \in [Metrics -> Entries \cup {NoEntry}] /\ metric[c] \in Metrics
      BY <1>t DEF TypeOK
    <3> HIDE DEF e
    <3> QED
      BY <2>1, <2>2, <3>1, CachedElsewhere
  <2>4. ASSUME NEW d \in Getters, pc[d] \in {"wait", "woken", "fetch"}, metric[d] = metric[c]
        PROVE  filtered'[metric[c]] # NoEntry \/ d \in missed'
    <3>1. CASE e = Empty
      BY <2>1, <2>4, <3>1 DEF AskingFor, GetStates
    <3>2. CASE e # Empty
      BY <2>2, <2>3, <2>4, <3>2, EntryAssumption
    <3> QED
      BY <3>1, <3>2
  <2> HIDE DEF e
  <2>5. \A m \in Metrics : filtered'[m] # Empty
    BY <1>t, <2>1, <2>3 DEF TypeOK, HonestInv, WaitersKnow
  <2>6. ASSUME NEW d \in Getters, filtered[metric[d]] # NoEntry
        PROVE  filtered'[metric[d]] # NoEntry
    BY <1>t, <2>1, <2>2, <2>3, <2>6, EntryAssumption DEF TypeOK
  <2>7. ASSUME NEW d \in Getters,
               pc'[d] = "woken" \/ (pc'[d] = "wait" /\ pc'[chan[d]] = "close")
        PROVE  filtered'[metric[d]] # NoEntry \/ d \in missed'
    <3>1. CASE pc[d] = "woken" \/ (pc[d] = "wait" /\ pc[chan[d]] = "close")
      BY <2>1, <2>6, <3>1 DEF HonestInv, WaitersKnow
    <3>2. CASE pc[d] = "wait" /\ chan[d] = c
      <4>1. metric[d] = metric[c]
        BY <3>2 DEF IInv, NoOrphanWaiter
      <4> QED
        BY <2>4, <3>2, <4>1
    <3> QED
      BY <1>t, <2>1, <2>7, <3>1, <3>2 DEF TypeOK
  <2>8. EmptyIsHonest'
    BY <1>t, <2>1, <2>2 DEF TypeOK, HonestInv, EmptyIsHonest, AskingFor, GetStates
  <2> QED
    BY <2>1, <2>5, <2>7, <2>8 DEF HonestInv, WaitersKnow
<1>6. ASSUME NEW c \in Getters, Close(c) PROVE HonestInv'
  BY <1>6, <1>t DEF Close, Waiters, IInv, NoOrphanWaiter, TypeOK, HonestInv, WaitersKnow,
     EmptyIsHonest
<1>7. ASSUME NEW c \in Getters, ReadBack(c) PROVE HonestInv'
  BY <1>7, <1>t DEF ReadBack, IInv, NoOrphanWaiter, TypeOK, HonestInv, WaitersKnow,
     EmptyIsHonest
<1>8. ASSUME UNCHANGED <<filtered, chan, reply, missed>>,
             \A d \in Getters : pc'[d] = pc[d] /\ metric'[d] = metric[d]
      PROVE  HonestInv'
  BY <1>8, <1>t DEF TypeOK, IInv, NoOrphanWaiter, HonestInv, WaitersKnow, EmptyIsHonest
<1>9. ASSUME NEW c \in RawGetters,
             RawStep(c) \/ \E m \in Metrics : RawCall(c, m)
      PROVE  HonestInv'
  BY <1>8, <1>9, <1>t DEF RawStep, RawHit, RawUpgrade, RawQuery, RawStore, RawCall, TypeOK
<1>10. ASSUME NEW c \in Filterers,
              FilterReturn(c) \/ \E m \in Metrics : FilterCall(c, m)
       PROVE  HonestInv'
  BY <1>8, <1>10, <1>t DEF FilterReturn, FilterCall, TypeOK
<1>11. ASSUME NEW c \in Getters,
              Cancel(c) \/ \E h \in HostTypes : Acquire(c, h) \/ GiveUp(c, h)
       PROVE  HonestInv'
  BY <1>8, <1>11 DEF Cancel, Acquire, GiveUp
<1>12. ASSUME NEW c \in Callers, NEW t \in Targets, Respond(c, t) PROVE HonestInv'
  BY <1>8, <1>12 DEF Respond
<1>13. ASSUME UNCHANGED vars PROVE HonestInv'
  BY <1>8, <1>13 DEF vars
<1> QED
  BY <1>1, <1>2, <1>3, <1>4, <1>5, <1>6, <1>7, <1>9, <1>10, <1>11, <1>12, <1>13
  DEF Next, GetStep

\* A Get that returns nil, nil overlapped a fetch of its metric that found
\* nothing: no test is told "no series" because of a race (Get).
THEOREM EmptyIsHonestHolds == Spec => []EmptyIsHonest
<1>1. HonestInv => EmptyIsHonest
  BY DEF HonestInv
<1> QED
  BY Invariance, HonestInit, HonestStep, <1>1, PTL DEF Spec


===============================================================================
