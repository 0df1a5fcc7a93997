------------------------------ MODULE QueryCache ------------------------------
(***************************************************************************)
(* The session-scoped PromQL cache of util/otelmetrics/query_cache.go,     *)
(* shared by every parallel test of an OTEL suite.  One action is one      *)
(* critical section of qc.mu, one channel operation, or one query of a     *)
(* worker goroutine.                                                       *)
(*                                                                         *)
(* A getter is a goroutine that calls Get again and again; raw getters     *)
(* call GetUnfiltered and filterers GetWithFilter.  The channel of a fetch *)
(* is named by the getter that made it: that getter closes it before its   *)
(* Get returns, so the name is free again when it makes the next one.      *)
(***************************************************************************)
EXTENDS SourceRegistry, FiniteSets, Naturals

CONSTANTS Getters, RawGetters, Filterers,
          MaxConcurrency,   \* capacity of qc.sem
          NoEntry,          \* a map lookup that finds nothing
          NoFetch           \* no channel

Callers == Getters \cup RawGetters \cup Filterers

ASSUME CacheAssumption ==
    /\ MaxConcurrency \in Nat \ {0}
    /\ IsFiniteSet(Callers) /\ IsFiniteSet(HostTypes)
    /\ Getters \cap RawGetters = {} /\ Getters \cap Filterers = {}
    /\ RawGetters \cap Filterers = {}
    /\ NoFetch \notin Getters \cup Metrics

\* A cacheEntry: the selectors that returned series, or an error; never both.
Entries == {e \in [got : SUBSET Targets, err : BOOLEAN] : e.err => e.got = {}}
Empty == [got |-> {}, err |-> FALSE]

ASSUME EntryAssumption == NoEntry \notin Entries

VARIABLES
    filtered,     \* qc.filtered
    unfiltered,   \* qc.unfiltered
    inflight,     \* qc.inflight: the getter whose channel is registered
    sem,          \* qc.sem: the workers that hold a slot
    pc,           \* where each caller is in its call
    metric,       \* metricName of each caller's current or last call
    chan,         \* the channel a waiting getter receives from
    task,         \* each query of each caller's fetch
    reply,        \* what each getter's Get returns
    cancelled,    \* getters whose ctx is done
    missed        \* history: getters whose Get overlapped a fetch of the
                  \* same metric that came back empty

vars == <<filtered, unfiltered, inflight, sem, pc, metric, chan, task, reply,
          cancelled, missed>>

TaskStates == {"none", "queued", "querying", "data", "empty", "error"}
GetStates == {"idle", "read", "claim", "wait", "woken", "fetch", "close"}
RawStates == {"idle", "uread", "uclaim", "ufetch"}
FilterStates == {"idle", "wfetch"}

TypeOK ==
    /\ filtered \in [Metrics -> Entries \cup {NoEntry}]
    /\ unfiltered \in [Metrics -> Entries \cup {NoEntry}]
    /\ inflight \in [Metrics -> Getters \cup {NoFetch}]
    /\ sem \subseteq Getters \X HostTypes
    /\ pc \in [Callers -> GetStates \cup RawStates \cup FilterStates]
    /\ \A c \in Callers : /\ c \in Getters => pc[c] \in GetStates
                          /\ c \in RawGetters => pc[c] \in RawStates
                          /\ c \in Filterers => pc[c] \in FilterStates
    /\ metric \in [Callers -> Metrics]
    /\ chan \in [Getters -> Getters \cup {NoFetch}]
    /\ task \in [Callers -> [Targets -> TaskStates]]
    /\ reply \in [Getters -> Entries \cup {NoEntry}]
    /\ cancelled \subseteq Getters
    /\ missed \subseteq Getters

NoTasks == [t \in Targets |-> "none"]

Init ==
    /\ filtered = [m \in Metrics |-> NoEntry]
    /\ unfiltered = [m \in Metrics |-> NoEntry]
    /\ inflight = [m \in Metrics |-> NoFetch]
    /\ sem = {}
    /\ pc = [c \in Callers |-> "idle"]
    /\ metric \in [Callers -> Metrics]
    /\ chan = [c \in Getters |-> NoFetch]
    /\ task = [c \in Callers |-> NoTasks]
    /\ reply = [c \in Getters |-> NoEntry]
    /\ cancelled = {}
    /\ missed = {}

-------------------------------------------------------------------------------
(* Get: the lookup under RLock ("read"), and again under Lock ("claim").   *)

GetCall(c, m) ==
    /\ pc[c] = "idle"
    /\ pc' = [pc EXCEPT ![c] = "read"]
    /\ metric' = [metric EXCEPT ![c] = m]
    /\ reply' = [reply EXCEPT ![c] = NoEntry]
    /\ cancelled' = cancelled \ {c}
    /\ missed' = missed \ {c}
    /\ UNCHANGED <<filtered, unfiltered, inflight, sem, chan, task>>

Looking(c) == pc[c] \in {"read", "claim"}

\* Cache hit: the entry, error included, is the answer.
Hit(c) ==
    /\ Looking(c)
    /\ filtered[metric[c]] # NoEntry
    /\ reply' = [reply EXCEPT ![c] = filtered[metric[c]]]
    /\ pc' = [pc EXCEPT ![c] = "idle"]
    /\ UNCHANGED <<filtered, unfiltered, inflight, sem, metric, chan, task,
                   cancelled, missed>>

\* Another goroutine is fetching the metric: wait for its channel.
Join(c) ==
    /\ Looking(c)
    /\ filtered[metric[c]] = NoEntry
    /\ inflight[metric[c]] # NoFetch
    /\ chan' = [chan EXCEPT ![c] = inflight[metric[c]]]
    /\ pc' = [pc EXCEPT ![c] = "wait"]
    /\ UNCHANGED <<filtered, unfiltered, inflight, sem, metric, task, reply,
                   cancelled, missed>>

\* Neither: drop the read lock and go for the write lock.
Upgrade(c) ==
    /\ pc[c] = "read"
    /\ filtered[metric[c]] = NoEntry
    /\ inflight[metric[c]] = NoFetch
    /\ pc' = [pc EXCEPT ![c] = "claim"]
    /\ UNCHANGED <<filtered, unfiltered, inflight, sem, metric, chan, task,
                   reply, cancelled, missed>>

\* The goroutines of one fetch, each about to run.
Launch(m) ==
    [t \in Targets |-> IF t \notin QueriesFor(m) THEN "none"
                       ELSE IF t \in HostTypes THEN "queued"
                       ELSE "querying"]

\* Register a channel and start the fetch.
Register(c) ==
    /\ inflight' = [inflight EXCEPT ![metric[c]] = c]
    /\ task' = [task EXCEPT ![c] = Launch(metric[c])]
    /\ pc' = [pc EXCEPT ![c] = "fetch"]
    /\ UNCHANGED <<filtered, unfiltered, sem, metric, chan, reply, cancelled,
                   missed>>

\* Slip: trust the look at inflight that was made under the read lock.
ClaimWithoutInflight(c) ==
    pc[c] = "claim" /\ filtered[metric[c]] = NoEntry /\ Register(c)

\* Slip: trust the look at the cache that was made under the read lock.
ClaimWithoutEntry(c) ==
    pc[c] = "claim" /\ inflight[metric[c]] = NoFetch /\ Register(c)

\* Still neither, under the write lock.
Claim(c) ==
    /\ pc[c] = "claim"
    /\ filtered[metric[c]] = NoEntry
    /\ inflight[metric[c]] = NoFetch
    /\ Register(c)

-------------------------------------------------------------------------------
(* fetchFiltered: one worker per host type, at most MaxConcurrency querying.*)

SetTask(c, t, s) == task' = [task EXCEPT ![c][t] = s]

\* Slip: a worker that does not wait for a slot.
AcquireUnbounded(c, h) ==
    /\ task[c][h] = "queued"
    /\ sem' = sem \cup {<<c, h>>}
    /\ SetTask(c, h, "querying")
    /\ UNCHANGED <<filtered, unfiltered, inflight, pc, metric, chan, reply,
                   cancelled, missed>>

\* qc.sem <- struct{}{}
Acquire(c, h) ==
    /\ task[c][h] = "queued"
    /\ Cardinality(sem) < MaxConcurrency
    /\ sem' = sem \cup {<<c, h>>}
    /\ SetTask(c, h, "querying")
    /\ UNCHANGED <<filtered, unfiltered, inflight, pc, metric, chan, reply,
                   cancelled, missed>>

\* The other arm of the select: ctx is done before a slot was had.
GiveUp(c, h) ==
    /\ task[c][h] = "queued"
    /\ c \in cancelled
    /\ SetTask(c, h, "error")
    /\ UNCHANGED <<filtered, unfiltered, inflight, sem, pc, metric, chan,
                   reply, cancelled, missed>>

\* Slip: the slot is freed on success only.
RespondLeaking(c, t) ==
    /\ task[c][t] = "querying"
    /\ \E s \in {"data", "empty", "error"} :
          /\ SetTask(c, t, s)
          /\ sem' = IF s = "error" THEN sem ELSE sem \ {<<c, t>>}
    /\ UNCHANGED <<filtered, unfiltered, inflight, pc, metric, chan, reply,
                   cancelled, missed>>

\* client.Query returns, the result is sent and a slot, if held, is freed.
\* With its ctx done the query may still come back with series.
Respond(c, t) ==
    /\ task[c][t] = "querying"
    /\ \E s \in {"data", "empty", "error"} : SetTask(c, t, s)
    /\ sem' = sem \ {<<c, t>>}
    /\ UNCHANGED <<filtered, unfiltered, inflight, pc, metric, chan, reply,
                   cancelled, missed>>

Finished(c) == \A t \in Targets : task[c][t] \notin {"queued", "querying"}

\* Slip: the first error is returned beside the series.
FetchedBoth(c) == [got |-> {t \in Targets : task[c][t] = "data"},
                   err |-> \E t \in Targets : task[c][t] = "error"]

\* The entry a fetch ends with: an error counts only if no query had series.
Fetched(c) ==
    LET got == {t \in Targets : task[c][t] = "data"}
    IN  [got |-> got,
         err |-> got = {} /\ \E t \in Targets : task[c][t] = "error"]

\* Slips: every entry is cached; only entries with series are.
CachedAlways(map, m, e) == [map EXCEPT ![m] = e]
CachedIfData(map, m, e) == IF e.got = {} THEN map ELSE [map EXCEPT ![m] = e]

\* Empty successful results are not cached.
Cached(map, m, e) == IF e = Empty THEN map ELSE [map EXCEPT ![m] = e]

-------------------------------------------------------------------------------
(* Get: publish the entry, then wake the waiters.                          *)

AskingFor(m) ==
    {d \in Getters : metric[d] = m /\ pc[d] \in GetStates \ {"idle", "close"}}

Publish(c, next) ==
    /\ pc[c] = "fetch"
    /\ Finished(c)
    /\ filtered' = Cached(filtered, metric[c], Fetched(c))
    /\ inflight' = [inflight EXCEPT ![metric[c]] = NoFetch]
    /\ reply' = [reply EXCEPT ![c] = Fetched(c)]
    /\ task' = [task EXCEPT ![c] = NoTasks]
    /\ pc' = [pc EXCEPT ![c] = next]
    /\ missed' = IF Fetched(c) = Empty THEN missed \cup AskingFor(metric[c])
                 ELSE missed
    /\ UNCHANGED <<unfiltered, sem, metric, chan, cancelled>>

\* Slip: return early with an empty result, the channel still open.
StoreOrReturn(c) == Publish(c, IF Fetched(c) = Empty THEN "idle" ELSE "close")

Store(c) == Publish(c, "close")

Waiters(c) == {d \in Getters : pc[d] = "wait" /\ chan[d] = c}

\* close(ch): every receiver becomes runnable, and Get returns.
Close(c) ==
    /\ pc[c] = "close"
    /\ pc' = [d \in Callers |-> IF d = c THEN "idle"
                                ELSE IF d \in Waiters(c) THEN "woken"
                                ELSE pc[d]]
    /\ chan' = [d \in Getters |-> IF d \in Waiters(c) THEN NoFetch ELSE chan[d]]
    /\ UNCHANGED <<filtered, unfiltered, inflight, sem, metric, task, reply,
                   cancelled, missed>>

\* A waiter looks the metric up again; nothing there is a nil, nil answer.
ReadBack(c) ==
    /\ pc[c] = "woken"
    /\ reply' = [reply EXCEPT ![c] = IF filtered[metric[c]] = NoEntry THEN Empty
                                     ELSE filtered[metric[c]]]
    /\ pc' = [pc EXCEPT ![c] = "idle"]
    /\ UNCHANGED <<filtered, unfiltered, inflight, sem, metric, chan, task,
                   cancelled, missed>>

\* A caller's ctx is cancelled or times out during its call.
Cancel(c) ==
    /\ pc[c] # "idle" /\ c \notin cancelled
    /\ cancelled' = cancelled \cup {c}
    /\ UNCHANGED <<filtered, unfiltered, inflight, sem, pc, metric, chan, task,
                   reply, missed>>

-------------------------------------------------------------------------------
(* GetUnfiltered: the same lookups, but no channel is registered.          *)

RawCall(c, m) ==
    /\ pc[c] = "idle"
    /\ pc' = [pc EXCEPT ![c] = "uread"]
    /\ metric' = [metric EXCEPT ![c] = m]
    /\ UNCHANGED <<filtered, unfiltered, inflight, sem, chan, task, reply,
                   cancelled, missed>>

RawHit(c) ==
    /\ pc[c] \in {"uread", "uclaim"}
    /\ unfiltered[metric[c]] # NoEntry
    /\ pc' = [pc EXCEPT ![c] = "idle"]
    /\ UNCHANGED <<filtered, unfiltered, inflight, sem, metric, chan, task,
                   reply, cancelled, missed>>

RawUpgrade(c) ==
    /\ pc[c] = "uread"
    /\ unfiltered[metric[c]] = NoEntry
    /\ pc' = [pc EXCEPT ![c] = "uclaim"]
    /\ UNCHANGED <<filtered, unfiltered, inflight, sem, metric, chan, task,
                   reply, cancelled, missed>>

RawQuery(c) ==
    /\ pc[c] = "uclaim"
    /\ unfiltered[metric[c]] = NoEntry
    /\ pc' = [pc EXCEPT ![c] = "ufetch"]
    /\ SetTask(c, AnyHost, "querying")
    /\ UNCHANGED <<filtered, unfiltered, inflight, sem, metric, chan, reply,
                   cancelled, missed>>

RawStore(c) ==
    /\ pc[c] = "ufetch"
    /\ Finished(c)
    /\ unfiltered' = Cached(unfiltered, metric[c], Fetched(c))
    /\ task' = [task EXCEPT ![c] = NoTasks]
    /\ pc' = [pc EXCEPT ![c] = "idle"]
    /\ UNCHANGED <<filtered, inflight, sem, metric, chan, reply, cancelled,
                   missed>>

(* GetWithFilter: a query of its own, never cached.                        *)

FilterCall(c, m) ==
    /\ pc[c] = "idle"
    /\ pc' = [pc EXCEPT ![c] = "wfetch"]
    /\ metric' = [metric EXCEPT ![c] = m]
    /\ SetTask(c, AnyHost, "querying")
    /\ UNCHANGED <<filtered, unfiltered, inflight, sem, chan, reply, cancelled,
                   missed>>

FilterReturn(c) ==
    /\ pc[c] = "wfetch"
    /\ Finished(c)
    /\ task' = [task EXCEPT ![c] = NoTasks]
    /\ pc' = [pc EXCEPT ![c] = "idle"]
    /\ UNCHANGED <<filtered, unfiltered, inflight, sem, metric, chan, reply,
                   cancelled, missed>>

-------------------------------------------------------------------------------

GetStep(c) ==
    \/ Hit(c) \/ Join(c) \/ Upgrade(c) \/ Claim(c)
    \/ Store(c) \/ Close(c) \/ ReadBack(c)

RawStep(c) == RawHit(c) \/ RawUpgrade(c) \/ RawQuery(c) \/ RawStore(c)

Next ==
    \/ \E c \in Getters :
          \/ \E m \in Metrics : GetCall(c, m)
          \/ GetStep(c)
          \/ \E h \in HostTypes : Acquire(c, h) \/ GiveUp(c, h)
          \/ Cancel(c)
    \/ \E c \in RawGetters : (\E m \in Metrics : RawCall(c, m)) \/ RawStep(c)
    \/ \E c \in Filterers : (\E m \in Metrics : FilterCall(c, m)) \/ FilterReturn(c)
    \/ \E c \in Callers, t \in Targets : Respond(c, t)

Spec == Init /\ [][Next]_vars

(* Goroutines are scheduled; every query ends, because the HTTP client has *)
(* a timeout and the retries are bounded; a blocked channel send is served *)
(* in FIFO order, so a worker that waits for a slot gets one.  Nobody has  *)
(* to call, and no ctx has to be cancelled.                                *)
Fairness ==
    /\ \A c \in Getters : WF_vars(GetStep(c))
    /\ \A c \in RawGetters : WF_vars(RawStep(c))
    /\ \A c \in Filterers : WF_vars(FilterReturn(c))
    /\ \A c \in Callers, t \in Targets : WF_vars(Respond(c, t))
    /\ \A c \in Getters, h \in HostTypes : SF_vars(Acquire(c, h))

FairSpec == Spec /\ Fairness

-------------------------------------------------------------------------------
(* Properties                                                              *)

\* Concurrent requests for one metric are deduplicated: no two getters are
\* ever fetching the same metric (the inflight map and the second look under
\* the write lock in Get).
SingleFlight ==
    \A c, d \in Getters :
        /\ pc[c] = "fetch" /\ pc[d] = "fetch"
        /\ metric[c] = metric[d]
        => c = d

\* No lost wake-up: a getter that waits on a channel waits on one whose owner
\* is still going to close it, and that owner fetches the metric it wants.
NoOrphanWaiter ==
    \A c \in Getters : pc[c] = "wait" =>
        \E d \in Getters : /\ chan[c] = d
                           /\ pc[d] \in {"fetch", "close"}
                           /\ metric[d] = metric[c]

\* Whenever two tests ask for the same metric, at any time and by whichever
\* path through Get, and both get something, they get the same thing.
AnswersAgree ==
    \A c, d \in Getters :
        /\ metric[c] = metric[d]
        /\ reply[c] \notin {NoEntry, Empty} /\ reply[d] \notin {NoEntry, Empty}
        => reply[c] = reply[d]

\* The nil, nil answer is honest: a Get returns it only if a fetch of the
\* metric came back empty while the call was under way.
EmptyIsHonest ==
    \A c \in Getters : reply[c] = Empty => c \in missed

\* The semaphore never leaks and is never overbooked: the slots held are
\* those of the workers that are querying a host type.
SlotsMatchWorkers ==
    /\ sem = {w \in Getters \X HostTypes : task[w[1]][w[2]] = "querying"}
    /\ Cardinality(sem) <= MaxConcurrency

(* The inductive invariant the proofs of QueryCacheProofs rest on.         *)

\* The inflight map says who is fetching what, and nothing else.
InflightExact ==
    /\ \A c \in Getters : pc[c] = "fetch" => inflight[metric[c]] = c
    /\ \A m \in Metrics, c \in Getters :
          inflight[m] = c => pc[c] = "fetch" /\ metric[c] = m

\* A metric is not fetched once it is cached.
FetchOnlyMissing ==
    \A m \in Metrics : inflight[m] # NoFetch => filtered[m] = NoEntry

\* What a getter returned is what the cache holds from then on.
ReplyCached ==
    \A c \in Getters :
        /\ reply[c] \notin {NoEntry, Empty} => filtered[metric[c]] = reply[c]
        /\ reply[c] # NoEntry => pc[c] \in {"idle", "close"}

\* Workers run inside a fetch only: it ends after the last of them.
WorkersInFetch ==
    \A c \in Getters : pc[c] # "fetch" => task[c] = NoTasks

IInv == TypeOK /\ InflightExact /\ FetchOnlyMissing /\ NoOrphanWaiter /\ ReplyCached

SlotsInv == TypeOK /\ WorkersInFetch /\ SlotsMatchWorkers

\* The empty result is never cached, and a waiter that will not find an entry
\* when it looks again has seen a fetch come back empty.
WaitersKnow ==
    /\ \A m \in Metrics : filtered[m] # Empty
    /\ \A c \in Getters :
          pc[c] = "woken" \/ (pc[c] = "wait" /\ pc[chan[c]] = "close")
          => filtered[metric[c]] # NoEntry \/ c \in missed

HonestInv == WaitersKnow /\ EmptyIsHonest

\* Once cached, the answer to Get never changes, error or not.
FilteredStable ==
    [][\A m \in Metrics : filtered[m] # NoEntry => filtered'[m] = filtered[m]]_vars

\* Every call returns, whatever the other callers do, waiters included.
CallsReturn == \A c \in Callers : pc[c] # "idle" ~> pc[c] = "idle"

\* Get implements the write-once cache: hidden locks, channels and workers.
InGet == {"read", "claim", "wait", "woken", "fetch"}
Answers == Entries \ {Empty}
WriteOnce == INSTANCE WriteOnceCache WITH
    Callers <- Getters, Undecided <- NoEntry, NoCall <- NoFetch,
    answer <- filtered,
    pending <- [c \in Getters |-> IF pc[c] \in InGet THEN metric[c] ELSE NoFetch]
ImplementsWriteOnce == WriteOnce!Spec

(* What comments of the code say and the code does not do.                 *)

\* query_cache.go:33, of the whole type: "Each unique metric name is queried
\* exactly once; subsequent calls return cached data."
UnfilteredStable ==
    [][\A m \in Metrics :
         unfiltered[m] # NoEntry => unfiltered'[m] = unfiltered[m]]_vars

===============================================================================
