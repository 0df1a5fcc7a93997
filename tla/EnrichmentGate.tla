----------------------------- MODULE EnrichmentGate -----------------------------
(***************************************************************************)
(* The gate the standard OTEL suite waits at before its tests              *)
(* (waitForKSMNodeEnrichment, test/otel/standard/setup_test.go), and the   *)
(* tests that then Get kube_node_info through the session's cache.  The    *)
(* cache is the write-once cache that QueryCache implements: an answer is  *)
(* the series of the moment it was decided at.                             *)
(***************************************************************************)
EXTENDS Integers

CONSTANTS
    Nodes,        \* nodes of the cluster
    Tests,        \* parallel tests that share the cache
    Timeout, Interval,
    NodeInfo,     \* the metric kube_node_info
    NoAnswer, NoCall

GateAssumption ==
    /\ Timeout \in Nat /\ Interval \in Nat \ {0}
    /\ NoCall # NodeInfo

VARIABLES
    series,    \* the kube_node_info series of each node
    gate,      \* where the gate is: polling, or how it ended
    now,       \* time since the gate began
    seen,      \* history: nodes the poll that ended the gate returned
    answer, pending, reply    \* the cache

cacheVars == <<answer, pending, reply>>
gateVars == <<gate, now, seen>>
vars == <<series, gateVars, cacheVars>>

\* No series yet, one without host attributes, one with them.
SeriesStates == {"absent", "cold", "warm"}
Snapshots == [Nodes -> SeriesStates]
NoSeries == [n \in Nodes |-> "absent"]

Cache == INSTANCE WriteOnceCache WITH
    Callers <- Tests, Metrics <- {NodeInfo}, Answers <- Snapshots \ {NoSeries},
    Empty <- NoSeries, Undecided <- NoAnswer

Init ==
    /\ series = NoSeries
    /\ gate = "polling" /\ now = 0 /\ seen = {}
    /\ Cache!Init

-------------------------------------------------------------------------------
(* The cluster and the agent (external).                                   *)

\* Enrichment is monotonic: a series appears cold or warm, and stays warm.
Progress(n) ==
    /\ \/ series[n] = "absent" /\ \E s \in {"cold", "warm"} : series' = [series EXCEPT ![n] = s]
       \/ series[n] = "cold" /\ series' = [series EXCEPT ![n] = "warm"]
    /\ UNCHANGED <<gateVars, cacheVars>>

-------------------------------------------------------------------------------
(* The gate.                                                               *)

Returned == {n \in Nodes : series[n] # "absent"}

\* Slip: one enriched node is enough.
WarmAny == \E n \in Returned : series[n] = "warm"

\* A result, and no series of it without host attributes.
Warm == Returned # {} /\ \A n \in Returned : series[n] = "warm"

\* GetWithFilter, which goes past the cache, may fail; the deadline is looked
\* at only after a poll that was not warm.
Poll ==
    /\ gate = "polling"
    /\ \E err \in BOOLEAN :
          LET warm == ~err /\ Warm
          IN  /\ gate' = IF warm THEN "warm"
                         ELSE IF now > Timeout THEN "timeout" ELSE "asleep"
              /\ seen' = IF warm THEN Returned ELSE seen
    /\ UNCHANGED <<now, series, cacheVars>>

Sleep ==
    /\ gate = "asleep"
    /\ now' = now + Interval
    /\ gate' = "polling"
    /\ UNCHANGED <<seen, series, cacheVars>>

\* Slip: the suite goes on only if the gate was warm.
OpenIfWarm == gate = "warm"

\* On timeout the suite proceeds all the same.
Open == gate \in {"warm", "timeout"}

-------------------------------------------------------------------------------
(* m.Run: the tests start only after the gate, and fetch what is there.    *)

Ask(t) ==
    /\ Open
    /\ Cache!Ask(t, NodeInfo)
    /\ UNCHANGED <<series, gateVars>>

Answer(t) ==
    /\ \/ Cache!Hit(t)
       \/ series # NoSeries /\ Cache!Decide(t, series)
       \/ series = NoSeries /\ Cache!Miss(t)
    /\ UNCHANGED <<series, gateVars>>

Next ==
    \/ Poll \/ Sleep
    \/ \E n \in Nodes : Progress(n)
    \/ \E t \in Tests : Ask(t) \/ Answer(t)

Spec == Init /\ [][Next]_vars

\* The gate's goroutine runs; nothing is asked of the cluster or the tests.
FairSpec == Spec /\ WF_vars(Poll \/ Sleep)

-------------------------------------------------------------------------------
(* Properties                                                              *)

Decided == answer[NodeInfo] # NoAnswer

\* Nothing cold that the gate waited for is cached: a node it saw warm is warm
\* in the one answer every test shares.
SeenNodesStayWarm ==
    Decided /\ gate = "warm" => \A n \in seen : answer[NodeInfo][n] = "warm"

\* The gate opens, enriched or not, at most one interval after its deadline.
GateOpens == <>Open

-------------------------------------------------------------------------------
(* The inductive invariant of SeenNodesStayWarm.                           *)

GateTypeOK ==
    /\ series \in Snapshots /\ seen \subseteq Nodes
    /\ DOMAIN answer = {NodeInfo}
    /\ pending \in [Tests -> {NodeInfo, NoCall}]

\* Before the gate opens nothing is asked for, so nothing is decided.
NothingBefore ==
    ~Open => ~Decided /\ \A t \in Tests : pending[t] = NoCall

\* What the gate has seen warm is.
SeenAreWarm == gate = "warm" => \A n \in seen : series[n] = "warm"

IInv == GateTypeOK /\ NothingBefore /\ SeenAreWarm /\ SeenNodesStayWarm

===============================================================================
