--------------------------- MODULE ContainerInsights ---------------------------
(***************************************************************************)
(* The checks that the container insights tests make on the performance    *)
(* log of a node (test/metric/container_insights_util.go) through the      *)
(* helpers that count and decode its events (cloudwatchlogs.go).  The      *)
(* events come one by one, in any order.                                   *)
(***************************************************************************)
EXTENDS LogEvents, Integers, FiniteSets

CONSTANTS
    MaxEvents,
    Cores        \* a node has core 0 and the following: 32 of them

CiAssumption == Cores \in Nat \ {0}

VARIABLE events

\* An event is JSON or not and of a type; that of a core has its number and the
\* node's utilization, as a rule, that of a pod only the number.
None == -1
Lines ==
    [json : {FALSE}, type : {""}, core : {None}, util : {None}]
    \cup [json : {TRUE}, type : {"", "NodeAWSNeuron"}, core : {None}, util : {None}]
    \cup [json : {TRUE}, type : {"PodAWSNeuronCore"}, core : 0 .. Cores - 1, util : {None}]
    \cup [json : {TRUE}, type : {"NodeAWSNeuronCore"},
          core : {None} \cup 0 .. Cores - 1, util : {None} \cup 0 .. Cores - 1]

\* eks_resources: how often each type is logged in a minute.
EksClusterFrequencyValidationMap ==
    [t \in {"NodeAWSNeuron", "NodeAWSNeuronCore"} |-> IF t = "NodeAWSNeuron" THEN 1 ELSE Cores]

Empty == [x \in {} |-> 0]

CiInit == events = <<>>

CiNext == Len(events) < MaxEvents /\ \E e \in Lines : events' = Append(events, e)

CiSpec == CiInit /\ [][CiNext]_events

-------------------------------------------------------------------------------
(* The checks.                                                             *)

\* Slip: one variable for the type of all events.
CountTypeKept(kept, e) == IF e.json THEN e.type ELSE kept

\* A line that is not JSON has the empty type.
CountType(kept, e) == IF e.json THEN e.type ELSE ""

\* typeFrequency, without the entry NoLogTypeFound, which is only logged.
GetLogEventCountPerType ==
    FoldLeft(LAMBDA acc, e :
                LET t == CountType(acc.kept, e)
                IN  [kept |-> t,
                     count |-> [u \in DOMAIN acc.count \cup {t} |->
                                  (IF u \in DOMAIN acc.count THEN acc.count[u] ELSE 0)
                                  + IF u = t THEN 1 ELSE 0]],
             [kept |-> "", count |-> Empty], events).count

ValidateLogsFrequency ==
    \A t \in DOMAIN EksClusterFrequencyValidationMap :
        /\ t \in DOMAIN GetLogEventCountPerType
        /\ GetLogEventCountPerType[t] = EksClusterFrequencyValidationMap[t]

\* Slip: whatever the type.
OfAnyCore(e) == e.json

OfCore(e) == e.json /\ e.type = "NodeAWSNeuronCore"

\* All events are decoded into one map: a field that an event lacks is that of
\* the event before.
GetNeuronCoreUtilizationPerCore ==
    FoldLeft(LAMBDA acc, e :
                LET core == IF e.core # None THEN e.core ELSE acc.core
                    util == IF e.util # None THEN e.util ELSE acc.util
                IN  IF ~OfCore(e) THEN acc
                    ELSE [core |-> core, util |-> util,
                          of |-> IF None \in {core, util} THEN acc.of
                                 ELSE [c \in DOMAIN acc.of \cup {core} |->
                                         IF c = core THEN util ELSE acc.of[c]]],
             [core |-> None, util |-> None, of |-> Empty], events).of

\* The test keeps each core as many percent busy as its number says.
ValidateNeuronCoreUtilizationValuesLogs ==
    LET of == GetNeuronCoreUtilizationPerCore
    IN  Cardinality(DOMAIN of) = Cores /\ \A c \in DOMAIN of : of[c] = c

-------------------------------------------------------------------------------
(* Properties                                                              *)

Number(type) == Cardinality({i \in DOMAIN events : events[i].json /\ events[i].type = type})

\* Whatever else is in the stream, and in whatever order, the frequencies are
\* right exactly if each type was logged as often as it should: a line that is
\* not JSON counts for none of them.
FrequencyIsExact ==
    ValidateLogsFrequency <=>
        \A t \in DOMAIN EksClusterFrequencyValidationMap :
            Number(t) = EksClusterFrequencyValidationMap[t]

OfNode == {i \in DOMAIN events : events[i].type = "NodeAWSNeuronCore"}
Partial == \E i \in OfNode : None \in {events[i].core, events[i].util}

LastOf(core) ==
    LET own == {i \in OfNode : events[i].core = core}
    IN  IF own = {} THEN None ELSE events[CHOOSE i \in own : \A j \in own : j <= i].util

\* Each core is judged by its own last event, if all are complete.  With a
\* partial one among them it may be judged by its neighbour's, since the map is
\* shared; but not in a minute whose frequencies are right as well: there each
\* core has said its own once.
CoresAreExact ==
    LET pass == ValidateNeuronCoreUtilizationValuesLogs
        own == \A c \in 0 .. Cores - 1 : LastOf(c) = c
    IN  /\ ~Partial => (pass <=> own)
        /\ pass /\ ValidateLogsFrequency => own /\ ~Partial

===============================================================================
