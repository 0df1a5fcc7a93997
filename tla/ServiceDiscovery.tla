---------------------------- MODULE ServiceDiscovery ----------------------------
(***************************************************************************)
(* The ECS service discovery suite (test/ecs/service_discovery) over the   *)
(* ECS runner (test/test_runner/ecs_test_runner.go).  Each scenario gives  *)
(* the agent its configuration through a parameter, has the service        *)
(* deployed anew, waits until it is stable, and then looks for the agent's *)
(* events in a log group.  All scenarios use that one group, most of them  *)
(* one stream, and nobody stops the agent of a scenario that is over: only *)
(* the start of the time window keeps its events out of the next verdict.  *)
(*                                                                         *)
(* The service, the agent and CloudWatch Logs are external.                *)
(***************************************************************************)
EXTENDS Naturals, Sequences

CONSTANTS MaxRetries   \* bound: MaxRetryCount, and rounds until a deadline

VARIABLES
    scenario,     \* index in ecsTestRunners
    phase,        \* where ECSTestRunner.Run is
    retries,      \* of the current wait
    parameter,    \* whose configuration the SSM parameter holds
    task,         \* the agent that runs: [of |-> scenario, good |-> BOOLEAN]
    deploying,    \* a deployment is under way
    events,       \* what agents have logged
    found,        \* the log group is there
    result,       \* of the scenario, once there is one
    troubled      \* history: ECS, SSM or Logs failed this scenario or were late

runVars == <<scenario, phase, retries, result>>
sdVars == <<runVars, parameter, task, deploying, events, found, troubled>>

scenarios == <<"dockerLabel", "taskDefinitionList", "serviceNameList", "combined",
               "targetDeduplication", "targetDeduplication2", "invalidJobLabel">>

\* getValidationConfig: the stream, which is the job as well, and the cluster.
Config(i) ==
    LET stream == [targetDeduplication |-> "service-name-list-job",
                   targetDeduplication2 |-> "docker-label-job"]
        name == scenarios[i]
    IN  [LogStreamName |-> IF name \in DOMAIN stream THEN stream[name] ELSE "prometheus-redis",
         ClusterName |-> IF name = "combined" THEN "custom" ELSE "cluster"]

\* Only the first scenario tests the agent as it was deployed.
HasConfigFile(i) == scenarios[i] # "dockerLabel"

Tasks == [of : DOMAIN scenarios, good : BOOLEAN]

\* fresh: its timestamp is in the window of the scenario that runs.
Events == [by : Tasks, fresh : BOOLEAN, shown : BOOLEAN]

SdTypeOK ==
    /\ scenario \in DOMAIN scenarios
    /\ phase \in {"run", "put", "restart", "stabilise", "settle", "find", "read",
                  "delete", "report", "over"}
    /\ retries \in 0 .. MaxRetries
    /\ parameter \in DOMAIN scenarios /\ task \in Tasks /\ deploying \in BOOLEAN
    /\ events \subseteq Events
    /\ found \in BOOLEAN /\ troubled \in BOOLEAN
    /\ result \in {"none", "pass", "mismatch", "no events", "no group", "not started"}

SdInit ==
    /\ scenario = 1 /\ phase = "run" /\ retries = 0 /\ result = "none"
    /\ parameter = 1 /\ deploying = FALSE /\ events = {}
    /\ task \in [of : {1}, good : BOOLEAN]
    /\ found = FALSE /\ troubled = FALSE

-------------------------------------------------------------------------------
(* ECSTestRunner.Run and RunAgentStrategy.                                 *)

Goto(p) == phase' = p /\ retries' = 0 /\ UNCHANGED <<scenario, result>>

\* Slip: the attempt is not counted.
AgainUncounted == UNCHANGED runVars

Again == retries' = retries + 1 /\ UNCHANGED <<scenario, phase, result>>

\* The verdict of Validate, or of Run if the agent did not start.
Decide(r, next) ==
    /\ result' = r /\ phase' = next /\ retries' = 0
    /\ UNCHANGED scenario

\* AddToSuiteResult, and on to the next runner.
AddToSuiteResult ==
    /\ phase = "report"
    /\ result' = "none"
    /\ IF scenario < Len(scenarios)
       THEN scenario' = scenario + 1 /\ phase' = "run"
       ELSE phase' = "over" /\ UNCHANGED scenario
    /\ UNCHANGED <<retries, parameter, task, deploying, events, found, troubled>>

\* time.Now() at the head of ValidateLogGroupFormat: what there is is older.
OpenWindow == events' = {[e EXCEPT !.fresh = FALSE] : e \in events}

\* An empty file name: the agent is not touched.
Run ==
    /\ phase = "run"
    /\ IF HasConfigFile(scenario) THEN Goto("put") ELSE Goto("settle")
    /\ troubled' = FALSE
    /\ UNCHANGED <<parameter, task, deploying, events, found>>

NotStarted == Decide("not started", "report") /\ troubled' = TRUE

\* A call that fails may have taken effect.
PutStringParameter ==
    /\ phase = "put"
    /\ \/ parameter' = scenario /\ Goto("restart") /\ UNCHANGED troubled
       \/ parameter' \in {parameter, scenario} /\ NotStarted
    /\ UNCHANGED <<task, deploying, events, found>>

RestartDaemonService ==
    /\ phase = "restart"
    /\ \/ deploying' = TRUE /\ Goto("stabilise") /\ UNCHANGED troubled
       \/ deploying' \in {deploying, TRUE} /\ NotStarted
    /\ UNCHANGED <<parameter, task, events, found>>

\* One deployment, with all the tasks it should have.
Stable == phase = "stabilise" /\ ~deploying

WaitForServiceStable ==
    /\ \/ Stable /\ Goto("settle") /\ UNCHANGED troubled
       \/ /\ phase = "stabilise" /\ deploying /\ retries < MaxRetries
          /\ Again /\ UNCHANGED troubled
       \/ phase = "stabilise" /\ NotStarted           \* the deadline, or an error
    /\ UNCHANGED <<parameter, task, deploying, events, found>>

-------------------------------------------------------------------------------
(* ValidateLogGroupFormat.                                                 *)

ValidateLogGroupFormat ==
    /\ phase = "settle"
    /\ OpenWindow
    /\ Goto("find")
    /\ UNCHANGED <<parameter, task, deploying, found, troubled>>

\* Phase 1.  An error of the query counts as no group.
FindGroup ==
    /\ phase = "find"
    /\ \/ found /\ Goto("read") /\ UNCHANGED troubled
       \/ retries < MaxRetries /\ Again /\ troubled' = (troubled \/ found)
       \/ /\ retries = MaxRetries
          /\ Decide("no group", "report") /\ UNCHANGED troubled
    /\ UNCHANGED <<parameter, task, deploying, events, found>>

\* Events of the stream that this scenario names.
InStream(e) == Config(e.by.of).LogStreamName = Config(scenario).LogStreamName

\* GetLogsSince(start, end) of this scenario's stream.
Read == {e \in events : e.fresh /\ e.shown /\ InStream(e)}

\* Slip: the schema is not checked.
MatchesConfig(e) == Config(e.by.of) = Config(scenario)

\* The schema, the namespace, the job, the cluster, no empty label.
Matches(e) == e.by.good /\ Config(e.by.of) = Config(scenario)

\* Slip: what there is not yet will not match.
ReadAgainNever == Read = {} /\ Decide("mismatch", "delete") /\ UNCHANGED troubled

\* No events yet, or no stream yet: the deadline is looked at afterwards.
ReadAgain ==
    /\ Read = {}
    /\ \/ retries < MaxRetries /\ Again
       \/ retries = MaxRetries /\ Decide("no events", "delete")
    /\ UNCHANGED troubled

\* Anything else is final, an error of the service included.
ValidateLogsContent ==
    /\ phase = "read"
    /\ \/ /\ Read # {} /\ \A e \in Read : Matches(e)
          /\ Decide("pass", "delete") /\ UNCHANGED troubled
       \/ /\ \E e \in Read : ~Matches(e)
          /\ Decide("mismatch", "delete") /\ UNCHANGED troubled
       \/ Decide("mismatch", "delete") /\ troubled' = TRUE
       \/ ReadAgain
    /\ UNCHANGED <<parameter, task, deploying, events, found>>

\* The stream, and then the group with all its streams; an error is logged.
DeleteLogGroupAndStream ==
    /\ phase = "delete"
    /\ \/ found' = FALSE /\ events' = {e \in events : ~e.shown}
       \/ UNCHANGED found
          /\ events' \in {events, {e \in events : ~(e.shown /\ InStream(e))}}
    /\ phase' = "report"
    /\ UNCHANGED <<scenario, retries, result, parameter, task, deploying, troubled>>

-------------------------------------------------------------------------------
(* ECS, the agent and CloudWatch Logs (external).                          *)

\* A task starts with the configuration the parameter holds by then.  Bound:
\* an event that is in flight shows before the next task but one starts.
Deploy ==
    /\ deploying
    /\ deploying' = FALSE
    /\ task' \in [of : {parameter}, good : BOOLEAN]
    /\ events' = {e \in events : e.by = task}
    /\ UNCHANGED <<runVars, parameter, found, troubled>>

\* An agent logs at any time, after its scenario is over as well.  Bound: one
\* event of a task is in flight at a time.
LogEvent ==
    /\ \A e \in events : e.by = task => e.shown
    /\ events' = events \cup {[by |-> task, fresh |-> TRUE, shown |-> FALSE]}
    /\ UNCHANGED <<runVars, parameter, task, deploying, found, troubled>>

\* It shows later, and makes the group if there is none.
Show ==
    /\ \E e \in events :
          /\ ~e.shown
          /\ events' = (events \ {e}) \cup {[e EXCEPT !.shown = TRUE]}
    /\ found' = TRUE
    /\ UNCHANGED <<runVars, parameter, task, deploying, troubled>>

RunnerStep ==
    \/ Run \/ PutStringParameter \/ RestartDaemonService \/ WaitForServiceStable
    \/ ValidateLogGroupFormat \/ FindGroup \/ ValidateLogsContent
    \/ DeleteLogGroupAndStream \/ AddToSuiteResult

SdNext == RunnerStep \/ Deploy \/ LogEvent \/ Show

SdSpec == SdInit /\ [][SdNext]_sdVars

(* The suite runs on, and all its waits are bounded.  Nothing is asked of  *)
(* ECS, of the agent or of CloudWatch Logs.                                *)
SdFairSpec == SdSpec /\ WF_sdVars(RunnerStep)

-------------------------------------------------------------------------------
(* Properties                                                              *)

\* A scenario passes for an agent that runs its own configuration, and does
\* well with it, although the events of the agents before are in the group and
\* most scenarios expect the same of theirs.
PassIsOwn == result = "pass" => task = [of |-> scenario, good |-> TRUE]

\* No scenario is failed for another's events, nor for events that are late:
\* only a service that fails, or an agent of its own that does badly, makes a
\* mismatch.
MismatchIsOwn ==
    result = "mismatch" => troubled \/ task = [of |-> scenario, good |-> FALSE]

\* The suite ends, whatever the services do.
SuiteEnds == <>(phase = "over")

===============================================================================
