-------------------------------- MODULE Suites --------------------------------
(***************************************************************************)
(* The suites side by side: the generator's matrix gives every job one     *)
(* test directory, and the job runs that suite alone on an instance of its *)
(* own (generator/test_case_generator.go).  The suite is chosen at the     *)
(* start, and the variables of the others stay idle.                       *)
(***************************************************************************)
EXTENDS Naturals, Sequences

CONSTANTS
    Runs, Kinds, MaxPolls, MaxRetries, MaxLeft,     \* as in the modules
    Words, MaxTraces, MaxOld, BatchSize, StandardRetries, MaxRuns

ASSUME SuitesAssumption ==
    /\ {MaxPolls, MaxRetries, MaxTraces, MaxOld} \subseteq Nat
    /\ {Runs, BatchSize, StandardRetries} \subseteq Nat \ {0}
    /\ Kinds \subseteq {"good", "bare", "eager", "lax", "fallback"}    \* as Header knows them

VARIABLES
    suite,                                                      \* the one chosen
    process, current, pc, host, agent, cleanupFns, slipped,     \* TestRunner
    step,                                                       \* its two suites
    kind, run, metrics, passing, late,                          \* AssumeRole
    at, case, polls, awaited, outcome, seen, deferred, verdict, \* SsmDocument
    live, managed, resources, lies, hurt, orphaned,
    scenario, phase, retries, parameter, task, deploying,       \* ServiceDiscovery
    events, found, result,
    troubled,                                                   \* it and the next
    stage, test, processes, stopping, gpu, discovery, errors,   \* WorkloadDiscovery
    unnoticed, crowded,
    flags, SELinux, todo, ran, failed, status,                  \* BenchmarkSuite
    library, harness, sender, fates, old, tally, listed,        \* TraceTest
    segments, apart, unprocessed, fault, judged,
    vpc, rounds, processRun, senders, port, index, agentNs,     \* PrometheusLoad
    groups

runnerVars == <<process, current, pc, host, agent, cleanupFns, slipped, step>>
roleVars == <<kind, run, metrics, passing, late>>
documentVars == <<at, case, polls, awaited, outcome, seen, deferred, verdict,
                  live, managed, resources, lies, hurt, orphaned>>
ecsVars == <<scenario, phase, retries, parameter, task, deploying, events, found, result>>
workloadVars == <<stage, test, processes, stopping, gpu, discovery, errors, unnoticed,
                  crowded>>
benchmarkVars == <<flags, SELinux, todo, ran, failed, status>>
traceVars == <<library, harness, sender, fates, old, tally, listed,
               <<segments, apart, unprocessed>>, fault, judged>>
promVars == <<vpc, rounds, processRun, senders, port, index, agentNs, groups>>

hostVars == <<runnerVars, roleVars, documentVars, ecsVars, workloadVars, troubled>>
loadVars == <<benchmarkVars, traceVars, promVars>>
suiteVars == <<suite, hostVars, loadVars>>

CredentialChain == INSTANCE CredentialChain WITH
    Places <- {"tmp", "testHome", "cwagentHome", "rootHome", "common", "override",
               "systemd", "config", "log"}
AssumeRole == INSTANCE AssumeRole WITH
    Places <- {"account", "arn", "loaded account", "loaded arn", "log", "config", "namespace"}
SsmDocument == INSTANCE SsmDocument
ServiceDiscovery == INSTANCE ServiceDiscovery
WorkloadDiscovery == INSTANCE WorkloadDiscovery
BenchmarkSuite == INSTANCE BenchmarkSuite
TraceTest == INSTANCE TraceTest
PrometheusLoad == INSTANCE PrometheusLoad

-------------------------------------------------------------------------------
idle == "idle"

RunnerIdle ==
    /\ process = idle /\ current = idle /\ pc = idle /\ host = idle /\ agent = idle
    /\ cleanupFns = idle /\ slipped = idle /\ step = idle

RoleIdle == kind = idle /\ run = idle /\ metrics = idle /\ passing = idle /\ late = idle

DocumentIdle ==
    /\ at = idle /\ case = idle /\ polls = idle /\ awaited = idle /\ outcome = idle
    /\ seen = idle /\ deferred = idle /\ verdict = idle /\ live = idle /\ managed = idle
    /\ resources = idle /\ lies = idle /\ hurt = idle /\ orphaned = idle

EcsIdle ==
    /\ scenario = idle /\ phase = idle /\ retries = idle /\ parameter = idle /\ task = idle
    /\ deploying = idle /\ events = idle /\ found = idle /\ result = idle

WorkloadIdle ==
    /\ stage = idle /\ test = idle /\ processes = idle /\ stopping = idle /\ gpu = idle
    /\ discovery = idle /\ errors = idle /\ unnoticed = idle /\ crowded = idle

HostIdle ==
    RunnerIdle /\ RoleIdle /\ DocumentIdle /\ EcsIdle /\ WorkloadIdle /\ troubled = idle

BenchmarkIdle ==
    /\ flags = idle /\ SELinux = idle /\ todo = idle /\ ran = idle /\ failed = idle
    /\ status = idle

TraceIdle ==
    /\ library = idle /\ harness = idle /\ sender = idle /\ fates = idle /\ old = idle
    /\ tally = idle /\ listed = idle /\ segments = idle /\ apart = idle /\ unprocessed = idle
    /\ fault = idle /\ judged = idle

PromIdle ==
    /\ vpc = idle /\ rounds = idle /\ processRun = idle /\ senders = idle /\ port = idle
    /\ index = idle /\ agentNs = idle /\ groups = idle

LoadIdle == BenchmarkIdle /\ TraceIdle /\ PromIdle

Init ==
    \/ /\ suite = "credential_chain" /\ CredentialChain!Init
       /\ RoleIdle /\ DocumentIdle /\ EcsIdle /\ WorkloadIdle /\ troubled = idle /\ LoadIdle
    \/ /\ suite = "assume_role" /\ AssumeRole!ArInit
       /\ DocumentIdle /\ EcsIdle /\ WorkloadIdle /\ troubled = idle /\ LoadIdle
    \/ /\ suite = "ssm_document" /\ SsmDocument!SsmInit
       /\ RunnerIdle /\ RoleIdle /\ EcsIdle /\ WorkloadIdle /\ troubled = idle /\ LoadIdle
    \/ /\ suite = "service_discovery" /\ ServiceDiscovery!SdInit
       /\ RunnerIdle /\ RoleIdle /\ DocumentIdle /\ WorkloadIdle /\ LoadIdle
    \/ /\ suite = "workload_discovery" /\ WorkloadDiscovery!WdInit
       /\ RunnerIdle /\ RoleIdle /\ DocumentIdle /\ EcsIdle /\ LoadIdle
    \/ /\ suite = "benchmark" /\ BenchmarkSuite!BsInit
       /\ HostIdle /\ TraceIdle /\ PromIdle
    \/ /\ suite = "traces" /\ TraceTest!TtInit
       /\ HostIdle /\ BenchmarkIdle /\ PromIdle
    \/ /\ suite = "prometheus" /\ PrometheusLoad!PlInit
       /\ HostIdle /\ BenchmarkIdle /\ TraceIdle

RunCredentialChain ==
    /\ suite = "credential_chain" /\ CredentialChain!Next
    /\ UNCHANGED <<suite, roleVars, documentVars, ecsVars, workloadVars, troubled, loadVars>>

RunAssumeRole ==
    /\ suite = "assume_role" /\ AssumeRole!ArNext
    /\ UNCHANGED <<suite, documentVars, ecsVars, workloadVars, troubled, loadVars>>

RunSsmDocument ==
    /\ suite = "ssm_document" /\ SsmDocument!SsmNext
    /\ UNCHANGED <<suite, runnerVars, roleVars, ecsVars, workloadVars, troubled, loadVars>>

RunServiceDiscovery ==
    /\ suite = "service_discovery" /\ ServiceDiscovery!SdNext
    /\ UNCHANGED <<suite, runnerVars, roleVars, documentVars, workloadVars, loadVars>>

RunWorkloadDiscovery ==
    /\ suite = "workload_discovery" /\ WorkloadDiscovery!WdNext
    /\ UNCHANGED <<suite, runnerVars, roleVars, documentVars, ecsVars, loadVars>>

RunBenchmark ==
    /\ suite = "benchmark" /\ BenchmarkSuite!BsNext
    /\ UNCHANGED <<suite, hostVars, traceVars, promVars>>

RunTraces ==
    /\ suite = "traces" /\ TraceTest!TtNext
    /\ UNCHANGED <<suite, hostVars, benchmarkVars, promVars>>

RunPrometheus ==
    /\ suite = "prometheus" /\ PrometheusLoad!PlNext
    /\ UNCHANGED <<suite, hostVars, benchmarkVars, traceVars>>

Next ==
    \/ RunCredentialChain \/ RunAssumeRole \/ RunSsmDocument
    \/ RunServiceDiscovery \/ RunWorkloadDiscovery
    \/ RunBenchmark \/ RunTraces \/ RunPrometheus

\* Where a suite is claimed to end, its harness runs on: the fairness of
\* SsmFairSpec and of SdFairSpec.
Fairness ==
    /\ WF_suiteVars(RunSsmDocument /\ SsmDocument!ValidateStep)
    /\ WF_suiteVars(RunServiceDiscovery /\ ServiceDiscovery!RunnerStep)

Spec == Init /\ [][Next]_suiteVars /\ Fairness

-------------------------------------------------------------------------------
(* What the modules claim of their suites, by what it means to a reader of *)
(* the verdict.                                                            *)

\* The state of the suite that runs is of its types.
TypeOK ==
    CASE suite = "credential_chain" -> CredentialChain!TypeOK
      [] suite = "assume_role" -> AssumeRole!ArTypeOK
      [] suite = "ssm_document" -> SsmDocument!SsmTypeOK
      [] suite = "service_discovery" -> ServiceDiscovery!SdTypeOK
      [] suite = "workload_discovery" -> WorkloadDiscovery!WdTypeOK
      [] suite = "traces" -> TraceTest!TtTypeOK
      [] OTHER -> TRUE

\* An agent that is going to be judged runs on what its own group has set up,
\* whatever groups and processes before it left on the host, and so does the
\* Prometheus load: its count is of its own namespace (SetupBeforeAgentRun of
\* both suites over the test runner, SendPrometheusMetrics).
SetupIsOwn ==
    /\ suite = "credential_chain" => CredentialChain!IntendedProvider
    /\ suite = "assume_role" => AssumeRole!OwnIdentity
    /\ suite = "prometheus" => PrometheusLoad!CountsItsOwn

\* What passes has earned it: by the right kind of agent, by a command that had
\* its effect, by the scenario's own configuration, by the workload itself, by
\* the segments it generated, of which as many may be missing as subsegments
\* came apart and were counted for them (base.go:84); and with no test at all
\* only if that was asked for (Validate of the suites, TraceTest, TestAllInSuite).
PassIsEarned ==
    /\ suite = "assume_role" => AssumeRole!OnlyGoodPasses
    /\ suite = "ssm_document" => SsmDocument!PassIsTrue
    /\ suite = "service_discovery" => ServiceDiscovery!PassIsOwn
    /\ suite = "workload_discovery" => WorkloadDiscovery!PassIsOwnWorkload
    /\ suite = "traces" => TraceTest!EveryTraceArrived
    /\ suite = "benchmark" => BenchmarkSuite!EmptyPass

\* And what does as it should is not failed by its predecessors: no healthy
\* host, no scenario with good events of its own, no workload that is found, no
\* agent that names whom it acts for exactly when it is told, no trace test whose
\* traces are all there: no step takes a suite into such a verdict.  Two cases
\* are out of it, as the code has no answer to them: a workload that started
\* while one of an earlier test was still ending on its ports (the sleep of
\* helper.go:157 is never reached), and ids that X-Ray left unprocessed
\* (xray.go:67-91 does not ask for them again).
FailureIsEarned == [][
    CASE suite = "assume_role" -> AssumeRole!GoodStaysPassing
      [] suite = "ssm_document" -> SsmDocument!HealthyPasses'
      [] suite = "service_discovery" -> ServiceDiscovery!MismatchIsOwn'
      [] suite = "workload_discovery" -> WorkloadDiscovery!FoundIsNotFailed'
      [] suite = "traces" -> TraceTest!TracesNotMissed'
      [] OTHER -> TRUE]_suiteVars

\* The SSM commands of one case neither run beside those of another nor lose
\* what they read while somebody still waits for them.  A command that outlives
\* its waiter does lose its document and parameter to the defers: nothing here
\* forbids that (WaitForCommandCompletion, and the defers of Validate).
CommandsUndisturbed ==
    suite = "ssm_document" => SsmDocument!OneAtATime /\ SsmDocument!NothingPulledAway

\* The harness of the credential chain asks for its verdict with no planted
\* key about (home_env_runner.go:127).
HarnessHomeClean == suite = "credential_chain" => CredentialChain!HarnessHomeClean

\* What a suite leaves is bounded: no overrides or keys on the host, no document
\* or parameter in the account, no workload with its port, no GPU, no avalanche
\* (the cleanups, the deferred deletions, the deferred stops).  The agent of a
\* trace test is not among them: log.Fatal (agent_util_unix.go:211) leaves it on.
LeavesNothing ==
    /\ suite = "credential_chain" => CredentialChain!Tidy
    /\ suite = "ssm_document" => SsmDocument!NothingLeft
    /\ suite = "workload_discovery" => WorkloadDiscovery!NothingRunsOn
    /\ suite = "prometheus" => PrometheusLoad!PortIsFreed

\* The tests of the benchmark suite that run are those the help of its flags
\* promises (metadata.go:182, :186: -plugins are the tests to test, and
\* -excludedTests those to exclude), if at most one of the two is given.  With
\* both, no promised test is skipped, but others run as well, for
\* shouldRunEC2Test lets either list select a test.
SelectionIsExact == suite = "benchmark" => BenchmarkSuite!SelectionIsExact

\* The suites that poll come to an end, whatever Systems Manager, ECS and
\* CloudWatch Logs do (the deadlines of their waits).
WaitsEnd ==
    /\ suite = "ssm_document" => SsmDocument!ValidateReturns
    /\ suite = "service_discovery" => ServiceDiscovery!SuiteEnds

===============================================================================
