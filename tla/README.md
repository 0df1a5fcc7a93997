# A verification of the CloudWatch agent test harness

This directory holds TLA+ models of the Go code in this repository: the test
suites, the validator and the libraries that decide whether a build of the
CloudWatch agent is good. The agent, CloudWatch, Systems Manager and DynamoDB
are *external*: they are modelled from what the code here relies on, and they
may fail or be late wherever the code has to cope with it.

A harness has two ways to be wrong: it passes an agent that lost data, or it
fails a good one. Most properties below are one or the other, and the hard part
is never a single comparison but what happens around it: goroutines nobody
joins, sleeps that stand for synchronisation, retries of what half happened,
results cached for a whole session, setups that outlive the group that made
them.

- [How to run it](#how-to-run-it)
- [Inventory](#inventory)
- [Modules and the code they stand for](#modules-and-the-code-they-stand-for)
- [Runs, bounds, and what they show](#runs-bounds-and-what-they-show)
- [Fairness](#fairness)
- [What is proved](#what-is-proved)
- [Findings](#findings)
- [What is not modelled](#what-is-not-modelled)
- [Plan](#plan)

## How to run it

    tlc -workers 2 -config QueryCacheSafety.cfg MCQueryCache    # a run
    tlapm QueryCacheProofs.tla                                  # the proofs of a module

The modules with proofs are those named `...Proofs`.

`PROJECT.json` lists the runs (module, configuration, expected outcome), the map
from every definition to the lines it stands for, the hazards, and for every
property a *mutant*: a slip a programmer could plausibly make in the mapped
definition, under which TLC finds the property violated. The slips are the
operators commented `Slip:`; no specification uses them.

## Inventory

### Components, their state and their operations

| Component | Code | State | Operations | Status |
|---|---|---|---|---|
| Query cache | `util/otelmetrics/query_cache.go` | two maps of entries, the `inflight` map, a semaphore | `Get`, `GetUnfiltered`, `GetWithFilter`, `fetchFiltered` and its workers | modelled |
| Source registry | `util/otelmetrics/source_registry.go` | immutable maps metric → source → host types | `HostTypesFor`, `IsClusterScoped` | modelled |
| PromQL client | `util/otelmetrics/client.go` | one request loop per query | `Query`, `requestRawWithRetry` | partly: series parsing abstracted |
| Metric presence assertion | `util/otelmetrics/validate.go` | the set of metrics seen so far | `AssertMetricsPresent` | modelled |
| Enrichment gate | `test/otel/standard/setup_test.go` | a deadline; the shared cache behind it | `waitForKSMNodeEnrichment`, `m.Run` | modelled |
| Log event assertions | `util/awsservice/cloudwatchlogs.go`, `util/common/logs/generate.go` | none | `AssertNoDuplicateLogs`, `AssertNoMissingLogs`, … | partly: schema checks left out |
| Log stream reader | `util/awsservice/cloudwatchlogs.go` | token, attempts, events so far | `GetLogsSince` | modelled |
| Log-state tests | `test/log_state/**`, `util/common/logs/generate.go` | the generator's number and file, the agent, the verdict | `Validate`, `Generator.Generate` | modelled |
| Validator loop | `validator/main.go`, `validator/validators/**` | round, window, goroutines that send load | `validate`, `LaunchValidator`, `GenerateLoad`, `CheckData` | partly: `main`'s dispatch left out |
| Validator checks | `validator/validators/{basic,stress,performance,feature}` | the errors found so far, the statistics to be recorded | `CheckData`, `ValidateMetric`, `ValidateStressMetric`, `ValidateLogs`, … | modelled |
| Performance statistics | `performance_stats.go`, `performance_validator.go` | none | `CalculateMetricStatisticsBasedOnDataAndPeriod`, `CalculateMetricStatsAndPackMetrics` | modelled, but for the deviation |
| Load senders | `util/common/metrics.go`, `logs.go`, `otlp.go`, `traces/**` | ticker, timer, socket or file | `SendStatsdMetrics`, `SendCollectDMetrics`, `StartLogWrite`, … | partly: payloads and the buffers of the clients left out |
| Prometheus helper | `util/common/metrics.go`, `prometheus_helper/**` | the port, the namespace in the configuration, a log group | `SendPrometheusMetrics`, `UpdateNamespace`, `CleanupPortPrometheus`, … | modelled |
| Trace tests | `util/common/traces/**`, `util/awsservice/xray.go` | segments in the client, counters, pages | `TraceTest`, both generators, `GetTraceIDs`, `BatchGetTraces` | partly: documents are segments and subsegments, their fields left out |
| Waiting helpers | `util/awsservice/**`, `util/common/otlp.go`, `install/install_agent.go` | tries, a deadline | nine loops, `GetLogStreams` to `FindStackInstanceId` | modelled |
| Performance database | `performance_validator.go`, `util/awsservice/dynamodb.go` | a table and a lagging index | `SendPacketToDatabase` and its three calls | modelled |
| Test runner | `test/test_runner/base_test_runner.go` | the host, the agent, `CleanupFns` | `Run`, `RunAgent`, `Cleanup` | partly: SSM configuration, result tables |
| Credential chain suite | `test/credential_chain/**` | the same host | two `SetupBeforeAgentRun`, two `Validate` | modelled |
| Assume role suite | `test/assume_role/assume_role_unix.go` | the same host, the agent's log, the namespaces with metrics | setup in eight steps, `Validate` | partly: the scan of the log's text |
| SSM commands and document suite | `util/awsservice/ssm.go`, `test/ssm_document/**` | commands in flight, the document, two parameters, deferred deletions | `Validate`, `WaitForSSMReady`, `WaitForCommandCompletion` | modelled |
| ECS runner, service discovery suite | `test/test_runner/ecs_test_runner.go`, `util/awsservice/ecs.go`, `test/ecs/service_discovery/**` | the parameter, the task, the log group | `Run`, `RunAgentStrategy`, `ValidateLogGroupFormat` | modelled |
| Workload discovery suite | `test/workload_discovery/**` | the processes it has started, the GPU | `Validate`, `testWorkload`, `checkStatus`, the scripts | partly: download and installation, the Windows scripts |
| Metric benchmark suite, environment metadata | `test/metric_value_benchmark/metrics_value_benchmark_test.go`, `environment/**` | the flags, the results so far | `GetEnvironmentMetaData`, `shouldRunEC2Test`, `TestAllInSuite` | partly: what selects and orders the tests |
| Container insights checks | `test/metric/container_insights_util.go`, `util/awsservice/cloudwatchlogs.go` | the map every event is decoded into | `ValidateLogsFrequency`, `ValidateNeuronCoreUtilizationValuesLogs` | partly: schemas left out |
| EKS runner, concurrent EMF emitter, restart test, metric fetch, other suites, service wrappers, generator, mock server, packaging | see `PROJECT.json` | | | not modelled; the reasons are below |

### How they interact

- The tests of an OTEL suite run in parallel and share **one query cache** for
  the session. Before them runs the **gate**, which looks past the cache. Behind
  the cache is the **client** with its retries; the **registry** tells the cache
  which queries a metric takes. What the cache keeps, every test sees.
- The **log-state test** owns a **generator** (a goroutine with a limiter and a
  cancellable context), starts and stops the **agent**, and then judges what the
  **reader** brings back with the **assertions**.
- The **validator loop** starts **senders** it never joins, sleeps, and judges a
  window of time, item by item, with its **checks**. The performance validator then
  takes **statistics** and writes them to the **database** other validators write to
  as well.
- The **Prometheus sender** of one round meets that of the next, and those of a
  process before, in a port, in the agent's one configuration file and in a log
  group named after what that file says.
- **Flags** on the command line select which tests of the benchmark suite run; a
  suite of which none ran has passed.
- The **test runner** drives the groups of a **suite** over one host. Groups, and
  processes that run a suite again, meet only through what is left on the host:
  files and overrides in the credential chain, the environment systemd has loaded
  and the agent's log in the assume role suite.
- The scenarios of the **ECS** suite meet in one parameter and one log group, the
  cases of the **SSM document** suite in the agent's state and in commands that
  outlive their waiters, and the tests of **workload discovery** in processes that
  answer to the same name.

### What is hard about each, and what makes it correct

| Component | Hard behaviour | What must hold |
|---|---|---|
| Query cache | check-then-act over two locks; publish, clear and close in order; a bounded semaphore with cancellation; an empty result that is not cached | one fetch per metric at a time; no waiter forgotten; all tests get one answer; no slot leaked; every call returns |
| PromQL client | retries against timeouts; a sleep no context interrupts | a query, cancelled or not, ends in bounded time |
| Presence assertion | metrics seen in different rounds | success means present; failure only after every chance |
| Enrichment gate | what is polled is not what is fetched later | what the gate saw warm is cached warm; the gate opens |
| Log assertions | repeats and gaps in one stream | what is reported is a gap, and a gap is reported |
| Log reader | reading a stream that grows; empty pages; a stream that is not there yet | a complete prefix, once, in order; patience, but no hang |
| Log-state tests | writes against cancellation against the agent's restart | pass means nothing lost; an exact agent passes |
| Validator loop, senders | rounds kept apart by sleeps only; lost errors; the last tick | a round is judged by its own load; healthy means pass, pass means load |
| Performance database | read, merge, write without a condition | what was recorded stays recorded |
| Test runner, credential chain | a setup that fails half way; cleanup that fails; `log.Fatal` past deferred cleanup | a group tests what it means to test; the host is restored |
| Assume role suite | one environment, one log, seven groups in turn | the identity under test is the group's own; only a good agent passes; a good agent is not failed |
| SSM document suite | a command that ends after its waiter gave up; deferred deletions; cases that start from what the last one left | no overlap; nothing pulled away from a command; nothing left; a lie is found out |
| ECS service discovery | scenarios that share and delete one log group; an agent that goes on logging | a scenario is judged by its own agent's events; the suite ends |
| Workload discovery | several versions under one name and on the same ports; stops nobody waits for | a test passes by its own workload; nothing runs on |
| Validator checks | errors of many items joined; loops with an early success in them; a table of bounds per system and receiver | the error names all that is wrong and nothing else |
| Performance statistics | indices of percentiles at small samples; a label taken apart to find the metric | what passed has recorded every metric, of its own values; the percentile announced |
| Load senders | `select` between a tick and the end; a batch held up by the agent; errors that end a sender, and losses of which no error tells | one batch a period to the end, and then an end |
| Prometheus sender | cleanup deferred to a goroutine that outlives its round; one port; one file | a count is of its own namespace; the port is freed; a failed count fails the test |
| Trace tests | counters read while they are written; a last batch nobody joins; pages and batches of ids | pass means no more is missing than subsegments cover for; a complete set is not failed |
| Waiting helpers | counts against deadlines; errors that cost a sleep, a try or everything; a request without a timeout | as patient as announced, and no longer |
| Benchmark suite | two lists that modify each other; names that select nothing | the tests that run are those asked for |
| Container insights checks | one map decoded into for every event | a check sees the event it is about |
| EMF emitter (planned) | emitters that share connections | every emitter ends; frames are not mixed |

Every hazard, with its line and the properties that would catch it going wrong,
is listed in `PROJECT.json`.

## Modules and the code they stand for

### The query cache: `SourceRegistry`, `QueryCache`, `WriteOnceCache`

`SourceRegistry` holds the registry as constants and has one operator that
matters, `QueriesFor`: the three branches at the top of `fetchFiltered` (one
cluster-scoped query, one query per host type, or one query without a selector).

In `QueryCache` one action is one critical section of `qc.mu`, one channel
operation or one query of a worker. `Hit`, `Join` and `Upgrade` are the look under
the read lock, and `Hit`, `Join` and `Claim` the one under the write lock; `pc`
tells which (`read`, `claim`). `Acquire` and `GiveUp` are the two arms of the
worker's `select`; `Respond` is `client.Query` returning, which also frees the
slot, as the deferred receive does. `Store` is the second critical section,
which caches the entry unless it is empty and clears `inflight`; `Close` is
`close(ch)`; `ReadBack` is the waiter's last look. `RawCall` … `RawStore` are
`GetUnfiltered`, `FilterCall` and `FilterReturn` are `GetWithFilter`. A response is
data, empty or an error; an entry is the set of selectors that had series, or an
error.

`WriteOnceCache` is what `Get` promises, without locks, channels or workers: an
answer is decided once, and a call takes it, decides it, or comes back empty and
decides nothing. `ImplementsWriteOnce` maps the cache to it.

### Logs: `LogEvents`, `LogEventsFeed`, `LogReader`, `LogState`

`LogEvents` has the assertions as operators; `Scan` is the loop of
`AssertNoMissingLogs` with its cursor, which moves past every gap and one step
for every number, a repeated one included. `LogEventsFeed` enumerates streams.
`LogReader` is `GetLogsSince`: tokens, pages that may be empty, a repeated token as
the end, attempts that count pages as well as retries, and any error as final. A stream
that is there once stays there: nobody deletes it while a test reads.
`LogState` composes them with `Validate` (start, generate, stop, start, cancel,
wait, stop, read, judge), the generator (the number is taken before the line is
written) and four kinds of agent: one that resumes exactly, one that resends, one
that resends with new timestamps and one that skips what it missed. The sleeps
of `Validate` wait for nothing, so they are left to interleaving.

### OTEL queries and the gate: `OtelClient`, `EnrichmentGate`

`OtelClient` has `requestRawWithRetry` under `Query` under `AssertMetricsPresent`.
Time is the seconds a query has spent: a request costs nothing or the whole
timeout, and a backoff costs `2^attempt`, which is
`Shl[attempt]`. `EnrichmentGate` polls the cluster in the
same way, and its tests then ask an instance of `WriteOnceCache`, so it rests on
the refinement shown for `QueryCache`.

### The validator: `ValidatorLoop`, `ValidatorChecks`, `LoadSenders`, `PerfDatabase`

`ValidatorLoop` has explicit time: `Tick` passes when nothing is due. One sender
record stands for a goroutine with its ticker and its timer, whichever load it
sends: statsd, collectd and EMF are `metrics`, the file and Windows event writers
`logs`, and the X-Ray generator `traces`. A round's validator is `aligning`,
`running`, `settling` and `pausing`, as its sleeps are; the trace suite is first
`blocked` in `GenerateTraces`. `Window` is the start and end time `CheckData` gets.
CloudWatch may show any part of what was sent.

`ValidatorChecks` is what `CheckData` makes of the answers. `Jobs` are the tests of
the repository's `parameters.yml` files, a row each: the feature tests, the stress
tests of every receiver, system and data rate, and performance tests. `Ask` takes
the next item, asks CloudWatch, which may answer anything, and joins what is wrong
with it to `errs`; a performance test gets all its metrics first
(`GetPerformanceMetrics`), then calculates their statistics up to the first that has
none, and sends the packet. A value is tenths of the expected one or of its bound,
so 8 and 11 are within ten percent of nothing and of the expected value, 12 and 14
within thirty percent and out of it.

`Good` is what the comments and messages say of an item: the value or the bound ±30 %,
and as many different events as the parameters ask for. The code is laxer in two places,
and `LetPass` names exactly these: `ErrorsExact` forbids every wrong accusation and every
other leniency.

`LoadSenders` looks inside one sender. `Row` has what distinguishes them: the period,
the pause after the first batch, at which batches' errors it looks (`Looks`), whether these
tell of every loss (`tells`), and how it waits, which is
`select` over ticker and timer, a look at the deadline, or a count of fixed sleeps. They
tell of every loss only of the logs, written to a file: the client of statsd sends later
and from a goroutine of its own, the error of a collectd gauge is discarded
(`metrics.go:244`, `281`), that of a full buffer ignored (266, 303), and a post that the
agent refuses with a status has no error.
A ticker keeps one tick and drops the rest (`NextTick`); of two ready arms `select`
takes either. `holds` counts how often a batch was held up and for how long, in all and
at most, and `SenderEndsInTime` bounds the sender's end by it.

`PerfDatabase` has several validators of one commit and use case, each a
`Query`, then `Add` if nothing was found, then `Replace` with its result merged into
what it found. A call that fails may have taken effect.

### Checks and waits of the library: `ContainerInsights`, `Polls`, and `Helpers`

`ContainerInsights` enumerates the streams of a node's performance log, in which lines
may not be JSON, belong to other types, or lack a field, and folds over them as
`GetLogEventCountPerType` and `GetNeuronCoreUtilizationPerCore` do.

`Polls` has the nine loops that ask until something is there. Each is a definition of
its own, a `Row` of the sleep before the first look, the sleep between looks, the
count or the deadline, what an error costs, and whether the last look is followed
by a sleep; the actions are those of a loop (`Found`, `NotYet`, `Error`, `GiveUp`,
`Sleep`). `Come` is the thing's coming, at any moment or never. `Hang` is the `http.Get`
of `WaitForOTLPEndpoint`, which has no timeout (`otlp.go:26`): the endpoint accepts and keeps
the request for a time (`Hangs`), until `LetGo`, or for ever.

`Helpers` puts these, the log assertions, the client, the gate, the checks and the
senders side by side for one run: each is one call with no state in common, so one
runs and the variables of the others stay idle. Its properties join those of the
modules by what they mean:

| Property of `Helpers` | joins |
|---|---|
| `TypeOK` | the client's |
| `LogChecksExact` | `ReportedIsGap`, `GapsExact` (log assertions), `FrequencyIsExact`, `CoresAreExact` (container insights) |
| `ErrorsExact`, `PacketComplete` | the checks' |
| `GaveUpPatiently` | the one of `Polls`, `MissingHadItsChances` (presence assertion) |
| `WaitsAreBounded` | `EndsInTime` (`Polls`), `QueryIsBounded`, `CancelIsBounded` (client), `SenderEndsInTime` |
| `SeenIsThere` | `PresentIsTrue` (presence assertion), `SeenNodesStayWarm` (gate) |
| `LoadIsSteady` | the one of `LoadSenders`, `NilIsNoLoss` |
| `WaitsEnd` | `LoopEnds` (`Polls`), `AssertionEnds`, `GateOpens` |

### EC2 suites: `TestRunner`, `CredentialChain`, `AssumeRole`

`TestRunner` is `Run` and `RunAgent` without a suite: places of the host with their
content, the cleanup list, and the two ways out, an error that fails the group
and `log.Fatal` that ends the process. `CredentialChain` extends it with the two
groups of that suite, whose setups are sequences of steps: each changes one
place, registers what restores it once it has succeeded, may fail, may leave
half a file behind, and may end the process. `Source` is where the agent looks for
credentials (external).

`AssumeRole` extends it with seven groups that write the agent's environment into
its service file, have systemd reload it, clear the log and write role and
namespace into the configuration. Whether the suite is worth anything is a
question about agents, so the agent under test is one of five kinds: a good one,
one that never names whom it acts for, one that does although it has not been
told, one that does not assume its role, and one that falls back to the host's
credentials when it is refused.

### Suites of their own: `SsmDocument`, `ServiceDiscovery`, `WorkloadDiscovery`

`SsmDocument` is `Validate` with its twelve cases as data. A case waits for its
command (`NotYet`, `Terminal`, `GiveUpWaiting` are the poll, the terminal status and
the deadline), asks for the status with a second command, and compares. `deferred`
is the stack of `defer`s. Commands are sent and then end when they like; one may
end after its waiter has given up, fail, or claim a success without its effect
(`lies`). The terminal status *Cancelled* is treated as *TimedOut*.

`ServiceDiscovery` is `ECSTestRunner.Run` over seven scenarios. An event is who has
logged it, whether its timestamp lies in the current window, and whether it shows
yet. `OpenWindow` is `start := time.Now()`. `DeleteLogGroupAndStream` deletes the
group with all that shows in it, or only the scenario's own stream (`InStream`), or nothing. The two bounded waits count `retries`,
although the second one is a deadline in the code.

`WorkloadDiscovery` has both of `Validate`'s branches as one list of tests. The
scripts are part of the model: `TearDown` kills a JVM and waits for it, but for
Tomcat and Kafka `pkill` tells every process of the kind to end, and the loop that
should wait for the process gives up at once, as it may not signal a process of
root's. A process told to end is gone by the end of `processSleep` and no earlier. That sleep
stands between the two phases of a test only: the one at the end of `testWorkload`
(`helper.go:157`) is never reached, as both phases return before it. `Rivals` are the
processes on the ports a new one needs: the JMX port of its kind if it is given that, the
HTTP and the shutdown port of any Tomcat, the broker's port of the same Kafka. `Launch`
succeeds if all of them are going to end and do so in time; otherwise the new one dies, and
if a rival was another test's `crowded` records it.

`BenchmarkSuite` is `TestAllInSuite` with the flags that select its tests. Flags come
in the spellings that the code folds together, and lists with blanks, empty words
and names that are no test (`Words`). `Select` is the choice of runners for the
compute type; `Run` and `Skip` take them one after the other, as `ShouldRun` says. What a
test validates is either way.

`TraceTest` has the test, the generator's goroutine and the agent, all at once: a
segment is in the client, in the agent, in X-Ray, spoilt or lost (`fates`).
`ForceFlush` is the last batch, which nobody joins; `tally` is `testsGenerated`, read
without synchronisation. `StopAgent` may end the process by `log.Fatal`
(`agent_util_unix.go:211`), and the agent runs on (`StopAgentFails`). `Settle` is the ten
seconds in which what was sent gets indexed (`Index`), unless X-Ray is slow. `GetTraceIDs`
and `GetBatchTraces` are the paged queries, in batches of ids; a batch ends with
`NextToken`, and ids that are `unprocessed` then are never asked for again. The generator of
the X-Ray SDK makes a subsegment in each segment, which comes inside it or as a document of
its own (`apart`): `GetSegments` puts all documents into one list, whose length is what
`Judge` compares with `tally`. Traces of an earlier run carry the same annotations.

`PrometheusLoad` has the rounds of one validator process, and of the next on the
same host, with one `SendPrometheusMetrics` goroutine each: `StartAvalanche` takes the
port, `UpdateNamespace` writes the configuration, `RestartAgent` makes it the agent's,
`CountMetrics` looks into the log group at the end, and `Cleanup` is the deferred
function, which kills whatever has the port.

`Suites` puts the eight suites side by side for one run: the generator's matrix
gives every job one test directory, so a suite is alone on its instance, and the
variables of the others stay idle. Its properties are those the modules state of
their suite, joined by what they mean to somebody who reads a verdict:

| Property of `Suites` | joins |
|---|---|
| `SetupIsOwn` | `IntendedProvider` (credential chain), `OwnIdentity` (assume role), `CountsItsOwn` (Prometheus) |
| `PassIsEarned` | `OnlyGoodPasses` (assume role), `PassIsTrue` (SSM), `PassIsOwn` (ECS), `PassIsOwnWorkload`, `EveryTraceArrived`, `EmptyPass` (benchmark) |
| `FailureIsEarned` | `GoodStaysPassing` (assume role), `HealthyPasses` (SSM), `MismatchIsOwn` (ECS), `FoundIsNotFailed` (workloads), `TracesNotMissed` |
| `CommandsUndisturbed` | `OneAtATime`, `NothingPulledAway` (SSM) |
| `HarnessHomeClean` | the credential chain's |
| `LeavesNothing` | `Tidy` (credential chain), `NothingLeft` (SSM), `NothingRunsOn` (workloads), `PortIsFreed` (Prometheus) |
| `SelectionIsExact` | the benchmark's |
| `WaitsEnd` | `ValidateReturns` (SSM), `SuiteEnds` (ECS) |

`FailureIsEarned` is stated of steps: no step takes a suite into an unearned
failure (no suite starts with one).

What these do not claim, as the code does not keep it and no line says it should:
`PassIsEarned` allows a trace test to miss as many segments as subsegments came apart;
`FailureIsEarned` exempts a workload that met one still ending on its ports (`crowded`) and
ids that X-Ray left unprocessed; `CommandsUndisturbed` is about commands somebody still
waits for; `LeavesNothing` says nothing of the agent of a trace test; `HarnessHomeClean` is
about the moment of the verdict. `SelectionIsExact` is exact for one list at most (see
[Findings](#findings)).

## Runs, bounds, and what they show

All passing runs are exhaustive for their bounds. Deadlock is checked in
`ValidatorLoop` and in the cache's runs, in which somebody can always call again;
the other runs model code that ends, and say `CHECK_DEADLOCK FALSE`.

| Run | States | Bounds | What it shows |
|---|---|---|---|
| `cache_safety` | 1,779,450 | 2 getters, 1 filterer, 2 host types, 3 metrics, 1 slot; getters symmetric | Single flight, no orphaned waiter, one answer for all, an honest empty answer, exact slots, entries never replaced. |
| `cache_live` | 46,915 | 2 getters, 1 raw getter, 1 metric of 2 host types, 1 slot; no symmetry | Every call returns, and `Get` refines the write-once cache, its liveness included. |
| `log_state` | 364,755 | 3 lines, 1 failed write, pages of 2, 1 empty page, 3 retries, 4 agents | Both verdicts are earned, the read is complete, the file is frozen before the last flush, `Validate` ends. |
| `validator_loop` | 22,752 | 3 rounds, time in half minutes, all suites | Rounds do not mix, a healthy feature test passes, a passing one had its load, the end is in time. |
| `suites` | 1,302,656 | one of eight suites; 2 processes on a host, 5 kinds of agent, 2 polls, 1 retry, 2 leftover workloads; 3 traces in batches of 2, 1 old trace, any subset of subsegments apart; 2 rounds in 2 processes; lists of up to 2 words; every step may fail, half succeed or be fatal | No group, case, scenario, round or workload is judged by what another one left; a bad agent is found out and a good one is not failed, but in the cases exempted above; the tests asked for run; what stays behind is bounded; waits end. |
| `helpers` | 1,269,348 | one of seven helpers; streams of 4 events; 5 values; 2 failing calls; 2 metrics, 3 attempts, 30 s timeout, 2 rounds; 2 nodes, 2 tests; a request that hangs for 7 s or 200 s; a round of 12 units of five seconds, 2 batches held up, 2 lost | Checks report what is wrong, but for two named leniencies, and nothing else; nobody gives up early or waits long, but for a request that hangs; what is reported as there is there; the load is steady; waits end. |
| `cache_unfiltered` | – | 2 raw getters | `UnfilteredStable` is violated (finding 1). |
| `log_panic` | – | streams of up to 4 events, numbers 1–4 or none | `SkippedNotFatal` is violated (finding 2). |
| `log_gap_masked` | – | as `log_panic` | `GapIsReported` is violated (finding 3). |
| `perf_lost_update` | – | 2 validators, 1 retry, 2 rounds | `ResultsKept` is violated (finding 4). |
| `p99` | – | up to 2 values | `FewValuesP99IsMax` is violated (finding 5). |
| `prometheus_unverified` | – | 3 rounds, 2 processes | `VerifiedLoad` is violated (finding 6). |

Why the bounds are enough:

- **Cache.** The races are between two callers of one metric and between two
  workers for a slot, so two getters, two host types and one slot reach each of
  them. The three metrics take one branch of `fetchFiltered` each. What depends on
  numbers of callers is proved for all of them.
- **Logs.** A masked gap needs a repeated number and a hole, that is four events.
  Three lines give the agent something before, during and after its restart, a
  page boundary and a rest. Three retries is the code's constant.
- **Checks.** An item is judged alone, so what can go wrong across items needs two of
  a kind or one of each, which the tests listed in `Jobs` have. `Values` has one
  value on either side of each bound the code compares with, and `SampleCount` with its slacks one count
  on either side of each range.
  Two cores and two types tell an event of one from an event of another.
- **Loops.** The rows have the code's own seconds and counts. Two failing calls are
  one before and one after the thing has come. A request hangs for less than the deadline
  or for longer.
- **Senders.** `Interval` 3 and `Duration` 12 are 15 and 60 seconds, several ticks to
  a round; `Minute`, the ticker of EMF, is halved to 6, so that a round has two. A batch is held
  up for less than a period, for one or for more (`Slow`); two such batches are
  needed for a drop and a late end in one round.
- **Prometheus and traces.** A second round can meet a first that is late, a second
  process one that died with the port; three traces fill one batch and start
  another.
- **Client.** Three attempts have a first, a middle and a last; the backoff is
  skipped only after the last.
- **Validator.** `StandardRetries` is the code's 3; half a minute is the coarsest
  unit in which a sender can be late by less than a tick. The periods are those
  of the configurations: `ShortPeriod` 2 and `LongPeriod` 10 are one and five
  minutes, `Settle` the two minutes for CloudWatch, `Pause` the minute between
  rounds.
- **Host.** A process knows nothing of the one before but what it left, so the
  second already starts from every reachable leftover.
- **Waits.** A wait ends at once, after a poll, or at its deadline; one or two polls
  tell these apart. An ECS task has one event in flight at a time, so two tasks
  have two, which is what it takes to mistake one for the other.
- **Workloads.** Two processes left over by failures are one that holds the port and
  one that only has the name. The agent finds all workloads, all but one Tomcat,
  all but one Tomcat and one Kafka, or none, and is honest about their status or not.

## Fairness

Nothing is assumed of the agent, of CloudWatch or of anybody who need not call.

- `QueryCache`: weak fairness of every caller's own steps, as goroutines are
  scheduled, and of `Respond`, as `http.Client.Timeout` ends a request and retries
  are bounded (which `helpers` checks). Strong fairness of `Acquire`: it is
  disabled whenever somebody else has the slot, and Go serves blocked senders of
  a channel first in, first out. No call and no cancellation has to happen.
- `LogState`: weak fairness of the harness, of the reader, and of `Quit` and `Write`
  of the generator. The limiter need not grant, the agent need not upload and the
  service need not show anything; `ValidateEnds` holds all the same.
- `Helpers`: weak fairness of the loop's own step, of the client and its caller, for
  the timeout again, and of the gate's `Poll` and `Sleep`; each is one goroutine. What
  is waited for need not come. The calls of the AWS clients are taken to return, as these have
  timeouts and bounded retries. Nothing is assumed of the OTLP endpoint: `LetGo` has no
  fairness, and `WaitsEnd` allows `WaitForOTLPEndpoint` to hang for ever in one request.
- `SsmDocument`, `ServiceDiscovery`: weak fairness of the harness's own step, one
  goroutine. Commands need not end, services need not become stable, nothing need
  ever be logged or shown.
- The other runs have no liveness property, nor do the other suites. `OnTime` of `ValidatorLoop` is stronger: a
  bound on explicit time, as an invariant, with deadlock checked.

## What is proved

Eight modules hold proofs. Each proves, from an inductive invariant, what the runs check
on a small instance; the invariants stand at the end of the module they are about or
at the head of their proofs. Every safety property and every action property that a
passing run checks is a theorem. All is proved for every value of the constants that the named
assumptions allow; TLC evaluates the assumptions in the runs.

| Module | Theorem | Statement |
|---|---|---|
| `QueryCacheProofs` | `TypeCorrect` | `Spec => []TypeOK` |
| | `SingleFlightHolds` | no two getters fetch one metric at once |
| | `NoOrphanWaiterHolds` | every waiter waits on a channel that its owner, fetching the same metric, is still going to close |
| | `AnswersAgreeHolds` | two non-empty answers for one metric are equal |
| | `FilteredStableHolds` | an entry of the cache is never replaced |
| | `EmptyIsHonestHolds` | an empty answer of `Get` is that of a fetch that ran while the call did |
| | `SlotsMatchWorkersHolds` | the slots held are those of the querying workers, and no more than there are |
| | `RefinementHolds` | initial states and steps are those of `WriteOnceCache`, or stutter |
| `LogStateProofs` | `TypeCorrect` | `Spec => []LogStateTypeOK` |
| | `ReadCompleteHolds` | a read that ends well has a prefix of the stream and all that was visible at its start |
| | `NotFoundIsPatientHolds` | a missing stream is given exactly the retries there are |
| | `FileFrozenHolds` | no line is written after `wg.Wait` |
| | `PassIsTrueHolds` | a test that passed has every line between two lines that it read, each once, unless the agent restamps |
| | `ExactAgentPassesHolds` | an exact agent whose every line was written is never blamed for a gap or a duplicate, nor crashes the check |
| | `ExactDeliveryHolds`, `ExactNeverDuplicates` | what is read of an exact agent is the file's beginning; it is never blamed for a duplicate even if a write failed |
| `LogEventsProofs` | lemmas `ScanWalks`, `ReportedAreGaps`, `GapsExactly`, `DistinctByCount`, … | what sorting, scanning and counting the numbers of a stream come to, for streams of any length |
| `ValidatorLoopProofs` | `TypeCorrect` | `Spec => []TypeOK` |
| | `WindowPureHolds` | no data point of another round in a round's window |
| | `FileIntactHolds` | a log writer keeps the file it created |
| | `OnTimeHolds` | the validator is over in the time its rounds add up to |
| | `PassIsEarnedHolds` | a feature test that passed had that round's load in its window |
| | `HealthyPassesHolds` | with no fault outside a feature test passes in its first round |
| `OtelClientProofs` | `ClientInvariant` | the invariant of a query and of the assertion that asks |
| `LoadSendersProofs` | `SendersInvariant` | the invariant of a sender |
| `HelpersProofs` | `TypeCorrect` | `Spec => []TypeOK` |
| | `GaveUpPatientlyHolds` | nobody gives up before the looks and the time announced |
| | `WaitsAreBoundedHolds` | and nobody takes longer, but for the time a request for the OTLP endpoint hangs |
| | `SeenIsThereHolds` | what is reported as there is there, the answer behind the gate included |
| | `LoadIsSteadyHolds` | one batch a period to the end of the round; a writer of logs without an error has written its first lines |
| | `LogChecksExactHolds` | gaps, frequencies and the utilization of each core are reported as they are |
| | `ErrorsExactHolds` | the error of a feature or a stress test names nothing that is as it should be, and all that is not but for the two leniencies of `LetPass` |
| | `PacketCompleteHolds` | a performance test that passed has recorded every metric, of its own values and in order |
| `SuitesProofs` | `SuiteInvariant` | each suite keeps its invariant |
| | `TypeCorrect` | `Spec => []TypeOK` |
| | `SetupIsOwnHolds` | no group is judged on what another one left |
| | `CommandsUndisturbedHolds` | the SSM suite's commands that somebody waits for run one at a time and keep what they read |
| | `HarnessHomeCleanHolds` | no planted key is about at the verdict |
| | `LeavesNothingHolds` | what the credential chain, SSM, workload and Prometheus suites leave is bounded |
| | `PassIsEarnedHolds` | a suite passes a good agent, its own scenario or workload, and no lie; a trace test misses no more than subsegments cover for |
| | `FailureIsEarnedHolds` | no step fails an agent that did what it should, ports still taken and ids left unprocessed apart |
| | `SelectionIsExactHolds` | no benchmark test that the flags' help promises is skipped, and with one list at most no other runs |

The assumptions, all named `ASSUME`s of the modules:

- `RegistryAssumption`, `CacheAssumption`, `EntryAssumption`: the types of the
  registry's maps, distinct selectors; the kinds of callers are disjoint, callers and host
  types finite, a capacity of at least one; a missing entry is not an entry.
- `ReaderAssumption`, `LogStateAssumption`: naturals, a page of at least one event, and
  marks for "no token" and "no number" that are neither.
- `LoopAssumption`: periods are full minutes, at most ten, an event is late by less than
  a minute, and the short period is no longer than the pause between rounds, nor than the
  long one. The last two are what the feature tests' `parameters.yml` say, a minute each:
  with a longer period a sender of one round would be at work in the next.
- `ClientAssumption`: at least one metric is asked for, each once. `PollsAssumption`:
  `Unlimited` is more than any loop takes, and than any request hangs. `GateAssumption`: naturals, some of them
  positive, and a mark for "no call" that is no metric.
- `SuitesAssumption`: naturals, some of them positive, and the kinds of agents are among
  the five whose log headers `AssumeRole` describes.
- `SendersAssumption`: the round is no shorter than collectd's pause after its first
  batch.
- `FeedAssumption`, `CiAssumption`, `ChecksAssumption`: naturals; there is a core; a stress
  test may miss no more samples than there are; no metric has a negative value but for the
  -2 that `Series` puts among the answers.

### The arguments

**Cache.** Single flight is not inductive: that two getters do not both fetch
follows from the `inflight` map, so the invariant says what the map means. `IInv` is

- `InflightExact`: `inflight[m] = c` exactly if `c` is fetching `m`;
- `FetchOnlyMissing`: what is being fetched is not cached, since `Claim` looks at
  both maps under the write lock, and no one else can store that metric;
- `NoOrphanWaiter`: kept by `Store`, which leaves the owner at `close`, and by `Close`,
  which wakes everybody who waits on that channel;
- `ReplyCached`: what a getter returned, if it was not empty, is in the cache.

`SingleFlight` follows from `InflightExact`, and `AnswersAgree` from `ReplyCached` with
`FetchOnlyMissing`, which makes `Store` the only way into the cache and only for a
metric that is not there (`OnlyStoreCaches`). The slots have an invariant of their own,
`SlotsInv`: workers exist only within a fetch, so `Store` drops none that holds a slot.
The refinement maps every getter between call and answer to a pending call; `Hit`,
`Store` and `ReadBack` are its `Resolve`, and all else stutters.

**Logs.** `ReaderInv` says that what has been read is the stream up to the position the
token stands for, which is why paging neither skips nor repeats while the stream grows;
a read stops no earlier than the end it saw at first. `InOrder` counts what an
exact agent has sent and not yet shown against the file's lines, across its
restarts. `GeneratorInv` has the generator over once it was waited for.

The verdicts rest on what the assertions compute, which `LogEventsProofs` proves of
streams of any length. `Sorted` is a function from ranks, so that it is a bijection with
the events (`Places`); the fold of `Scan` is the only walk over the sorted numbers
(`FoldExists`, `ScanWalks`), whose cursor is never behind the smallest number plus the
numbers walked over; so what the walk reports lies between two neighbours, and if no
number repeats it reports all that lies between any two (`Neighbours`). `CountAgrees` is
that as many distinct numbers as lie between their ends are all of those
(`Contiguous`). That a repeated number masks a gap is finding 3, and why `PassIsTrue`
needs the check for duplicates to come first: `DistinctByCount` is the step from one to
the other. `FileUnbroken` (no write failed, so line *n* has number *n*) makes the log of an
exact agent gapless, and `JudgedRight` carries it from the read to the verdict.

**Validator.** The heart is that senders and points of different rounds lie apart in
time. `Schedule` says when each phase ends, `SendersApart` that the senders of the round
before stop before this one starts, and `PointsApart` that what they sent has arrived
by then. The one way past the sleeps is a round that fails to make its load, which
pauses at once; its senders are over before the next round because the pause is not
shorter than their period. `OnTime` sums the phases up. For `HealthyPasses` the
invariant `Steady` says exactly which batches an undisturbed sender has sent, one a
minute from its first, so that the count in the window can be computed.

**Client.** `QueryTime` says how much time a query may have spent by its attempt: the
timeouts of the requests so far, and the sum of the backoffs, which is a power of two
less one. That `Shl`, a recursive function, is those powers is itself proved, as an
induction over the least number for which it fails. `AskedEachRound` counts per metric.

**Loops.** Every row either counts or has a deadline (`Rows`); `Paced` relates the time
to the looks, `WithinLimits` bounds both, up to the time that was spent hanging (`hung`, which
only the OTLP endpoint's wait can be), and `NotOverlooked` says that what has come is
seen after at most one pause and what hung meanwhile (`PollsInv`, in `HelpersProofs`).

**Senders.** `CountsTime` says when the timer or the deadline is looked at. For a
batch that is never held up for a whole period, `NearTicks` says that a sender behind
its ticks makes up at least one unit each period, so that a late tick does not carry it
past the timer; `CaughtUp` is the condition that the round is long enough for collectd,
which starts half a minute behind. The bounds of the run meet it; with a sender's real
minute-long interval in a round of five minutes it is not met, and for collectd there
only the first conjunct says something, the sum of all hold-ups.

`LoadIsSteady` is about sets of batches, and its invariant `Steady` about the last one:
every period before the current one has exactly one batch (`PeriodOf`), and the next
tick is within reach of the period it is for (`InReach`). The proof is what settled
the exception of collectd: being behind its ticks, it may find the round over before the batch
of the last period that the round cuts short, with bounds larger than those of the run.
`Losses` says that a writer of logs past its first batch has written that: the others'
errors tell too little for a claim.

**Node logs.** The folds count: `CountsAll` is that a count is the number of its lines. Each
core's value is that of its own last line (`OwnLines`), although all lines are decoded into
one map; a line without a utilization would take over the last one's (`Partial`), and if
as many lines as cores have their numbers in turn there is none.

**Checks.** `ErrorsInv` says that every answer is one to its item and that `errs` are
the items whose check failed so far; `Judged` that a check fails exactly if `Faulty` says
so, that no `Good` item is faulty, and that one which is neither is `LetPass`: together
`ErrorsExact`. Under it is one lemma for each kind of item (`MetricRight`,
`AppSignalRight`, `LogRight`, `StressRight`), and under that of the stress tests the tables:
every item of every stress test of `StressTests` has a bound (`LinuxBounds`,
`WindowsBounds`, `JobItems`). For performance tests `Packed` says what the statistics are of.
`Ranked` finds a value for each rank (`RankExists`, a least value with enough at or
below it), the ranks of the ends are those of the least and the greatest
(`RankedEnds`), and as dividing by a megabyte keeps the order (`DivKeepsOrder`) converting
before sorting does no harm. That the packet keeps the metrics apart is that no two names of
a test end in the same word (`PerformancePairs`).

**Helpers.** The three modules before are about one helper each; the proofs here show that
the instances are the same formulas, so that their theorems carry over. The gate is
proved about here: the series of a node that was seen enriched is never cold again
(`SeenAreWarm`), and the one fetch happens after.

**Suites.** Each suite has an invariant of its own in its module, and the last part of
`SuitesProofs` lifts them: the variables of a suite that does not run stand still.

- *Credential chain* (`CcInv`). `Progress`: the first steps of the setup are in place
  and their cleanups registered. `Registered`: unless something slipped, what no cleanup
  is going to restore is as it was. So a second group, or the next process, starts from a
  host on which only its own steps put keys.
- *Assume role* (`ArInv`). Nothing is restored here that the next group does not
  overwrite: `Prepared` lists what each step has set, on whatever host. `ArEarns` adds what
  a verdict rests on: whose the run is that is judged, that its namespace has metrics exactly
  if it could publish, and which group has found out which kind of agent.
- *SSM* (`SsmInv`). The one command that may be at work is the awaited one
  (`OnlyAwaited`); what it reads is there while it may be sent (`Provided`); whatever is
  there is on the stack of deferred deletions (`Deferred`). `SsmEarns`: the host is as
  the cases so far have left it, and a command that lied is caught by the case that sent it.
- *Workloads* (`WdInv`). Every process that still has its port is under test, or is
  told to stop, or a script failed and that is on record (`Excused`). `WdOwn`: as long as
  nothing was reported and nothing went unnoticed, whatever the agent found was under test.
  `WdThere`: if nothing went wrong and no workload met one that was still ending (`WdSpared`),
  the one under test does run while its status is asked for.
- *Prometheus* (`PlInv`). Each name was given once (`Named`), only the sender that made a log
  group deletes it (`Kept`), and no sender of a process that is over goes on (`Alone`).
- *ECS* (`SdOwn`). From the deployment on the parameter is the scenario's, from stability on
  the task is, and what is fresh in the window was logged by that task.
- *Traces* (`TtArrives`). When the agent is stopped no segment is with the client or the
  agent any more; after the settling none is on its way unless X-Ray was slow; the ids that
  are listed are of what is in X-Ray, and each is answered or unprocessed when they are judged.
  With OTLP no subsegment comes apart.
- *Benchmark* (`BsInv`). What has run are those of the runners walked over that should.

### What is only model-checked

- Liveness, which is beyond the prover: `CallsReturn`, the fairness part of the
  refinement, `ValidateEnds`, `WaitsEnd` of `Helpers` and of `Suites`.
- The properties of the runs with findings are refuted, and nothing is proved of the
  modules that only they check.

## Findings

1. `GetUnfiltered` does not keep the promise of its type's comment
   (`query_cache.go:33`, "Each unique metric name is queried exactly once"): it
   registers nothing in flight, so concurrent calls both query, and the slower
   store replaces what another caller has already been given.
2. `AssertNoMissingLogs` indexes an empty slice if no event of the stream has a
   sequence number (`generate.go:139`), although line 133 expects such events: it
   panics where it should report that everything is lost.
3. `AssertNoMissingLogs` looks for gaps only if the count is not what the two ends
   suggest (`generate.go:142`), and moves its cursor for a repeated number too
   (line 150): 1, 1, 3 passes, and so does 1, 1, 2, 4.
4. `SendPacketToDatabase` merges in memory and puts back without a condition
   (`performance_validator.go:93`–`104`): two data rates of one commit can
   overwrite each other's results.
5. The 99th percentile of few values is not the maximum that a comment announces
   (`performance_stats.go:45`): its index (line 47) is that of the second largest of
   up to a hundred values, and −1 of a single one, which panics.
6. `SendPrometheusMetrics` counts at its end what the agent has logged, "to generally
   verify that we are getting metrics" (`metrics.go:180`), but its error is assigned to
   the result of a function that has returned minutes before (lines 75, 86): a stress
   test whose agent scraped nothing passes. The errors of the other senders of
   `StartSendingMetrics` are lost in the same way.

   In the trace the sender does not come as far as the count: it fails at the probe of its
   port, and that error is lost in the same way.

### Disagreements without a run of their own

The properties exempt these by name, so that the runs show nothing else is wrong.

- **Two lists.** `metadata.go:182` calls `-plugins` the list of tests to test, and `186`
  `-excludedTests` that of tests to exclude. With both, `shouldRunEC2Test` lets either
  select: every test that is not excluded runs, and one that is in both lists runs too.
  `SelectionIsExact` promises that nothing else runs for one list at most.
- **±30 %.** The stress validator speaks of it (`stress_validator.go:434`, `487`) and checks an
  upper bound only; `LetPass` has everything below. `net_bytes_sent` is not converted to
  megabytes as the other byte counts are.
- **Half of the Windows events.** An event counts once by its level and once by its id
  (`basic_validator.go:204`, `207`), so that half of the "at least %d log event(s)" (190)
  are enough (`LetPass`). And a log of Windows events that expects no line
  (`log_lines: 0`, `event_regex_logs/parameters.yml:55`) never fails: too few lines are an
  error (`basic_validator.go:216`), some too many are not.
- **A sleep that is never reached.** `processSleep` says "Wait for process to start/end"
  (`helper.go:16`), but the one at the end of `testWorkload` (`helper.go:157`) stands after both
  phases have returned. The next version of a Tomcat or a Kafka is set up and started while
  the last one may still be ending on its ports, and may die of it: a workload that the agent
  would find is failed (`crowded`, which `FoundIsNotFailed` exempts).

### Hazards that no line of the repository denies

- *Cache.* A fetch of which one worker failed is cached as a success of the others'
  data. Everybody gets the same part from then on, so `AnswersAgree` and `FilteredStable`
  have nothing against it.
- *Log state.* A write of the generator that fails uses up its number, and the test then
  accuses the agent of losing a line (`ExactAgentPasses` holds only while `failed` is
  empty).
- *Gate.* A node whose series appears after the gate's last poll is cached without its
  attributes (`SeenNodesStayWarm` is about the nodes the gate saw).
- *SSM.* A command that outlives its waiter's deadline loses the document and the
  parameter it reads (`NothingPulledAway` excepts that case). An appended configuration that
  had no effect passes, as the agent was configured before (`PassIsTrue` of `SsmDocument`
  excepts it).
- *Workloads.* One whose first check fails is never stopped (`NothingRunsOn` is about those
  started with their port).
- *Traces.* A trace of the X-Ray SDK's generator has a segment and a subsegment
  (`xray/generator.go:84`). If a subsegment comes as a document of its own, `GetSegments`
  counts it (`xray.go:62`–`64`), and as only the number of documents is compared
  (`base.go:84`) it covers for a segment that was lost; with OTLP nothing does
  (`EveryTraceArrived`). Ids that X-Ray leaves unprocessed are never asked for again
  (`xray.go:85`), so a test whose traces are all there may fail (`TracesNotMissed`). A stop
  command that fails ends the process with the agent running (`agent_util_unix.go:211`).
- *Senders.* `StartSendingMetrics` drops all its senders' errors, and these tell of few losses
  to begin with (`NilIsNoLoss` is about logs only): that of a collectd gauge is discarded
  (`metrics.go:244`, `281`), `ErrNotEnoughSpace` ignored (266, 303), the client of statsd
  sends asynchronously. The first of the two posts of `processFile` may fail, and the second
  one's success overwrites its error (329–331). `select` may take a tick that is due
  instead of the end. A batch held up for a whole period leaves a tick due, so that an agent
  that is always slow leaves the end of a sender to chance; the model bounds how often a
  batch is held up (`MaxHolds`). `StartTraceGeneration` has no generator for `otlp`
  (`generate.go:41`).
- *Waits.* `WaitForOTLPEndpoint` asks with `http.Get`, which has no timeout (`otlp.go:26`): its
  deadline of two minutes binds it only between requests (`EndsInTime` adds `hung`, and
  `LoopEnds` excepts the request that hangs for ever). An error of `DescribeLogStreams` costs a
  try without its sleep; `ValidateMetricWithTest` sleeps once more after its last look;
  `FindStackInstanceId` ends the process where its caller has deferred `DeleteStack`;
  `install_agent` gives up after ten failures and exits with 0.
- *Flags.* On EKS a `Sidecar` or a `Stateful` deployment runs nothing, and passes (`EmptyPass`).
  `GetEnvironmentMetaData` never keeps what it has computed, as it declares a variable of
  the same name; every caller gets a copy of its own.

## What is not modelled

| Part | Why |
|---|---|
| What each benchmark test validates, the statsd helper | the selection is modelled; the rest is a setup and threshold comparisons |
| Credentials file suite, the scan for confused deputy headers | planned: a further step table, and an operator on lines |
| Concurrent EMF emitter | planned |
| Test case generator | a batch transformation of static tables; planned last |
| Metric fetch and dimensions | stateless queries and threshold comparisons |
| EKS runner, restart test | a sleep and a verdict; a scan of one log |
| AWS service wrappers | one call each; those with loops or pages are in `Polls` and `TraceTest` |
| Mock server, load generators | one atomic counter; loops |
| Terraform, installers, file permissions | declarative, or without state of their own |

Inside the modelled parts, these are abstracted: the text of queries, lines and
payloads; the values of metrics, of which only their place among the bounds counts;
the schema checks of log events; the metric check of the credential chain, which may
go either way; the number of a workload's port; the parameters of avalanche, and
that killing it works; what a segment's document says beyond its annotations; the buffers of
the statsd and collectd clients, of which only counts that something may get lost in them;
the time that calls of the AWS clients take.

## Plan

The order is by how much of a verdict depends on the part.

1. *Done.* `SourceRegistry`, `QueryCache`, `WriteOnceCache`, and the proofs.
2. *Done.* `LogEvents`, `LogReader`, `LogState`.
3. *Done.* `OtelClient`, `EnrichmentGate` (over `WriteOnceCache`).
4. *Done.* `ValidatorLoop`, `ValidatorChecks`, `LoadSenders`, `PerfDatabase`.
5. *Done.* `TestRunner`, `CredentialChain`, `AssumeRole`.
6. *Done.* `SsmDocument`, `ServiceDiscovery`, `WorkloadDiscovery`, `TraceTest`, `PrometheusLoad`,
   the selection of `BenchmarkSuite`, and `Suites` over them.
7. *Done.* `ContainerInsights`, `Polls`, and `Helpers` over all that is one call.
8. The statsd group of the benchmark and the credentials file suite as step tables
   over `TestRunner`, in the run of `Suites`: a group's sender is stopped before the next
   group starts; an error of `SetupAfterAgentRun` or `DeleteFile` leaves nothing running.
9. `EmfEmitter`; the scan for headers as an operator, against a definition.
10. The test case generator: what it multiplies, and that no case is lost or doubled.
11. *Done.* Proofs of every safety property and action property of the passing runs. *Left:*
    liveness, which stays with TLC.
