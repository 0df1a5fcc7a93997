--------------------------- MODULE WorkloadDiscovery ---------------------------
(***************************************************************************)
(* The workload discovery test (test/workload_discovery).  It starts one   *)
(* workload after the other, first without and then with what the agent    *)
(* needs to monitor it, and asks the agent for the status of the workloads *)
(* it has found.  All versions of a kind answer to one name, and a stop    *)
(* that fails goes unnoticed: whose status was it?                         *)
(*                                                                         *)
(* The processes and the agent's discovery are external.                   *)
(***************************************************************************)
EXTENDS Naturals, Sequences, FiniteSets

CONSTANTS MaxLeft   \* bound: workloads left running by scripts that failed

VARIABLES
    stage,        \* where Validate is
    test,         \* index of the workload it tests
    processes,    \* workloads that run: [test, port]
    stopping,     \* of these, the ones told to stop
    gpu,          \* "none", "device", "driver"
    discovery,    \* the agent: the tests whose workload it finds, and how
    errors,       \* the kinds of workload that have failed
    troubled,     \* history: a script failed, or had no effect
    unnoticed,    \* history: a stop, or an uninstall, had none
    crowded       \* history: a workload met one of a test before that was still ending

wdVars == <<stage, test, processes, stopping, gpu, discovery, errors, troubled, unnoticed,
            crowded>>

Workload(label, name, phases) == [label |-> label, name |-> name, phases |-> phases]

Both == {"needs setup", "ready"}

\* On other instances, and then on those with a GPU.
tests == <<
    Workload("JVM", "My Application", Both),
    Workload("JVM", "Implementation Title", Both),
    Workload("JVM", "com.example.Application", Both),
    Workload("JVM", "Main", Both),
    Workload("Tomcat", "apache-tomcat", Both),         \* 9
    Workload("Tomcat", "apache-tomcat", Both),         \* 10
    Workload("Tomcat", "apache-tomcat", Both),         \* 11
    Workload("Kafka", "Kafka Broker", Both),           \* 3
    Workload("Kafka", "Kafka Broker", Both),           \* 4
    Workload("NVIDIA", "", Both),
    Workload("JVM and GPU", "Main", {"ready"}) >>

T == tests[test]

GpuTests == {10, 11}

Processes == [test : DOMAIN tests, port : BOOLEAN]

WdTypeOK ==
    /\ stage \in {"empty", "device", "setup", "start", "check", "stop", "pause", "start ready",
                  "check ready", "stop ready", "recheck", "uninstall", "returned"}
    /\ test \in DOMAIN tests
    /\ processes \subseteq Processes /\ stopping \subseteq processes
    /\ gpu \in {"none", "device", "driver"}
    /\ discovery \in [finds : SUBSET DOMAIN tests, honest : BOOLEAN]
    /\ errors \subseteq {"empty", "device"} \cup {tests[i].label : i \in DOMAIN tests}
    /\ {troubled, unnoticed, crowded} \subseteq BOOLEAN

WdInit ==
    /\ \/ test = 1 /\ stage = "empty"
       \/ test = 10 /\ stage = "device"
    /\ processes = {} /\ stopping = {} /\ gpu = "none"
    /\ \E missed \in {{}, {6}, {7, 9}, DOMAIN tests}, honest \in BOOLEAN :
          discovery = [finds |-> DOMAIN tests \ missed, honest |-> honest]
    /\ errors = {} /\ troubled = FALSE /\ unnoticed = FALSE /\ crowded = FALSE

-------------------------------------------------------------------------------
(* What the agent answers (external), and what checkStatus makes of it.    *)

\* An agent that is not honest calls everything ready.
Answer ==
    {[test |-> p.test, name |-> tests[p.test].name,
      status |-> IF p.port \/ ~discovery.honest THEN "ready" ELSE "needs setup"] :
        p \in {q \in processes : q.test \in discovery.finds}}
    \cup {[test |-> 10, name |-> "",
           status |-> IF gpu = "driver" \/ ~discovery.honest THEN "ready" ELSE "needs setup"] :
        g \in {h \in {gpu} : h # "none" /\ 10 \in discovery.finds}}

\* Slip: the status is not looked at.
MatchesAny(w, status) == w.name = T.name

\* checkStatus compares the name and the kind, and the status.
Matches(w, status) == w.name = T.name /\ w.status = status

Passes(status) == \E w \in Answer : Matches(w, status)

-------------------------------------------------------------------------------
(* Ways on.                                                                *)

Goto(s) == stage' = s /\ UNCHANGED <<test, errors>>

\* On to the test after this one, or after its kind.
Advance(past) ==
    IF past = 11 THEN stage' = "recheck" /\ UNCHANGED test
    ELSE IF past = 9 THEN stage' = "returned" /\ UNCHANGED test
    ELSE stage' = "setup" /\ test' = past + 1

LastOfLabel == CHOOSE i \in DOMAIN tests :
                   /\ tests[i].label = T.label
                   /\ \A j \in DOMAIN tests : tests[j].label = T.label => j <= i

\* A kind of workload ends with its first error, and the next kind is tried;
\* the GPU's driver is removed.
Leave == IF test \in GpuTests THEN stage' = "uninstall" /\ UNCHANGED test
         ELSE Advance(LastOfLabel)

Abandon == errors' = errors \cup {T.label} /\ Leave

-------------------------------------------------------------------------------
(* Validate and testWorkload.                                              *)

VerifyWorkloadsEmpty ==
    /\ stage = "empty" /\ stage' = "setup" /\ UNCHANGED test
    /\ \/ errors' = errors \cup {e \in {"empty"} : Answer # {}} /\ UNCHANGED troubled
       \/ errors' = errors \cup {"empty"} /\ troubled' = TRUE
    /\ UNCHANGED <<processes, stopping, gpu, discovery, unnoticed, crowded>>

SetupNVIDIADevice ==
    /\ stage = "device"
    /\ \/ gpu' = "device" /\ Goto("setup") /\ UNCHANGED troubled
       \/ gpu' \in {"none", "device"} /\ errors' = {"device"} /\ stage' = "returned"
          /\ troubled' = TRUE /\ UNCHANGED test
    /\ UNCHANGED <<processes, stopping, discovery, unnoticed, crowded>>

SetUp ==
    /\ stage = "setup"
    /\ \/ /\ Goto(IF "needs setup" \in T.phases THEN "start" ELSE "pause")
          /\ UNCHANGED troubled
       \/ T.label # "NVIDIA" /\ Abandon /\ troubled' = TRUE
    /\ UNCHANGED <<processes, stopping, gpu, discovery, unnoticed, crowded>>

\* The workloads whose ports this one needs: the JMX port of its kind, if it is
\* given that; the HTTP and the shutdown port of any Tomcat; the broker's port of
\* the same Kafka.
Rivals(port) ==
    {q \in processes :
        \/ port /\ q.port /\ tests[q.test].label = T.label
        \/ T.label = "Tomcat" /\ tests[q.test].label = "Tomcat"
        \/ T.label = "Kafka" /\ q.test = test}

\* It dies of a rival, unless all of them end in time.
Launch(port) ==
    \/ /\ Rivals(port) \subseteq stopping
       /\ processes' = processes \cup {[test |-> test, port |-> port]}
       /\ UNCHANGED crowded
    \/ /\ Rivals(port) # {} /\ UNCHANGED processes
       /\ crowded' = (crowded \/ \E q \in Rivals(port) : q.test # test)

\* The scripts end well whether anything has started or not; one that cannot
\* be run to its end may have started something all the same.
Spin(port, next) ==
    \/ Launch(port) /\ Goto(next) /\ UNCHANGED troubled
    \/ UNCHANGED <<processes, crowded>> /\ Goto(next) /\ troubled' = TRUE
    \/ /\ \/ UNCHANGED <<processes, crowded>>
          \/ Cardinality(processes) < MaxLeft /\ Launch(port)
       /\ Abandon /\ troubled' = TRUE

Start ==
    /\ stage = "start"
    /\ \/ T.label = "NVIDIA" /\ Goto("check") /\ UNCHANGED <<processes, troubled, crowded>>
       \/ T.label # "NVIDIA" /\ Spin(FALSE, "check")
    /\ UNCHANGED <<stopping, gpu, discovery, unnoticed>>

\* The agent's command may fail.
Check ==
    /\ stage = "check"
    /\ \/ /\ IF Passes("needs setup") THEN Goto("stop") ELSE Abandon
          /\ UNCHANGED troubled
       \/ Abandon /\ troubled' = TRUE
    /\ UNCHANGED <<processes, stopping, gpu, discovery, unnoticed, crowded>>

\* A JVM is killed by its pid and waited for.  pkill tells whatever answers to
\* tomcat or kafka to end, and nobody waits: the processes are root's.
TearDown(port) ==
    IF T.label \in {"Tomcat", "Kafka"}
    THEN /\ stopping' = stopping \cup {p \in processes : tests[p.test].label = T.label}
         /\ UNCHANGED processes
    ELSE processes' = processes \ {[test |-> test, port |-> port]} /\ UNCHANGED stopping

\* The error of a stop is not looked at.
RunStop(port) ==
    /\ \/ TearDown(port) /\ UNCHANGED <<troubled, unnoticed>>
       \/ /\ Cardinality(processes \ stopping) <= MaxLeft
          /\ UNCHANGED <<processes, stopping>>
          /\ troubled' = TRUE /\ unnoticed' = TRUE
    /\ UNCHANGED <<gpu, discovery, crowded>>

Stop ==
    /\ stage = "stop" /\ Goto("pause")
    /\ IF T.label = "NVIDIA"
       THEN UNCHANGED <<processes, stopping, gpu, discovery, troubled, unnoticed, crowded>>
       ELSE RunStop(FALSE)

\* Slip: the processes are not given the time to end.
PauseNever ==
    /\ stage = "pause"
    /\ Goto("start ready")
    /\ UNCHANGED <<processes, stopping, gpu, discovery, troubled, unnoticed, crowded>>

\* processSleep, "Wait for process to start/end": one that was told to stop is
\* gone by then.
Pause ==
    /\ stage = "pause" /\ stopping = {}
    /\ Goto("start ready")
    /\ UNCHANGED <<processes, stopping, gpu, discovery, troubled, unnoticed, crowded>>

StartReady ==
    /\ stage = "start ready"
    /\ \/ /\ T.label = "NVIDIA"
          /\ \/ gpu' = "driver" /\ Goto("check ready") /\ UNCHANGED troubled
             \/ gpu' \in {gpu, "driver"} /\ Abandon /\ troubled' = TRUE
          /\ UNCHANGED <<processes, crowded>>
       \/ T.label # "NVIDIA" /\ Spin(TRUE, "check ready") /\ UNCHANGED gpu
    /\ UNCHANGED <<stopping, discovery, unnoticed>>

\* The deferred stop runs on either outcome.
CheckReady ==
    /\ stage = "check ready" /\ stage' = "stop ready" /\ UNCHANGED test
    /\ \/ errors' = errors \cup {e \in {T.label} : ~Passes("ready")} /\ UNCHANGED troubled
       \/ errors' = errors \cup {T.label} /\ troubled' = TRUE
    /\ UNCHANGED <<processes, stopping, gpu, discovery, unnoticed, crowded>>

EndTest == (IF T.label \in errors THEN Leave ELSE Advance(test)) /\ UNCHANGED errors

StopReady ==
    /\ stage = "stop ready" /\ T.label # "NVIDIA"
    /\ RunStop(TRUE)
    /\ EndTest

\* A driver has no stop.
NoStop ==
    /\ stage = "stop ready" /\ T.label = "NVIDIA"
    /\ EndTest
    /\ UNCHANGED <<processes, stopping, gpu, discovery, troubled, unnoticed, crowded>>

\* The GPU is ready still, after the JVM.
Recheck ==
    /\ stage = "recheck" /\ stage' = "uninstall" /\ UNCHANGED test
    /\ \/ /\ errors' = errors \cup {e \in {"NVIDIA"} :
                                  ~\E w \in Answer : w.test = 10 /\ w.status = "ready"}
          /\ UNCHANGED troubled
       \/ errors' = errors \cup {"NVIDIA"} /\ troubled' = TRUE
    /\ UNCHANGED <<processes, stopping, gpu, discovery, unnoticed, crowded>>

\* Slip: the uninstall is not deferred.
UninstallNever ==
    /\ stage = "uninstall" /\ Goto("returned")
    /\ UNCHANGED <<processes, stopping, gpu, discovery, troubled, unnoticed, crowded>>

\* Its error is dropped.
Uninstall ==
    /\ stage = "uninstall"
    /\ \/ gpu' = "none" /\ UNCHANGED <<troubled, unnoticed>>
       \/ troubled' = TRUE /\ unnoticed' = TRUE /\ UNCHANGED gpu
    /\ Goto("returned")
    /\ UNCHANGED <<processes, stopping, discovery, crowded>>

-------------------------------------------------------------------------------
(* The processes (external).                                               *)

Exit ==
    /\ \E p \in stopping : processes' = processes \ {p} /\ stopping' = stopping \ {p}
    /\ UNCHANGED <<stage, test, gpu, discovery, errors, troubled, unnoticed, crowded>>

WdNext ==
    \/ VerifyWorkloadsEmpty \/ SetupNVIDIADevice \/ SetUp
    \/ Start \/ Check \/ Stop \/ Pause
    \/ StartReady \/ CheckReady \/ StopReady \/ NoStop
    \/ Recheck \/ Uninstall
    \/ Exit

WdSpec == WdInit /\ [][WdNext]_wdVars

-------------------------------------------------------------------------------
(* Properties                                                              *)

\* A test passes only by its own workload: although every version of a kind has
\* the same name, an agent that does not find one of them, or tells its status
\* wrong, is failed, whatever else goes wrong (checkStatus).  Only a stop that
\* failed unnoticed can lead astray.
PassIsOwnWorkload ==
    stage = "returned" /\ errors = {} /\ ~unnoticed =>
        /\ discovery.honest
        /\ (IF test \in GpuTests THEN GpuTests ELSE DOMAIN tests \ GpuTests)
               \subseteq discovery.finds

\* An agent that finds every workload is not failed because the first process of
\* a test is still ending when its second one starts (processSleep, helper.go:16).
\* Between two tests nobody sleeps, as both phases return before helper.go:157,
\* and there it can be: a Tomcat that dies of the version before.
FoundIsNotFailed ==
    discovery = [finds |-> DOMAIN tests, honest |-> TRUE] /\ ~troubled /\ ~crowded
        => errors = {}

\* When the test returns, passed or not, nothing runs on that has been started
\* with its port and was not told to stop (the deferred stop, helper.go:147),
\* and no GPU is left (workload_discovery.go:157), but for a start that failed.
NothingRunsOn ==
    stage = "returned" /\ ~unnoticed /\ (errors = {} \/ ~troubled) =>
        /\ gpu = "none"
        /\ \A p \in processes : p.port => p \in stopping

-------------------------------------------------------------------------------
(* The inductive invariant of NothingRunsOn.                               *)

\* The scripts did not do what they were told, in a way that excuses what is left.
Excused == unnoticed \/ (troubled /\ errors # {})

\* A GPU is there only on an instance that has one, and to the uninstall.
GpuInTest == gpu # "none" => test \in GpuTests /\ (stage = "returned" => Excused)

\* A workload with its port runs while it is being tested.
PortInTest ==
    \A p \in processes \ stopping :
        p.port => Excused \/ (p.test = test /\ stage \in {"check ready", "stop ready"})

WdInv ==
    /\ WdTypeOK /\ GpuInTest /\ PortInTest
    /\ stage \in {"empty", "device"} => processes = {} /\ errors = {}
    /\ stage = "empty" => test = 1
    /\ stage = "device" => test = 10
    /\ stage \in {"recheck", "uninstall"} => test \in GpuTests
    /\ \A p \in processes : tests[p.test].label # "NVIDIA"
    /\ \A p \in stopping : tests[p.test].label \in {"Tomcat", "Kafka"}

===============================================================================
