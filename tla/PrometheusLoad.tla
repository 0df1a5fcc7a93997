----------------------------- MODULE PrometheusLoad -----------------------------
(***************************************************************************)
(* The stress test of the Prometheus receiver: validate launches up to     *)
(* three rounds, and the load of each is a goroutine that runs avalanche   *)
(* on one port, gives the agent a namespace and a log group of its own and *)
(* counts at the end what has come (SendPrometheusMetrics in               *)
(* util/common/metrics.go, prometheus_helper).  It may outlive its round:  *)
(* GetLogStreams alone waits for up to 200 seconds.                        *)
(***************************************************************************)
EXTENDS Naturals, SequencesExt

CONSTANTS
    StandardRetries,    \* rounds of a validator process
    MaxRuns             \* validator processes on the host, one after the other

VARIABLES
    vpc,        \* the validator: load, check, or how the process ended
    rounds,     \* rounds launched by this process
    processRun, \* number of this process
    senders,    \* the senders launched so far, by all processes
    port,       \* the sender whose avalanche has the port, or 0
    index,      \* of the namespace in the agent's configuration file, or 0
    agentNs,    \* of the configuration the agent runs on
    groups      \* log groups that hold enough metrics

promVars == <<vpc, rounds, processRun, senders, port, index, agentNs, groups>>

Sender == [at |-> "start", ns |-> 0, logged |-> FALSE, err |-> FALSE]
Beyond == {"count", "cleanup", "ended"}    \* its sleep is over

PlInit ==
    /\ vpc = "load" /\ rounds = 0 /\ processRun = 1 /\ senders = <<>>
    /\ port = 0 /\ index = 0 /\ agentNs = 0 /\ groups = {}

-------------------------------------------------------------------------------
(* LaunchValidator and validate.                                           *)

GenerateLoad ==
    /\ vpc = "load"
    /\ senders' = Append(senders, Sender) /\ rounds' = rounds + 1
    /\ vpc' = "check"
    /\ UNCHANGED <<processRun, port, index, agentNs, groups>>

\* The process ends, and with it its goroutines; avalanche runs on.
Exit(verdict) ==
    /\ vpc' = verdict
    /\ senders' = [i \in DOMAIN senders |->
                      IF senders[i].at = "ended" THEN senders[i]
                      ELSE [senders[i] EXCEPT !.at = "killed"]]

\* Two minutes after the collection the sender has woken, and three at the next
\* round, though it may still count.  The verdict is that of the agent's own
\* processor and memory: the sender's error went to a result that
\* StartSendingMetrics had returned by then.
CheckData ==
    /\ vpc = "check" /\ senders[Len(senders)].at \in Beyond
    /\ \/ Exit("passed")
       \/ rounds = StandardRetries /\ Exit("failed")
       \/ rounds < StandardRetries /\ vpc' = "load" /\ UNCHANGED senders
    /\ UNCHANGED <<rounds, processRun, port, index, agentNs, groups>>

\* The validator is run again on the host.
Again ==
    /\ vpc \in {"passed", "failed", "exited"} /\ processRun < MaxRuns
    /\ processRun' = processRun + 1 /\ rounds' = 0 /\ vpc' = "load"
    /\ UNCHANGED <<senders, port, index, agentNs, groups>>

-------------------------------------------------------------------------------
(* SendPrometheusMetrics.                                                  *)

Move(i, from, to) ==
    /\ senders[i].at = from
    /\ senders' = [senders EXCEPT ![i].at = to]

\* Slip: an early return that the deferred cleanup does not see.
ReturnEarlyPlain(i) ==
    /\ senders[i].at \in {"start", "probe", "config", "restart"}
    /\ senders' = [senders EXCEPT ![i].at = "ended", ![i].err = TRUE]
    /\ UNCHANGED <<vpc, rounds, processRun, port, index, agentNs, groups>>

\* No GOPATH, no avalanche, no answer, no prometheus.yaml, no agent.
ReturnEarly(i) ==
    /\ senders[i].at \in {"start", "probe", "config", "restart"}
    /\ senders' = [senders EXCEPT ![i].at = "cleanup", ![i].err = TRUE]
    /\ UNCHANGED <<vpc, rounds, processRun, port, index, agentNs, groups>>

\* If the port is taken avalanche ends, which nobody notices.
StartAvalanche(i) ==
    /\ Move(i, "start", "probe")
    /\ port' = IF port = 0 THEN i ELSE port
    /\ UNCHANGED <<vpc, rounds, processRun, index, agentNs, groups>>

\* curl is answered by whoever has the port.
Probe(i) ==
    /\ port # 0 /\ Move(i, "probe", "config")
    /\ UNCHANGED <<vpc, rounds, processRun, port, index, agentNs, groups>>

\* Slip: the index in the file is taken as it is.
SameIndex == IF index = 0 THEN 1 ELSE index

NextIndex == IF index = 0 THEN 1 ELSE index + 1

\* UpdateNamespace: the number in the file, whoever left it there, and one; a
\* file that cannot be read or written is the end of the process.
UpdateNamespace(i) ==
    /\ \/ /\ senders[i].at = "config"
          /\ index' = NextIndex
          /\ senders' = [senders EXCEPT ![i].at = "restart", ![i].ns = NextIndex]
          /\ UNCHANGED vpc
       \/ senders[i].at = "config" /\ Exit("exited") /\ UNCHANGED index
    /\ UNCHANGED <<rounds, processRun, port, agentNs, groups>>

RestartAgent(i) ==
    /\ Move(i, "restart", "sleep")
    /\ agentNs' = senders[i].ns
    /\ UNCHANGED <<vpc, rounds, processRun, port, index, groups>>

Wake(i) ==
    /\ Move(i, "sleep", "count")
    /\ UNCHANGED <<vpc, rounds, processRun, port, index, agentNs, groups>>

\* CountMetricsInEMFLogs: no stream, or too few metrics in the latest.
CountMetrics(i) ==
    /\ senders[i].at = "count"
    /\ senders' = [senders EXCEPT ![i].at = "cleanup", ![i].err = senders[i].ns \notin groups]
    /\ UNCHANGED <<vpc, rounds, processRun, port, index, agentNs, groups>>

\* The deferred function: whatever has the port is killed, and the log group,
\* if it has got a name, deleted.
Cleanup(i) ==
    /\ Move(i, "cleanup", "ended")
    /\ port' = 0 /\ groups' = groups \ {senders[i].ns}
    /\ UNCHANGED <<vpc, rounds, processRun, index, agentNs>>

\* The agent scrapes the port and logs under its namespace (external).
Scrape ==
    /\ port # 0 /\ agentNs # 0 /\ agentNs \notin groups
    /\ groups' = groups \cup {agentNs}
    /\ senders' = [i \in DOMAIN senders |->
                      IF senders[i].ns = agentNs THEN [senders[i] EXCEPT !.logged = TRUE]
                      ELSE senders[i]]
    /\ UNCHANGED <<vpc, rounds, processRun, port, index, agentNs>>

PlNext ==
    \/ GenerateLoad \/ CheckData \/ Again \/ Scrape
    \/ \E i \in DOMAIN senders :
          \/ StartAvalanche(i) \/ Probe(i) \/ ReturnEarly(i) \/ UpdateNamespace(i)
          \/ RestartAgent(i) \/ Wake(i) \/ CountMetrics(i) \/ Cleanup(i)

PlSpec == PlInit /\ [][PlNext]_promVars

-------------------------------------------------------------------------------
(* Properties                                                              *)

\* "ensuring each test has a unique namespace ... in the case of retries" as
\* well, and of a new process on the host (UpdateNamespace): what the agent has
\* logged for a sender is still there when that sender counts it, although
\* others that are late delete theirs.
CountsItsOwn ==
    /\ \A i, j \in DOMAIN senders : i # j => senders[i].ns # senders[j].ns \/ senders[i].ns = 0
    /\ \A i \in DOMAIN senders :
          senders[i].at = "count" /\ senders[i].logged => senders[i].ns \in groups

\* When the senders of a process have all ended, in whatever order and however
\* early, nothing has the port: not even what a process before has left there.
PortIsFreed ==
    LET mine == Len(senders) - rounds + 1 .. Len(senders)
    IN  mine # {} /\ (\A i \in mine : senders[i].at = "ended") => port = 0

\* metrics.go:180: the count is there "to generally verify that we are getting
\* metrics in the emf logs": a test whose sender did not get them fails.
VerifiedLoad ==
    vpc = "passed" => ~senders[Len(senders)].err

-------------------------------------------------------------------------------
(* The inductive invariant of CountsItsOwn and PortIsFreed.                *)

Stages == {"start", "probe", "config", "restart", "sleep", "killed"} \cup Beyond

PlTypeOK ==
    /\ vpc \in {"load", "check", "passed", "failed", "exited"}
    /\ senders \in Seq([at : Stages, ns : Nat, logged : BOOLEAN, err : BOOLEAN])
    /\ rounds \in 0 .. Len(senders) /\ port \in Nat
    /\ index \in Nat /\ agentNs \in 0 .. index /\ groups \subseteq 1 .. index

\* A sender that is over does nothing any more.
Over(i) == senders[i].at \in {"ended", "killed"}

\* The names that have been given are those up to the index, each of them once.
Named ==
    /\ \A i \in DOMAIN senders : senders[i].ns <= index
    /\ \A i \in DOMAIN senders : senders[i].at \in {"start", "probe", "config"} => senders[i].ns = 0
    /\ \A i, j \in DOMAIN senders : i # j => senders[i].ns # senders[j].ns \/ senders[i].ns = 0

\* Only a sender itself deletes its log group, and is over then.
Kept ==
    \A i \in DOMAIN senders :
        senders[i].logged => senders[i].ns # 0 /\ (senders[i].ns \in groups \/ Over(i))

\* Of the processes before no sender is left, and of one that is over none.
Alone ==
    /\ \A i \in 1 .. Len(senders) - rounds : Over(i)
    /\ vpc \in {"passed", "failed", "exited"} => \A i \in DOMAIN senders : Over(i)

PlInv == PlTypeOK /\ Named /\ Kept /\ Alone /\ PortIsFreed

===============================================================================
