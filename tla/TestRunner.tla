------------------------------- MODULE TestRunner -------------------------------
(***************************************************************************)
(* TestRunner.Run and RunAgent (test/test_runner/base_test_runner.go): the *)
(* skeleton every EC2 suite hangs its test groups on.  One group after the *)
(* other sets the host up, runs the agent for a while, stops it, looks at  *)
(* what it sent and undoes the setup.  An error fails the group and the    *)
(* suite goes on; log.Fatal ends the process, deferred cleanup and all,    *)
(* and leaves the host as it is to whoever runs the suite next.            *)
(*                                                                         *)
(* A suite extends this module with its own setup and verdict; here the    *)
(* host is only the set of places whose content can outlive a group.       *)
(***************************************************************************)
EXTENDS Naturals, Sequences

CONSTANTS
    Places,        \* files and settings of the host that setups change
    Runs           \* bound: processes that run the suite on this host

VARIABLES
    process,       \* which of them
    current,       \* index of the test group in the suite
    pc,            \* where Run and RunAgent are
    host,          \* Places -> content
    agent,         \* "stopped", "running"
    cleanupFns,    \* CleanupFns: the places they restore
    slipped        \* history: a cleanup failed (it is only logged) or a process died

runnerVars == <<process, current, pc, host, agent, cleanupFns, slipped>>

Unset == "absent"

\* Places some cleanup failed to restore.  Systemd goes on with the override
\* it has loaded unless the file is gone and the reload succeeds.
Undone(failed) ==
    /\ failed \subseteq cleanupFns
    /\ "override" \in failed => "systemd" \in failed

\* BaseTestRunner.Cleanup: every function runs, and none is left to run again.
Cleanup ==
    \E failed \in SUBSET cleanupFns :
        /\ Undone(failed)
        /\ host' = [p \in Places |-> IF p \in cleanupFns \ failed THEN Unset ELSE host[p]]
        /\ cleanupFns' = {}
        /\ slipped' = (slipped \/ failed # {})

\* RunAgent returned an error: the group fails without Validate.
FailGroup == pc' = "cleanup"

\* log.Fatal: no deferred Cleanup.
Die == pc' = "exited" /\ slipped' = TRUE

\* A start that fails leaves the agent as it was, stopped, or up all the same.
StartAgent(startedHost) ==
    /\ pc = "start"
    /\ \/ agent' = "running" /\ host' = startedHost /\ pc' = "running"
       \/ agent' \in {agent, "stopped", "running"} /\ FailGroup /\ UNCHANGED host
    /\ UNCHANGED <<process, current, cleanupFns, slipped>>

\* StopAgent is fatal when it fails, DeleteFile fails the group.
StopAgent ==
    /\ pc = "running"
    /\ \/ /\ agent' = "stopped"
          /\ \/ host' = [host EXCEPT !["config"] = Unset] /\ pc' = "validate"
             \/ FailGroup /\ UNCHANGED host
          /\ UNCHANGED slipped
       \/ Die /\ UNCHANGED <<host, agent>>
    /\ UNCHANGED <<process, current, cleanupFns>>

\* The deferred Cleanup of Run, then the next group of the suite.
EndGroup(groups) ==
    /\ pc = "cleanup"
    /\ Cleanup
    /\ IF current < groups THEN current' = current + 1 /\ pc' = "setup"
                           ELSE pc' = "finished" /\ UNCHANGED current
    /\ UNCHANGED <<process, agent>>

\* The suite is run again on the host it was run on: what a process knew is
\* gone, keys it had been given among it.
Rerun(forgotten) ==
    /\ pc \in {"finished", "exited"} /\ process < Runs
    /\ process' = process + 1
    /\ current' = 1 /\ pc' = "setup" /\ cleanupFns' = {}
    /\ host' = forgotten
    /\ UNCHANGED <<agent, slipped>>

===============================================================================
