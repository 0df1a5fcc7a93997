---------------------------- MODULE CredentialChain ----------------------------
(***************************************************************************)
(* The credential chain suite (test/credential_chain): two groups on one   *)
(* host, each of which plants a valid key where it wants the agent to look *)
(* and an invalid one where the agent must not.  CommonConfigTest names a  *)
(* file in common-config.toml; HomeEnvTest gives the service another HOME. *)
(* What one group leaves behind is in the other's way.                     *)
(***************************************************************************)
EXTENDS TestRunner

VARIABLE step      \* of SetupBeforeAgentRun, from 1

vars == <<runnerVars, step>>

testRunners == <<"CommonConfigTest", "HomeEnvTest">>
Group == testRunners[current]

Contents == {Unset, "key", "stale", "invalid", "broken", "profile", "home",
             "tmp", "testHome", "other"} \cup {"CommonConfigTest", "HomeEnvTest"}

TypeOK ==
    /\ process \in 1 .. Runs /\ current \in 1 .. Len(testRunners)
    /\ pc \in {"setup", "start", "running", "validate", "verdict", "cleanup",
               "finished", "exited"}
    /\ host \in [Places -> Contents]
    /\ agent \in {"stopped", "running"}
    /\ cleanupFns \subseteq Places
    /\ slipped \in BOOLEAN
    /\ step \in 0 .. 6

Init ==
    /\ process = 1 /\ current = 1 /\ pc = "setup" /\ step = 0
    /\ host = [p \in Places |-> Unset]
    /\ agent = "stopped" /\ cleanupFns = {} /\ slipped = FALSE

-------------------------------------------------------------------------------
(* SetupBeforeAgentRun.                                                    *)

\* One change of the host, and the places whose cleanup is registered once it
\* has succeeded.
Put(place, content, restores) == [place |-> place, content |-> content, restores |-> restores]

CommonConfigSteps ==
    << Put("tmp", "key", {"tmp"}),
       Put("common", "profile", {"common"}),
       Put("cwagentHome", "invalid", {"cwagentHome"}),
       Put("config", "CommonConfigTest", {}) >>

\* Slips: the override is written and not registered; the common config of
\* the group before is taken to be empty.
HomeEnvStepsUnregistered ==
    << Put("testHome", "key", {"testHome"}), Put("override", "home", {}),
       Put("systemd", "home", {}), Put("common", Unset, {}),
       Put("rootHome", "invalid", {"rootHome"}), Put("config", "HomeEnvTest", {}) >>
HomeEnvStepsNoReset ==
    << Put("testHome", "key", {"testHome"}), Put("override", "home", {"override", "systemd"}),
       Put("systemd", "home", {}), Put("rootHome", "invalid", {"rootHome"}),
       Put("config", "HomeEnvTest", {}) >>

HomeEnvSteps ==
    << Put("testHome", "key", {"testHome"}),
       Put("override", "home", {"override", "systemd"}),
       Put("systemd", "home", {}),                        \* ReloadSystemd
       Put("common", Unset, {}),                          \* ResetCommonConfig
       Put("rootHome", "invalid", {"rootHome"}),
       Put("config", "HomeEnvTest", {}) >>

Steps == IF Group = "CommonConfigTest" THEN CommonConfigSteps ELSE HomeEnvSteps

\* The log of the last run is removed, or else the process ends; then the
\* group assumes its role.
GetCredentials ==
    /\ pc = "setup" /\ step = 0
    /\ \/ /\ host' = [host EXCEPT !["log"] = Unset]
          /\ \/ step' = 1 /\ UNCHANGED pc
             \/ FailGroup /\ UNCHANGED step
          /\ UNCHANGED slipped
       \/ Die /\ UNCHANGED <<host, step>>
    /\ UNCHANGED <<process, current, agent, cleanupFns>>

\* Slip: the step is not reset for the next group.
StepOn == step + 1

NextStep == IF step = Len(Steps) THEN 0 ELSE step + 1

SetUp ==
    /\ pc = "setup" /\ step \in 1 .. Len(Steps)
    /\ host' = [host EXCEPT ![Steps[step].place] = Steps[step].content]
    /\ cleanupFns' = cleanupFns \cup Steps[step].restores
    /\ step' = NextStep
    /\ pc' = IF step = Len(Steps) THEN "start" ELSE pc
    /\ UNCHANGED <<process, current, agent, slipped>>

\* A step that fails may have written half of its file, which no cleanup is
\* registered for.  CopyFile is fatal; the commands after it, and those that
\* write a file without copying it, return an error.  The common config's own
\* clean-up of the credentials file comes to what Cleanup does next.
SetUpFails ==
    /\ pc = "setup" /\ step \in 1 .. Len(Steps)
    /\ LET place == Steps[step].place IN
          \/ UNCHANGED host
          \/ place # "systemd" /\ host' = [host EXCEPT ![place] = "broken"]
    /\ \/ FailGroup /\ UNCHANGED slipped
       \/ /\ Steps[step].place \notin {"override", "systemd"}
          /\ Steps[step].content # Unset
          /\ Die
    /\ step' = 0
    /\ UNCHANGED <<process, current, agent, cleanupFns>>

-------------------------------------------------------------------------------
(* The agent, which is external: where it takes its credentials from.      *)

\* common-config.toml first, then the HOME of the service, then the home of
\* the user it runs as.
Source ==
    IF host["common"] = "profile" THEN "tmp"
    ELSE IF host["common"] = "broken" THEN "common"
    ELSE IF host["systemd"] = "home" THEN "testHome"
    ELSE IF Group = "CommonConfigTest" THEN "cwagentHome" ELSE "rootHome"

\* It logs the key it uses.  A log that is already there goes first:
\* ParseAgentLogsForCredentialProvider takes the first line that fits.
Log == IF host["log"] # Unset THEN host["log"]
       ELSE IF host[Source] = "key" THEN Source ELSE "other"

Start == StartAgent([host EXCEPT !["log"] = Log]) /\ UNCHANGED step

Stop == StopAgent /\ UNCHANGED step

-------------------------------------------------------------------------------
(* Validate.                                                               *)

Wanted == IF Group = "CommonConfigTest" THEN "tmp" ELSE "testHome"

\* Slip: only Run cleans up, once the verdict is there.
ValidateAtOnce ==
    /\ pc = "validate" /\ pc' = "verdict"
    /\ UNCHANGED <<process, current, host, agent, cleanupFns, slipped, step>>

\* The planted credentials go before the verdict is looked for.
Validate ==
    /\ pc = "validate"
    /\ Cleanup
    /\ pc' = "verdict"
    /\ UNCHANGED <<process, current, agent, step>>

\* The key in the agent's log and the metric, or a failed group; the suite
\* goes on alike.
Verdict ==
    /\ pc = "verdict"
    /\ pc' = "cleanup"
    /\ UNCHANGED <<process, current, host, agent, cleanupFns, slipped, step>>

NextGroup == EndGroup(Len(testRunners)) /\ step' = 0

\* A role that is assumed again gives other keys.
Again ==
    /\ Rerun([p \in Places |-> IF host[p] = "key" THEN "stale" ELSE host[p]])
    /\ step' = 0

Next ==
    \/ GetCredentials \/ SetUp \/ SetUpFails
    \/ Start \/ Stop \/ Validate \/ Verdict
    \/ NextGroup \/ Again

Spec == Init /\ [][Next]_vars

-------------------------------------------------------------------------------
(* Properties                                                              *)

\* Whatever groups and processes before it left on the host, half-written
\* files, cleanups that failed, overrides still loaded, a group whose setup
\* succeeded runs the agent on its own configuration and on the key it has
\* planted itself, and the log says so (SetupBeforeAgentRun of both groups).
IntendedProvider ==
    pc = "running" =>
        /\ Source = Wanted /\ host[Source] = "key"
        /\ host["log"] = Wanted /\ host["config"] = Group

\* home_env_runner.go:127, "need to clean up the invalid root credentials
\* before validation runs": the harness asks CloudWatch for its verdict with
\* no planted key about, but for a cleanup that failed.
HarnessHomeClean ==
    pc = "verdict" /\ ~slipped =>
        \A p \in Places : host[p] \notin {"invalid", "key", "home"}

\* When the suite is over, groups failed or not, the host is as it was: all
\* that remains is what a failing step half wrote, the configuration of an
\* agent that did not start, and the log.
Tidy ==
    pc = "finished" /\ ~slipped =>
        \A p \in Places \ {"config", "log"} : host[p] \in {Unset, "broken"}

-------------------------------------------------------------------------------
(* The inductive invariant of IntendedProvider, HarnessHomeClean and Tidy. *)

\* The first n steps of the setup have their effect, and their cleanups are
\* registered.
Placed(n) ==
    \A i \in 1 .. n :
        /\ host[Steps[i].place] = Steps[i].content
        /\ Steps[i].restores \subseteq cleanupFns

Progress ==
    /\ pc = "setup" => step <= Len(Steps)
    /\ pc = "setup" /\ step > 0 => host["log"] = Unset /\ Placed(step - 1)
    /\ pc = "start" => host["log"] = Unset /\ Placed(Len(Steps))

\* What no cleanup is going to restore needs none.
Registered ==
    ~slipped => \A p \in Places \ (cleanupFns \cup {"config", "log"}) : host[p] \in {Unset, "broken"}

\* The log names a provider, the configuration its group.
Readable ==
    /\ host["log"] \in {Unset, "tmp", "testHome"}
    /\ host["config"] \in {Unset, "broken", "CommonConfigTest", "HomeEnvTest"}

CleanedUp ==
    /\ pc \in {"verdict", "finished"} => cleanupFns = {}
    /\ pc = "exited" => slipped

CcInv == TypeOK /\ Progress /\ Registered /\ Readable /\ CleanedUp /\ IntendedProvider

===============================================================================
