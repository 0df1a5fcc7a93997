------------------------------- MODULE AssumeRole -------------------------------
(***************************************************************************)
(* The assume role suite (test/assume_role): seven groups on one host,     *)
(* each of which gives the agent a role to assume and an environment, has  *)
(* it run and looks for metrics in the group's namespace and for traces of *)
(* the attempt in the agent's log.  The role wants the agent to say for    *)
(* whom it acts (the headers against the confused deputy); four groups say *)
(* it wrongly or not at all, and the agent has to be refused.              *)
(***************************************************************************)
EXTENDS TestRunner, SequencesExt

CONSTANTS Kinds      \* of agents

VARIABLES
    step,      \* of SetupBeforeAgentRun, from 1
    kind,      \* what the agent under test makes of its environment
    run,       \* what the agent that runs has been started with
    metrics,   \* namespaces the agent has published to
    passing,   \* the status of the suite so far
    late       \* history: CloudWatch did not show what was there, or a call failed

arVars == <<runnerVars, step, kind, run, metrics, passing, late>>

\* What the conditions of each role ask for.
Asks == [source_arn_key |-> {"arn"}, source_account_key |-> {"account"},
         all_context_keys |-> {"account", "arn"}]

\* The groups: the role, what the environment says, and what is to happen.
Runner(name, role, account, arn, fails) ==
    [name |-> name, role |-> role, account |-> account, arn |-> arn, fails |-> fails]

groups == <<
    Runner("SourceArnKeyOnlyTest", "source_arn_key", "right", "right", FALSE),
    Runner("SourceAccountKeyOnlyTest", "source_account_key", "right", "right", FALSE),
    Runner("AllKeysTest", "all_context_keys", "right", "right", FALSE),
    Runner("MissingSourceArnEnvTest", "source_arn_key", "right", "unset", TRUE),
    Runner("MissingSourceAccountEnvTest", "source_account_key", "unset", "right", TRUE),
    Runner("ContextKeyMismatchAccountTest", "all_context_keys", "wrong", "right", TRUE),
    Runner("ContextKeyMismatchArnTest", "all_context_keys", "right", "wrong", TRUE) >>

G == groups[current]

Values == {"unset", "template", "right", "wrong"}
Roles == {"template", Unset} \cup DOMAIN Asks
Names == {"template", "none"} \cup {groups[i].name : i \in DOMAIN groups}
Started == [account : Values, arn : Values, role : Roles, ns : Names]
Entries == [what : {"denied", "asked with both"}, role : DOMAIN Asks]

\* Of SetupBeforeAgentRun.
Steps == <<"copy service", "account", "arn", "reload", "log", "copy config", "role",
           "namespace">>

ArTypeOK ==
    /\ process \in 1 .. Runs /\ current \in DOMAIN groups
    /\ pc \in {"setup", "start", "running", "validate", "cleanup", "finished", "exited"}
    /\ agent \in {"stopped", "running"}
    /\ \A p \in {"account", "arn", "loaded account", "loaded arn"} : host[p] \in Values
    /\ host["config"] \in Roles /\ host["namespace"] \in Names
    /\ host["log"] \subseteq Entries
    /\ cleanupFns = {} /\ slipped \in BOOLEAN
    /\ step \in DOMAIN Steps /\ kind \in Kinds
    /\ run \in Started
    /\ metrics \subseteq Names
    /\ {passing, late} \subseteq BOOLEAN

\* The environment is what the service file says, and what systemd has read
\* of it; the configuration is the role it names, and the namespace.
ArInit ==
    /\ process = 1 /\ current = 1 /\ pc = "setup" /\ step = 1
    /\ host = [p \in Places |-> CASE p = "log" -> {}
                                  [] p = "namespace" -> "none"
                                  [] p = "config" -> Unset
                                  [] OTHER -> "unset"]
    /\ agent = "stopped" /\ cleanupFns = {} /\ slipped = FALSE
    /\ kind \in Kinds
    /\ run = [account |-> "unset", arn |-> "unset", role |-> Unset, ns |-> "none"]
    /\ metrics = {} /\ passing = TRUE /\ late = FALSE

-------------------------------------------------------------------------------
(* SetupBeforeAgentRun: setupEnvironmentVariables, the log, the config.    *)

\* Slip: the environment is written and never loaded.
ReloadNot == host

\* daemon-reload: systemd reads the service file again.
Reload == [host EXCEPT !["loaded account"] = host["account"], !["loaded arn"] = host["arn"]]

\* What the host is like after a step.  A value that is not to be set has its
\* line deleted.
After ==
    LET s == Steps[step] IN
    CASE s = "copy service" -> [host EXCEPT !["account"] = "template", !["arn"] = "template"]
      [] s = "account" -> [host EXCEPT !["account"] = G.account]
      [] s = "arn" -> [host EXCEPT !["arn"] = G.arn]
      [] s = "reload" -> Reload
      [] s = "log" -> [host EXCEPT !["log"] = {}]
      [] s = "copy config" ->
            [host EXCEPT !["config"] = "template", !["namespace"] = "template"]
      [] s = "role" -> [host EXCEPT !["config"] = G.role]
      [] s = "namespace" -> [host EXCEPT !["namespace"] = G.name]

SetUp ==
    /\ pc = "setup"
    /\ host' = After
    /\ IF step = Len(Steps) THEN step' = 1 /\ pc' = "start"
                            ELSE step' = step + 1 /\ UNCHANGED pc
    /\ UNCHANGED <<process, current, agent, cleanupFns, slipped, kind, run, metrics,
                   passing, late>>

\* A command that fails may have taken effect.  CopyFile and
\* RecreateAgentLogfile are fatal, the other commands return an error.
SetUpFails ==
    /\ pc = "setup"
    /\ UNCHANGED host \/ host' = After
    /\ IF Steps[step] \in {"copy service", "log", "copy config"}
       THEN Die
       ELSE FailGroup /\ UNCHANGED slipped
    /\ passing' = FALSE /\ step' = 1
    /\ UNCHANGED <<process, current, agent, cleanupFns, kind, run, metrics, late>>

-------------------------------------------------------------------------------
(* The agent and STS (external).                                           *)

\* The agent names whom it acts for only if it has been told both.  A bare one
\* never does, an eager one finds out for itself.
Header(r, key) ==
    CASE kind = "bare" -> "unset"
      [] kind = "eager" /\ r[key] = "unset" -> "right"
      [] kind # "eager" /\ "unset" \in {r.account, r.arn} -> "unset"
      [] OTHER -> r[key]

Granted(r) == \A key \in Asks[r.role] : Header(r, key) = "right"

\* What a run logs.  A lax agent never asks.
Logged(r) ==
    {e \in Entries :
        /\ kind # "lax" /\ e.role = r.role
        /\ e.what = "denied" => ~Granted(r)
        /\ e.what = "asked with both" => \A key \in {"account", "arn"} : Header(r, key) = "right"}

\* An agent that falls back publishes with the credentials of its host.
Publishes(r) == kind \in {"lax", "fallback"} \/ Granted(r)

Start ==
    LET r == [account |-> host["loaded account"], arn |-> host["loaded arn"],
              role |-> host["config"], ns |-> host["namespace"]]
    IN  /\ StartAgent([host EXCEPT !["log"] = @ \cup Logged(r)])
        /\ run' = IF agent' = "running" THEN r ELSE run
        /\ metrics' = IF pc' = "running" /\ Publishes(r) THEN metrics \cup {r.ns} ELSE metrics
        /\ passing' = (passing /\ pc' = "running")
        /\ UNCHANGED <<step, kind, late>>

Stop ==
    /\ StopAgent
    /\ passing' = (passing /\ pc' = "validate")
    /\ UNCHANGED <<step, kind, run, metrics, late>>

-------------------------------------------------------------------------------
(* Validate.                                                               *)

\* validateAccessDenied, of the group's own role, and
\* validateFoundConfusedDeputyHeaders, which looks at no role.
AccessDenied == [what |-> "denied", role |-> G.role] \in host["log"]

FoundConfusedDeputyHeaders == \E e \in host["log"] : e.what = "asked with both"

\* Slips: a refusal is read off the log alone; the headers are looked for in
\* every group.
ExpectedByLog(shown) == IF G.fails THEN AccessDenied ELSE shown /\ FoundConfusedDeputyHeaders
ExpectedHeaders(shown) == shown = ~G.fails /\ FoundConfusedDeputyHeaders

\* No metrics and a refusal, or metrics and the headers.
Expected(shown) ==
    IF G.fails THEN ~shown /\ AccessDenied ELSE shown /\ FoundConfusedDeputyHeaders

Validate ==
    /\ pc = "validate" /\ pc' = "cleanup"
    /\ \/ passing' = (passing /\ Expected(G.name \in metrics)) /\ UNCHANGED late
       \/ /\ G.name \in metrics
          /\ passing' = (passing /\ Expected(FALSE)) /\ late' = TRUE
       \/ passing' = FALSE /\ late' = TRUE              \* no answer, no file
    /\ UNCHANGED <<process, current, host, agent, cleanupFns, slipped, step, kind, run,
                   metrics>>

\* Nobody asks for the namespace of a group that is over.
NextGroup ==
    /\ EndGroup(Len(groups))
    /\ metrics' = metrics \ {G.name}
    /\ UNCHANGED <<step, kind, run, passing, late>>

\* Bound: a process that starts anew does so after the ten minutes that Fetch
\* looks back.
Again ==
    /\ Rerun(host)
    /\ step' = 1 /\ metrics' = {} /\ passing' = TRUE /\ late' = FALSE
    /\ UNCHANGED <<kind, run>>

ArNext == SetUp \/ SetUpFails \/ Start \/ Stop \/ Validate \/ NextGroup \/ Again

ArSpec == ArInit /\ [][ArNext]_arVars

-------------------------------------------------------------------------------
(* Properties                                                              *)

\* Whatever groups and processes left behind, an agent that is about to be
\* judged runs with the environment, the role and the namespace of its group,
\* and the log tells of this run only ("we don't want logs from another test
\* being checked", assume_role_unix.go:571).
OwnIdentity ==
    pc = "running" =>
        /\ run = [account |-> G.account, arn |-> G.arn, role |-> G.role, ns |-> G.name]
        /\ host["log"] = Logged(run)

\* The seven groups together tell the kinds of agents apart: only one that
\* names whom it acts for, exactly when it is told, gets through all of them.
OnlyGoodPasses == pc = "finished" /\ passing /\ ~late => kind = "good"

\* A good agent is not failed by what a group before it did: no verdict spoils
\* a suite that has passed so far, unless CloudWatch was late or a call failed.
GoodStaysPassing == pc = "validate" /\ kind = "good" /\ passing => passing' \/ late'

GoodIsNotFailed == [][GoodStaysPassing]_arVars

-------------------------------------------------------------------------------
(* The inductive invariant of OwnIdentity.                                 *)

\* The first n steps of the setup have their effect.
Prepared(n) ==
    /\ n >= 2 => host["account"] = G.account
    /\ n >= 3 => host["arn"] = G.arn
    /\ n >= 4 => host["loaded account"] = G.account /\ host["loaded arn"] = G.arn
    /\ n >= 5 => host["log"] = {}
    /\ n >= 7 => host["config"] = G.role
    /\ n >= 8 => host["namespace"] = G.name

ArInv ==
    /\ ArTypeOK
    /\ host = [p \in Places |-> host[p]]
    /\ IF pc = "setup" THEN Prepared(step - 1) ELSE step = 1
    /\ pc = "start" => Prepared(Len(Steps))
    /\ OwnIdentity

===============================================================================
