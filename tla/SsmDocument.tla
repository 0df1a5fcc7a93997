------------------------------ MODULE SsmDocument ------------------------------
(***************************************************************************)
(* The test of the SSM document that manages the agent (test/ssm_document):*)
(* a sequence of cases, each of which sends a command, polls until it has  *)
(* ended (WaitForCommandCompletion, util/awsservice/ssm.go), sends a second*)
(* one that asks for the agent's status, and compares.  The document and   *)
(* the parameters the cases need are deleted when Validate returns, on     *)
(* whichever path.                                                         *)
(*                                                                         *)
(* The service and the host are external: a command runs when it likes, may*)
(* fail, may end after its waiter has given up, and may report a success   *)
(* that had no effect.                                                     *)
(***************************************************************************)
EXTENDS Naturals, Sequences, SequencesExt, FiniteSets

CONSTANTS MaxPolls    \* polls until a deadline, of any of the waits

VARIABLES
    at,          \* where Validate is
    case,        \* the test case, from 1
    polls,       \* of the current wait
    awaited,     \* the command it is about
    outcome,     \* how that command has ended on the host
    seen,        \* the status a status command has printed
    deferred,    \* deferred deletions, in the order of the defers
    verdict,     \* what Validate returns
    live,        \* commands sent that have not ended
    managed,     \* the host: agent, config, env
    resources,   \* the document and the parameters in the account
    lies,        \* history: cases whose command claimed an effect it lacked
    hurt,        \* history: the service or the host failed
    orphaned     \* history: a deletion failed, or a creation that took effect

validateVars == <<at, case, polls, awaited, deferred, verdict>>
hostVars == <<outcome, seen, live, managed, lies>>
ssmVars == <<validateVars, hostVars, resources, hurt, orphaned>>

-------------------------------------------------------------------------------
(* The test cases.                                                         *)

NoParameter == "none"

Status(do, put, agent, config) ==
    [do |-> do, kind |-> "status", put |-> put, agent |-> agent,
     config |-> config, env |-> <<"", "">>]
SetEnv(do, env) ==
    [Status(do, NoParameter, "running", "configured") EXCEPT
        !.kind = "output", !.env = env]
Refused(do, kind) == [Status(do, NoParameter, "", "") EXCEPT !.kind = kind]

Cases == <<
    Status("start", NoParameter, "running", "configured"),
    Status("stop", NoParameter, "stopped", "configured"),
    Status("remove", NoParameter, "stopped", "not configured"),
    Status("configure", "agentConfig1", "running", "configured"),
    Status("append", "agentConfig2", "running", "configured"),
    SetEnv("set 1", <<"value 1", "">>),
    SetEnv("set 2", <<"value 1", "value 2">>),
    SetEnv("overwrite 1", <<"overwritten", "value 2">>),
    Refused("pattern", "reject"), Refused("backtick", "reject"),
    Refused("key", "reject"),
    Refused("empty", "failure") >>

Case == Cases[case]

Commands == [case : DOMAIN Cases, do : {Cases[i].do : i \in DOMAIN Cases} \cup {"status"}]
NoCommand == [case |-> 1, do |-> "status"]

SsmTypeOK ==
    /\ at \in {"register", "create", "next", "send", "wait", "confirm", "status",
               "waitStatus", "env", "cleanup", "returned"}
    /\ case \in DOMAIN Cases /\ polls \in 0 .. MaxPolls
    /\ awaited \in Commands /\ live \subseteq Commands
    /\ outcome \in {"running", "success", "failed", "timedout"}
    /\ Range(deferred) \subseteq {"document", "agentConfig1", "agentConfig2"}
    /\ resources \subseteq {"document", "agentConfig1", "agentConfig2"}
    /\ verdict \in {"none", "pass", "fail"}
    /\ lies \subseteq DOMAIN Cases
    /\ {hurt, orphaned} \subseteq BOOLEAN

SsmInit ==
    /\ at = "register" /\ case = 1 /\ polls = 0 /\ awaited = NoCommand
    /\ outcome = "success" /\ seen = <<"", "">> /\ deferred = <<>>
    /\ verdict = "none" /\ live = {} /\ resources = {}
    /\ managed \in [agent : {"running", "stopped"}, config : {{"default"}},
                   env : {<<"", "">>, <<"overwritten", "value 2">>}]
    /\ lies = {} /\ hurt = FALSE /\ orphaned = FALSE

-------------------------------------------------------------------------------
(* Ways on and out.                                                        *)

Fail == at' = "cleanup" /\ verdict' = "fail" /\ UNCHANGED <<case, polls>>

Go(where) == at' = where /\ polls' = 0 /\ UNCHANGED <<case, verdict>>

NextCase ==
    IF case < Len(Cases)
    THEN case' = case + 1 /\ at' = "next" /\ polls' = 0 /\ UNCHANGED verdict
    ELSE at' = "cleanup" /\ verdict' = "pass" /\ UNCHANGED <<case, polls>>

-------------------------------------------------------------------------------
(* WaitForSSMReady looks at its deadline before it polls.                  *)

Register ==
    /\ at = "register"
    /\ \/ polls < MaxPolls /\ Go("create") /\ UNCHANGED hurt
       \/ polls < MaxPolls /\ polls' = polls + 1 /\ UNCHANGED <<at, case, verdict, hurt>>
       \/ polls = MaxPolls /\ Fail /\ hurt' = TRUE
    /\ UNCHANGED <<awaited, deferred, hostVars, resources, orphaned>>

\* Create a resource and defer its deletion.  A call that fails may have taken
\* effect, and nothing is deferred then.
Create(resource, next) ==
    /\ \/ /\ resources' = resources \cup {resource}
          /\ deferred' = Append(deferred, resource)
          /\ Go(next) /\ UNCHANGED <<hurt, orphaned>>
       \/ /\ \/ UNCHANGED <<resources, orphaned>>
             \/ resources' = resources \cup {resource} /\ orphaned' = TRUE
          /\ Fail /\ hurt' = TRUE /\ UNCHANGED deferred
    /\ UNCHANGED <<awaited, hostVars>>

CreateDocument == at = "create" /\ Create("document", "next")

\* Slip: the deletion is not deferred before the case has passed.
PutUndeferred ==
    /\ at = "next" /\ Case.put # NoParameter
    /\ resources' = resources \cup {Case.put} /\ Go("send")
    /\ UNCHANGED <<awaited, deferred, hostVars, hurt, orphaned>>

PutParameter == at = "next" /\ Case.put # NoParameter /\ Create(Case.put, "send")

NoPut ==
    /\ at = "next" /\ Case.put = NoParameter
    /\ Go("send")
    /\ UNCHANGED <<awaited, deferred, hostVars, resources, hurt, orphaned>>

Start(do) ==
    LET c == [case |-> case, do |-> do]
    IN  awaited' = c /\ live' = live \cup {c} /\ outcome' = "running"

\* Slip: the deletion of the parameter is deferred by a helper that only sends.
SendDeletes ==
    /\ at = "send" /\ Start(Case.do) /\ Go("wait")
    /\ resources' = resources \ {Case.put}
    /\ UNCHANGED <<deferred, seen, managed, lies, hurt, orphaned>>

\* SendCommand: a value that the document does not allow has to be refused.
Send ==
    /\ at = "send"
    /\ \/ Case.kind # "reject" /\ Start(Case.do) /\ Go("wait") /\ UNCHANGED hurt
       \/ Case.kind = "reject" /\ NextCase /\ UNCHANGED <<awaited, live, outcome, hurt>>
       \/ Case.kind = "reject" /\ Start(Case.do) /\ Fail /\ hurt' = TRUE
       \/ Fail /\ hurt' = TRUE /\ UNCHANGED <<awaited, live, outcome>>
    /\ UNCHANGED <<deferred, seen, managed, lies, resources, orphaned>>

SendStatus ==
    /\ at = "status"
    /\ \/ Start("status") /\ Go("waitStatus") /\ UNCHANGED hurt
       \/ Fail /\ hurt' = TRUE /\ UNCHANGED <<awaited, live, outcome>>
    /\ UNCHANGED <<deferred, seen, managed, lies, resources, orphaned>>

-------------------------------------------------------------------------------
(* WaitForCommandCompletion looks at its deadline after it has polled.     *)

Waiting == at \in {"wait", "confirm", "waitStatus"}

waitUnchanged == <<awaited, deferred, hostVars, resources, orphaned>>

\* Slip: a command that is not listed yet has nothing to wait for.
NotYetImpatient == Waiting /\ at = "wait" /\ Go("status") /\ UNCHANGED <<hurt, waitUnchanged>>

\* Slip: the deadline is set anew before every other poll.
NotYetForever ==
    /\ Waiting
    /\ polls' = (polls + 1) % MaxPolls
    /\ UNCHANGED <<at, case, verdict, hurt, waitUnchanged>>

\* No invocation is listed yet, or it is shown as pending or in progress.
NotYet ==
    /\ Waiting /\ polls < MaxPolls
    /\ polls' = polls + 1
    /\ UNCHANGED <<at, case, verdict, hurt, waitUnchanged>>

\* The deadline has passed, or the service has answered with an error.
GiveUpWaiting ==
    /\ Waiting
    /\ Fail /\ hurt' = TRUE
    /\ UNCHANGED waitUnchanged

\* The terminal status a wait has to end with to go on.
Proceed == IF Case.kind = "failure" THEN {"failed"} ELSE {"success"}

\* Where a wait that ended well leads to: output is checked before status.
Onward ==
    IF Case.kind = "failure" THEN NextCase
    ELSE Go(CASE at = "waitStatus" -> "env"
              [] at = "wait" /\ Case.kind = "output" -> "confirm"
              [] OTHER -> "status")

Terminal ==
    /\ Waiting
    /\ \/ outcome \in Proceed /\ Onward
       \/ outcome \notin Proceed \cup {"running"} /\ Fail
    /\ UNCHANGED <<hurt, waitUnchanged>>

\* The output of the command is not what it should be.
WrongOutput ==
    /\ at = "wait" /\ Case.kind # "status" /\ outcome \in Proceed
    /\ Fail /\ hurt' = TRUE
    /\ UNCHANGED waitUnchanged

-------------------------------------------------------------------------------
(* verifyAgentAction and verifyEnvConfigContent.                           *)

\* Slips: one of the two states; the new key only.
StatusOKAgent == seen[1] = Case.agent
EnvOKNew == \E k \in 1 .. 2 : managed.env[k] = Case.env[k]

StatusOK == seen = <<Case.agent, Case.config>>

\* Every expected key has its value; a case that sets none looks at none.
EnvOK == \A k \in 1 .. 2 : Case.env[k] # "" => managed.env[k] = Case.env[k]

\* The file may be unreadable.
Verify ==
    /\ at = "env"
    /\ \/ StatusOK /\ EnvOK /\ NextCase /\ UNCHANGED hurt
       \/ ~(StatusOK /\ EnvOK) /\ Fail /\ UNCHANGED hurt
       \/ Case.kind = "output" /\ Fail /\ hurt' = TRUE
    /\ UNCHANGED waitUnchanged

\* The deferred deletions, last first; a failure is logged.
Undo ==
    /\ at = "cleanup" /\ deferred # <<>>
    /\ deferred' = Front(deferred)
    /\ \/ resources' = resources \ {Last(deferred)} /\ UNCHANGED orphaned
       \/ orphaned' = TRUE /\ UNCHANGED resources
    /\ UNCHANGED <<at, case, polls, awaited, verdict, hostVars, hurt>>

Return ==
    /\ at = "cleanup" /\ deferred = <<>>
    /\ at' = "returned"
    /\ UNCHANGED <<case, polls, verdict, hurt, waitUnchanged>>

-------------------------------------------------------------------------------
(* The host (external).                                                    *)

\* What a command does to the host if it does what it should.
Effect(do) ==
    CASE do = "start" ->
            [managed EXCEPT !.agent = "running",
                            !.config = IF @ = {} THEN {"default"} ELSE @]
      [] do = "stop" -> [managed EXCEPT !.agent = "stopped"]
      [] do = "remove" -> [managed EXCEPT !.config = {}]
      [] do = "configure" -> [managed EXCEPT !.agent = "running", !.config = {"agentConfig1"}]
      [] do = "append" -> [managed EXCEPT !.agent = "running",
                                          !.config = @ \cup {"agentConfig2"}]
      [] do = "set 1" -> [managed EXCEPT !.env[1] = "value 1"]
      [] do = "set 2" -> [managed EXCEPT !.env[2] = "value 2"]
      [] do = "overwrite 1" -> [managed EXCEPT !.env[1] = "overwritten"]
      [] OTHER -> managed

\* The document, and the parameter a configuring command reads.
Needs(c) ==
    {"document"} \cup (IF c.do \in {"configure", "append"} THEN {Cases[c.case].put} ELSE {})

Printed == <<managed.agent, IF managed.config = {} THEN "not configured" ELSE "configured">>

End(c, how) ==
    /\ live' = live \ {c}
    /\ IF c = awaited
       THEN outcome' = how /\ seen' = IF c.do = "status" THEN Printed ELSE seen
       ELSE UNCHANGED <<outcome, seen>>

Execute(c) ==
    /\ c \in live
    /\ \/ /\ c.do # "empty" /\ Needs(c) \subseteq resources
          /\ managed' = Effect(c.do) /\ End(c, "success")
          /\ UNCHANGED <<lies, hurt>>
       \/ c.do = "empty" /\ End(c, "failed") /\ UNCHANGED <<managed, lies, hurt>>
       \/ /\ c.do = "empty" \/ Effect(c.do) # managed
          /\ End(c, "success") /\ lies' = lies \cup {c.case}
          /\ UNCHANGED <<managed, hurt>>
       \/ /\ \E how \in {"failed", "timedout"} : End(c, how)
          /\ hurt' = TRUE /\ UNCHANGED <<managed, lies>>
    /\ UNCHANGED <<validateVars, resources, orphaned>>

ValidateStep ==
    \/ Register \/ CreateDocument \/ PutParameter \/ NoPut \/ Send \/ SendStatus
    \/ NotYet \/ GiveUpWaiting \/ Terminal \/ WrongOutput
    \/ Verify \/ Undo \/ Return

SsmNext == ValidateStep \/ \E c \in live : Execute(c)

SsmSpec == SsmInit /\ [][SsmNext]_ssmVars

(* Validate runs on, and its polls are bounded.  Nothing is asked of the   *)
(* service or of the host.                                                 *)
SsmFairSpec == SsmSpec /\ WF_ssmVars(ValidateStep)

-------------------------------------------------------------------------------
(* Properties                                                              *)

\* The cases do not overlap: no command, a status query included, is sent while
\* one sent before may still be at work on the host (WaitForCommandCompletion
\* before every further RunSSMDocument).
OneAtATime == Cardinality(live) <= 1

\* A pass is earned: a command that had no effect and says otherwise is found
\* out by the status or the file.  An appended configuration alone is not: the
\* agent was configured before.
PassIsTrue ==
    verdict = "pass" => \A i \in lies : Cases[i].do = "append"

\* A host and a service that do as they should are never failed: each case
\* leaves what the next one starts from ("State dependency", validate.go:140).
HealthyPasses == verdict = "fail" => hurt \/ lies # {}

\* What a command reads is not deleted under it, unless its waiter had to give
\* up on it (the defers of Validate).
NothingPulledAway == hurt \/ \A c \in live : Needs(c) \subseteq resources

\* helper.go:22: "so a failure in a later step never leaves a uniquely-named
\* parameter orphaned in the account", on every path out of Validate.
NothingLeft == at = "returned" /\ ~orphaned => resources = {}

\* Validate returns, whatever becomes of its commands.
ValidateReturns == <>(at = "returned")

-------------------------------------------------------------------------------
(* The inductive invariant of OneAtATime, NothingPulledAway and            *)
(* NothingLeft.                                                            *)

\* The command that may be at work is the one that is waited for.
OnlyAwaited ==
    /\ live \subseteq {awaited}
    /\ live # {} <=> outcome = "running"
    /\ live # {} => Waiting \/ at \in {"cleanup", "returned"}
    /\ live # {} /\ Waiting => awaited.case = case /\ awaited.do \in {Case.do, "status"}
    /\ live # {} /\ ~Waiting => hurt

\* What the commands of a case read is there while they may be sent or at work.
Provided ==
    /\ at \notin {"register", "create", "cleanup", "returned"} => "document" \in resources
    /\ (Waiting \/ at \in {"send", "status"}) /\ Case.put # NoParameter => Case.put \in resources

\* Whatever is there is going to be deleted.
Deferred ==
    /\ ~orphaned => resources \subseteq Range(deferred)
    /\ at = "returned" => deferred = <<>>

SsmInv ==
    /\ SsmTypeOK /\ deferred \in Seq({"document", "agentConfig1", "agentConfig2"})
    /\ OnlyAwaited /\ Provided /\ Deferred

===============================================================================
