-------------------------------- MODULE LogState --------------------------------
(***************************************************************************)
(* The log-state tests (test/log_state): a generator writes numbered lines *)
(* while the agent is stopped and restarted, then the log stream is read   *)
(* back and checked for lost and duplicated lines.                         *)
(*                                                                         *)
(* The agent and the service are external.  The agent is the system under  *)
(* test, so it may be at fault: an "exact" agent resumes where it stopped, *)
(* a "resend" agent uploads again what it had not yet recorded, a "restamp"*)
(* agent does so with a new timestamp, and a "skip" agent resumes at the   *)
(* end of the file.  The sleeps between the steps of Validate give the     *)
(* agent time but wait for nothing: any number of its steps fit in.        *)
(***************************************************************************)
EXTENDS LogReader, LogEvents, FiniteSets

CONSTANTS
    AgentKinds,   \* the agents the test may meet
    MaxSeq,       \* bound on the generator's sequence number
    MaxFailed     \* bound on its failed writes

ASSUME LogStateAssumption ==
    /\ MaxSeq \in Nat /\ MaxFailed \in Nat
    /\ AgentKinds \subseteq {"exact", "resend", "restamp", "skip"}
    /\ Unnumbered \notin Nat

VARIABLES
    hpc,       \* where Validate is
    gpc,       \* where Generate is
    cancelled, \* the generator's ctx
    seq,       \* sequenceNumber
    failed,    \* history: numbers whose write failed
    file,      \* the lines of the log file
    kind,      \* which agent this is
    up,        \* the agent runs
    cursor,    \* lines it has uploaded since it knows
    saved,     \* the offset it has recorded
    sent,      \* events uploaded and not visible yet
    clock,     \* timestamps for restamped events
    verdict    \* what Validate returns

harnessVars == <<hpc, cancelled, verdict>>
generatorVars == <<gpc, seq, failed, file>>
agentVars == <<kind, up, cursor, saved, sent, clock>>
streamVars == <<stream, exists>>
vars == <<harnessVars, generatorVars, agentVars, streamVars, readerVars>>

LogStateTypeOK ==
    /\ ReaderTypeOK
    /\ hpc \in {"fresh", "started", "generating", "down", "resumed",
                "cancelled", "drained", "reading", "done", "failed", "fatal"}
    /\ gpc \in {"off", "check", "write", "done"}
    /\ seq \in 0 .. MaxSeq /\ failed \subseteq 1 .. MaxSeq
    /\ \A i \in DOMAIN file : file[i] \in 1 .. MaxSeq \ failed
    /\ saved <= Len(file) /\ cursor <= Len(file)

Init ==
    /\ ReaderInit
    /\ stream = <<>> /\ exists = FALSE
    /\ hpc = "fresh" /\ cancelled = FALSE /\ verdict = "none"
    /\ gpc = "off" /\ seq = 0 /\ failed = {} /\ file = <<>>
    /\ kind \in AgentKinds
    /\ up = FALSE /\ cursor = 0 /\ saved = 0 /\ sent = <<>> /\ clock = MaxSeq

-------------------------------------------------------------------------------
(* Generator.Generate, and the writer it writes to.                        *)

\* ctx is not done and the limiter grants a line.
Grant ==
    /\ gpc = "check" /\ ~cancelled
    /\ seq < MaxSeq
    /\ gpc' = "write"
    /\ UNCHANGED <<seq, failed, file, harnessVars, agentVars, streamVars, readerVars>>

\* ctx is done, before the loop or while it waits for the limiter.
Quit ==
    /\ gpc = "check" /\ cancelled
    /\ gpc' = "done"
    /\ UNCHANGED <<seq, failed, file, harnessVars, agentVars, streamVars, readerVars>>

\* Slip: a failed write leaves its line in the file.
WriteAnyway ==
    /\ gpc = "write"
    /\ seq' = seq + 1
    /\ file' = Append(file, seq + 1)
    /\ \/ UNCHANGED failed
       \/ Cardinality(failed) < MaxFailed /\ failed' = failed \cup {seq + 1}
    /\ gpc' = "check"
    /\ UNCHANGED <<harnessVars, agentVars, streamVars, readerVars>>

\* The number is taken before the line is written, and not given back.
Write ==
    /\ gpc = "write"
    /\ seq' = seq + 1
    /\ \/ file' = Append(file, seq + 1) /\ UNCHANGED failed
       \/ /\ Cardinality(failed) < MaxFailed
          /\ failed' = failed \cup {seq + 1}
          /\ UNCHANGED file
    /\ gpc' = "check"
    /\ UNCHANGED <<harnessVars, agentVars, streamVars, readerVars>>

-------------------------------------------------------------------------------
(* The agent (external): tail the file, upload, record the offset.         *)

Stamp(n) == IF kind = "restamp" THEN clock + 1 ELSE n

Upload ==
    /\ up /\ cursor < Len(file)
    /\ sent' = Append(sent, Event(Stamp(file[cursor + 1]), file[cursor + 1]))
    /\ clock' = IF kind = "restamp" THEN clock + 1 ELSE clock
    /\ cursor' = cursor + 1
    /\ UNCHANGED <<kind, up, saved, harnessVars, generatorVars, streamVars, readerVars>>

Record ==
    /\ up /\ saved # cursor
    /\ saved' = cursor
    /\ UNCHANGED <<kind, up, cursor, sent, clock, harnessVars, generatorVars,
                   streamVars, readerVars>>

\* What stopping and starting do to the agent's offsets.
AgentStop ==
    /\ up' = FALSE
    /\ saved' = IF kind = "exact" THEN cursor ELSE saved
    /\ UNCHANGED <<kind, cursor, sent, clock>>

AgentStart ==
    /\ up' = TRUE
    /\ cursor' = IF kind = "skip" THEN Len(file) ELSE saved
    /\ saved' = cursor'
    /\ UNCHANGED <<kind, sent, clock>>

\* The service makes an uploaded event visible.
Reveal ==
    /\ sent # <<>>
    /\ stream' = Append(stream, Head(sent))
    /\ sent' = Tail(sent)
    /\ exists' = TRUE
    /\ UNCHANGED <<kind, up, cursor, saved, clock, harnessVars, generatorVars, readerVars>>

-------------------------------------------------------------------------------
(* Validate of test/log_state/common.                                      *)

\* StartAgent with fatalOnFailure: the process exits if the command fails.
StartAgent(from, to) ==
    /\ hpc = from
    /\ \/ AgentStart /\ hpc' = to
       \/ hpc' = "fatal" /\ UNCHANGED agentVars
    /\ UNCHANGED <<cancelled, verdict, generatorVars, streamVars, readerVars>>

StopAgent(from, to) ==
    /\ hpc = from
    /\ \/ AgentStop /\ hpc' = to
       \/ hpc' = "fatal" /\ UNCHANGED agentVars
    /\ UNCHANGED <<cancelled, verdict, generatorVars, streamVars, readerVars>>

\* gs.Init may fail, and Validate returns with the agent running.
Generate ==
    /\ hpc = "started"
    /\ \/ hpc' = "generating" /\ gpc' = "check"
       \/ hpc' = "failed" /\ UNCHANGED gpc
    /\ UNCHANGED <<cancelled, verdict, seq, failed, file, agentVars, streamVars, readerVars>>

CancelGenerator ==
    /\ hpc = "resumed"
    /\ cancelled' = TRUE
    /\ hpc' = "cancelled"
    /\ UNCHANGED <<verdict, generatorVars, agentVars, streamVars, readerVars>>

\* Slip: the generator is cancelled and not waited for.
DrainWithoutWait ==
    /\ hpc = "cancelled"
    /\ hpc' = "drained"
    /\ UNCHANGED <<cancelled, verdict, generatorVars, agentVars, streamVars, readerVars>>

\* wg.Wait()
Drain ==
    /\ hpc = "cancelled" /\ gpc = "done"
    /\ hpc' = "drained"
    /\ UNCHANGED <<cancelled, verdict, generatorVars, agentVars, streamVars, readerVars>>

\* ValidateLogs: read the stream ...
Read ==
    /\ hpc = "reading"
    /\ StartRead
    /\ UNCHANGED <<harnessVars, generatorVars, agentVars>>

Reading == ReaderStep /\ UNCHANGED <<harnessVars, generatorVars, agentVars>>

\* ... and judge the events, unless reading failed.
Judge ==
    /\ hpc = "reading"
    /\ rpc \in {"ok", "notfound", "error"}
    /\ verdict' = IF rpc = "ok" THEN Verdict(events) ELSE rpc
    /\ hpc' = "done"
    /\ UNCHANGED <<cancelled, generatorVars, agentVars, streamVars, readerVars>>

-------------------------------------------------------------------------------

HarnessStep ==
    \/ StartAgent("fresh", "started") \/ Generate
    \/ StopAgent("generating", "down") \/ StartAgent("down", "resumed")
    \/ CancelGenerator \/ Drain
    \/ StopAgent("drained", "reading") \/ Read \/ Judge

\* log.Fatal takes the generator down with the process; the agent lives on.
GeneratorStep == hpc # "fatal" /\ (Grant \/ Quit \/ Write)

Next ==
    \/ HarnessStep \/ Reading
    \/ GeneratorStep
    \/ Upload \/ Record \/ Reveal

Spec == Init /\ [][Next]_vars

(* The harness's own goroutines run; nothing is asked of the agent or of   *)
(* how soon the service shows an event.  A granted line is written and a   *)
(* cancelled ctx is noticed, but the limiter need not grant.               *)
Fairness ==
    /\ WF_vars(HarnessStep)
    /\ WF_vars(Reading)
    /\ WF_vars(hpc # "fatal" /\ (Quit \/ Write))

FairSpec == Spec /\ Fairness

-------------------------------------------------------------------------------
(* Properties                                                              *)

Numbers == {e.msg : e \in Range(events)} \ {Unnumbered}

\* The lines of the file that lie between two numbers that were read.
Between == {n \in Range(file) : \E a, b \in Numbers : a < n /\ n < b}

\* A passing test is right: every line that was written between two lines of
\* the stream was delivered, and none twice, unless the agent restamps what it
\* sends again (ValidateLogs with the three assertions).
PassIsTrue ==
    verdict = "pass" /\ kind # "restamp" =>
        /\ Between \subseteq Numbers
        /\ Len(events) = Cardinality(Numbers)

\* A failing test is right: an exact agent, with no write that failed, is
\* never accused of losing or repeating a line, however reading interleaves
\* with events that become visible.
ExactAgentPasses ==
    kind = "exact" /\ failed = {} => verdict \notin {"missing", "duplicate", "panic"}

\* Reading a growing stream page by page returns every event that was visible
\* when it began, in order and once (GetLogsSince).
ReadComplete ==
    rpc = "ok" => /\ events = SubSeq(stream, 1, Len(events))
                  /\ Len(events) >= atCall

\* A stream that is not there is given every retry, and no more, before the
\* read fails with not found (GetLogsSince).
NotFoundIsPatient ==
    /\ waits <= StandardRetries
    /\ rpc = "notfound" => waits = StandardRetries

\* Once wg.Wait has returned no line is written any more: the agent's last
\* flush and the read see the whole file (Validate).
FileFrozen ==
    [][file' # file => hpc \notin {"drained", "reading", "done"}]_vars

\* Validate ends, whatever the agent and the service do.
ValidateEnds == <>(hpc \in {"done", "failed", "fatal"})

===============================================================================
