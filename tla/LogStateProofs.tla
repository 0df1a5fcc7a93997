----------------------------- MODULE LogStateProofs -----------------------------
(***************************************************************************)
(* Proofs about LogState and the reader it is composed with, for every     *)
(* page size, number of retries, length of the log and kind of agent.      *)
(* What LogEventsProofs proves of the assertions on a stream makes the     *)
(* verdict right both ways.                                                *)
(***************************************************************************)
EXTENDS LogState, LogEventsProofs, FiniteSetTheorems, SequenceTheorems, TLAPS

-------------------------------------------------------------------------------
(* The inductive invariant.                                                *)

LineEvents == [ts : Nat, msg : Nat]

Typed ==
    /\ LogStateTypeOK
    /\ {stream, sent, events} \subseteq Seq(LineEvents)
    /\ file \in Seq(Nat)
    /\ saved \in Nat /\ cursor \in Nat /\ clock \in Nat
    /\ up \in BOOLEAN

\* Lines are numbered in order, a line that failed never shows up, and the
\* generator is over once it was waited for.
GeneratorInv ==
    /\ gpc = "write" => seq < MaxSeq
    /\ failed \subseteq 1 .. seq
    /\ \A i \in DOMAIN file : file[i] <= seq
    /\ \A i, j \in DOMAIN file : i < j => file[i] < file[j]
    /\ hpc \in {"drained", "reading", "done"} => gpc = "done"

\* The reader has the stream up to its position, and stops no earlier than the
\* end it had at first.  Until the stream exists every attempt but the last was
\* a wait.
ReaderInv ==
    /\ Position <= Len(stream) /\ events = SubSeq(stream, 1, Position)
    /\ atCall <= Len(stream) /\ (rpc = "ok" => atCall <= Position)
    /\ ~exists /\ rpc \in {"idle", "reading", "asleep"} => attempts = waits
    /\ NotFoundIsPatient

\* An agent that does not restamp leaves every line its number.
StampedByLine ==
    kind # "restamp" =>
        /\ \A i \in DOMAIN stream : stream[i].ts = stream[i].msg
        /\ \A i \in DOMAIN sent : sent[i].ts = sent[i].msg

\* An exact agent delivers the file from its first line on.
InOrder ==
    kind = "exact" =>
        /\ hpc \in {"fresh", "down"} => ~up
        /\ up \/ saved = cursor
        /\ Len(stream) + Len(sent) = cursor
        /\ \A i \in DOMAIN stream : stream[i].msg = file[i]
        /\ \A i \in DOMAIN sent : sent[i].msg = file[Len(stream) + i]

\* What was judged is what was read.
Judged ==
    /\ hpc = "done" => rpc \in {"ok", "notfound", "error"}
    /\ verdict = "pass" => hpc = "done" /\ rpc = "ok" /\ IsInjective(events)
    /\ kind = "exact" => verdict # "duplicate"

\* Without a failed write the file is 1, 2, 3 ...
FileUnbroken == failed = {} => Len(file) = seq /\ \A i \in DOMAIN file : file[i] = i

\* The verdict is what AssertNoMissingLogs made of the events, and an exact
\* agent whose lines were all written has passed it.
JudgedRight ==
    /\ verdict = "pass" => NoMissingLogs(events) = "pass"
    /\ ExactAgentPasses

IInv ==
    /\ Typed /\ GeneratorInv /\ ReaderInv
    /\ StampedByLine /\ InOrder /\ Judged
    /\ FileUnbroken /\ JudgedRight

-------------------------------------------------------------------------------
(* Facts that the steps need.                                              *)

LEMMA ConstantTypes ==
    /\ StandardRetries \in Nat /\ PageSize \in Nat /\ MaxEmpty \in Nat
    /\ MaxSeq \in Nat /\ MaxFailed \in Nat /\ Unnumbered \notin Nat
BY ReaderAssumption, LogStateAssumption

\* What the invariant says of the types, as the steps need it.
LEMMA InvTypes ==
    ASSUME Typed
    PROVE  /\ stream \in Seq(LineEvents) /\ sent \in Seq(LineEvents)
           /\ events \in Seq(LineEvents) /\ file \in Seq(Nat)
           /\ Len(stream) \in Nat /\ Len(sent) \in Nat /\ Len(file) \in Nat
           /\ DOMAIN stream = 1 .. Len(stream) /\ DOMAIN sent = 1 .. Len(sent)
           /\ DOMAIN file = 1 .. Len(file)
           /\ seq \in Nat /\ seq <= MaxSeq /\ cursor \in Nat /\ saved \in Nat /\ clock \in Nat
           /\ cursor <= Len(file) /\ saved <= Len(file) /\ atCall \in Nat
           /\ attempts \in Nat /\ waits \in Nat
           /\ Position \in Nat /\ Empties \in 0 .. MaxEmpty
<1>1. /\ stream \in Seq(LineEvents) /\ sent \in Seq(LineEvents)
      /\ events \in Seq(LineEvents) /\ file \in Seq(Nat)
  BY DEF Typed
<1>2. Position \in Nat /\ Empties \in 0 .. MaxEmpty
  BY ConstantTypes DEF Typed, LogStateTypeOK, ReaderTypeOK, Tokens, Position, Empties
<1>3. seq \in Nat /\ seq <= MaxSeq
  BY ConstantTypes DEF Typed, LogStateTypeOK
<1> QED
  BY <1>1, <1>2, <1>3, LenProperties DEF Typed, LogStateTypeOK, ReaderTypeOK

LEMMA EventFacts ==
    ASSUME NEW t \in Nat, NEW n \in Nat
    PROVE  Event(t, n) \in LineEvents /\ Event(t, n).ts = t /\ Event(t, n).msg = n
BY DEF Event, LineEvents

-------------------------------------------------------------------------------
(* Initially.                                                              *)

LEMMA InvInit == Init => IInv
<1> SUFFICES ASSUME Init PROVE IInv
  OBVIOUS
<1>1. Typed
  <2>1. /\ << >> \in Seq(LineEvents) /\ << >> \in Seq(Nat) /\ Len(<< >>) = 0
        /\ \A i \in DOMAIN << >> : FALSE
    BY EmptySeq
  <2>2. stream = << >> /\ sent = << >> /\ events = << >> /\ file = << >>
    BY DEF Init, ReaderInit
  <2>3. ReaderTypeOK
    BY DEF Init, ReaderInit, ReaderTypeOK
  <2>4. LogStateTypeOK
    <3>1. seq \in 0 .. MaxSeq /\ failed \subseteq 1 .. MaxSeq
      BY ConstantTypes DEF Init
    <3>2. saved <= Len(file) /\ cursor <= Len(file)
      BY <2>1, <2>2 DEF Init
    <3> QED
      BY <2>1, <2>2, <2>3, <3>1, <3>2 DEF Init, LogStateTypeOK
  <2>5. saved \in Nat /\ cursor \in Nat /\ clock \in Nat /\ up \in BOOLEAN
    BY ConstantTypes DEF Init
  <2> QED
    BY <2>1, <2>2, <2>4, <2>5 DEF Typed
<1>2. GeneratorInv /\ Judged /\ StampedByLine /\ InOrder
  BY DEF Init, ReaderInit, GeneratorInv, Judged, StampedByLine, InOrder
<1>4. FileUnbroken /\ JudgedRight
  <2>1. Len(<< >>) = 0 /\ DOMAIN << >> = {}
    BY EmptySeq
  <2> QED
    BY <2>1 DEF Init, FileUnbroken, JudgedRight, ExactAgentPasses
<1>3. ReaderInv
  <2>1. Position = 0 /\ SubSeq(stream, 1, 0) = << >> /\ Len(stream) = 0
    BY EmptySeq, SubSeqEmpty DEF Init, ReaderInit, Position
  <2> QED
    BY <2>1, ConstantTypes DEF Init, ReaderInit, ReaderInv, NotFoundIsPatient
<1> QED
  BY <1>1, <1>2, <1>3, <1>4 DEF IInv

-------------------------------------------------------------------------------
(* Types.                                                                  *)

LEMMA WriteTyped == ASSUME Typed, GeneratorInv, Write PROVE Typed'
<1>1. seq < MaxSeq /\ seq' = seq + 1 /\ gpc' = "check"
  BY DEF Write, GeneratorInv
<1>2. UNCHANGED <<harnessVars, agentVars, streamVars, readerVars>>
  BY DEF Write
<1>3. seq \in Nat /\ seq' \in 0 .. MaxSeq /\ seq + 1 \in 1 .. MaxSeq
  <2>1. seq \in Nat /\ MaxSeq \in Nat
    BY InvTypes, ConstantTypes
  <2> QED
    BY <1>1, <2>1
<1>4. CASE file' = Append(file, seq + 1) /\ failed' = failed
  <2>1. /\ file' \in Seq(Nat) /\ Len(file') = Len(file) + 1
        /\ \A i \in 1 .. Len(file) : file'[i] = file[i]
        /\ file'[Len(file) + 1] = seq + 1
    BY <1>3, <1>4, InvTypes, AppendProperties
  <2>2. DOMAIN file' = 1 .. Len(file) + 1
    BY <2>1, LenProperties
  <2>3. seq + 1 \notin failed
    BY <1>3 DEF GeneratorInv
  <2>4. ASSUME NEW i \in DOMAIN file' PROVE file'[i] \in 1 .. MaxSeq \ failed
    <3>1. CASE i = Len(file) + 1
      BY <1>3, <2>1, <2>3, <3>1
    <3>2. CASE i \in 1 .. Len(file)
      <4>1. i \in DOMAIN file
        BY <3>2, InvTypes
      <4>2. \A j \in DOMAIN file : file[j] \in 1 .. MaxSeq \ failed
        BY DEF Typed, LogStateTypeOK
      <4> QED
        BY <1>4, <2>1, <3>2, <4>1, <4>2
    <3>3. Len(file) \in Nat /\ i \in 1 .. Len(file) + 1
      BY <2>2, <2>4, InvTypes
    <3> QED
      BY <3>1, <3>2, <3>3
  <2>5. saved <= Len(file') /\ cursor <= Len(file')
    <3>1. /\ saved \in Nat /\ cursor \in Nat /\ Len(file) \in Nat
          /\ saved <= Len(file) /\ cursor <= Len(file)
      BY InvTypes
    <3> QED
      BY <2>1, <3>1
  <2> QED
    BY <1>1, <1>2, <1>3, <1>4, <2>1, <2>4, <2>5 DEF Typed, LogStateTypeOK, ReaderTypeOK,
       harnessVars, agentVars, streamVars, readerVars
<1>5. CASE file' = file /\ failed' = failed \cup {seq + 1}
  <2>1. \A i \in DOMAIN file : file[i] # seq + 1
    BY <1>3, InvTypes DEF GeneratorInv
  <2> QED
    BY <1>1, <1>2, <1>3, <1>5, <2>1 DEF Typed, LogStateTypeOK, ReaderTypeOK,
       harnessVars, agentVars, streamVars, readerVars
<1> QED
  BY <1>4, <1>5 DEF Write

LEMMA AgentTyped == ASSUME Typed, Upload \/ Record \/ Reveal PROVE Typed'
<1>1. CASE Upload
  <2>1. file[cursor + 1] \in Nat /\ cursor + 1 \in Nat /\ cursor + 1 <= Len(file)
    <3>1. cursor < Len(file) /\ cursor \in Nat /\ Len(file) \in Nat /\ file \in Seq(Nat)
      BY <1>1, InvTypes DEF Upload
    <3>2. cursor + 1 \in 1 .. Len(file)
      BY <3>1
    <3> QED
      BY <3>1, <3>2, ElementOfSeq
  <2>2. Stamp(file[cursor + 1]) \in Nat /\ clock' \in Nat
    <3>1. clock \in Nat /\ clock + 1 \in Nat
      BY <1>1, InvTypes
    <3>2. clock' = clock + 1 \/ clock' = clock
      BY <1>1 DEF Upload
    <3> QED
      BY <2>1, <3>1, <3>2 DEF Stamp
  <2>3. sent' \in Seq(LineEvents)
    BY <1>1, <2>1, <2>2, InvTypes, EventFacts, AppendProperties DEF Upload
  <2> QED
    BY <1>1, <2>1, <2>2, <2>3 DEF Upload, Typed, LogStateTypeOK, ReaderTypeOK, harnessVars,
       generatorVars, streamVars, readerVars
<1>2. CASE Record
  BY <1>2 DEF Record, Typed, LogStateTypeOK, ReaderTypeOK, harnessVars,
     generatorVars, streamVars, readerVars
<1>3. CASE Reveal
  <2>1. sent' \in Seq(LineEvents) /\ stream' \in Seq(LineEvents)
    BY <1>3, InvTypes, HeadTailProperties, AppendProperties DEF Reveal
  <2> QED
    BY <1>3, <2>1 DEF Reveal, Typed, LogStateTypeOK, ReaderTypeOK, harnessVars,
       generatorVars, readerVars
<1> QED
  BY <1>1, <1>2, <1>3

LEMMA HarnessTyped ==
    ASSUME Typed, HarnessStep \/ Grant \/ Quit PROVE Typed'
<1>1. ASSUME UNCHANGED <<seq, failed, file, sent, clock, streamVars, nextToken, attempts,
                         events, waits>>,
             hpc' \in {"fresh", "started", "generating", "down", "resumed",
                       "cancelled", "drained", "reading", "done", "failed", "fatal"},
             gpc' \in {"off", "check", "write", "done"},
             rpc' \in {"idle", "reading", "asleep", "ok", "notfound", "error"},
             atCall' \in Nat, saved' \in Nat, cursor' \in Nat, up' \in BOOLEAN,
             saved' <= Len(file) /\ cursor' <= Len(file)
      PROVE  Typed'
  BY <1>1 DEF Typed, LogStateTypeOK, ReaderTypeOK, streamVars
<1>2. /\ saved \in Nat /\ cursor \in Nat /\ up \in BOOLEAN /\ atCall \in Nat
      /\ saved <= Len(file) /\ cursor <= Len(file) /\ Len(file) \in Nat /\ Len(stream) \in Nat
      /\ hpc \in {"fresh", "started", "generating", "down", "resumed",
                  "cancelled", "drained", "reading", "done", "failed", "fatal"}
      /\ gpc \in {"off", "check", "write", "done"}
      /\ rpc \in {"idle", "reading", "asleep", "ok", "notfound", "error"}
  BY InvTypes DEF Typed, LogStateTypeOK, ReaderTypeOK
<1>3. ASSUME NEW from, NEW to \in {"started", "resumed"}, StartAgent(from, to) PROVE Typed'
  <2>1. UNCHANGED <<sent, clock, generatorVars, streamVars, readerVars>>
    BY <1>3 DEF StartAgent, AgentStart, agentVars
  <2>2. hpc' \in {"started", "resumed", "fatal"}
    BY <1>3 DEF StartAgent
  <2>3. \/ saved' = saved /\ cursor' = cursor /\ up' = up
        \/ saved' = cursor' /\ up' = TRUE /\ cursor' \in {saved, Len(file)}
    BY <1>3 DEF StartAgent, AgentStart, agentVars
  <2>4. saved' \in Nat /\ cursor' \in Nat /\ saved' <= Len(file) /\ cursor' <= Len(file)
    BY <1>2, <2>3
  <2>5. up' \in BOOLEAN
    BY <1>2, <2>3
  <2> QED
    BY <1>1, <1>2, <2>1, <2>2, <2>4, <2>5 DEF generatorVars, readerVars
<1>4. ASSUME NEW from, NEW to \in {"down", "reading"}, StopAgent(from, to) PROVE Typed'
  BY <1>1, <1>2, <1>4 DEF StopAgent, AgentStop, agentVars, generatorVars, streamVars,
     readerVars
<1>5. CASE Generate \/ CancelGenerator \/ Drain \/ Judge
  BY <1>1, <1>2, <1>5 DEF Generate, CancelGenerator, Drain, Judge, agentVars, generatorVars,
     streamVars, readerVars
<1>6. CASE Read
  BY <1>1, <1>2, <1>6 DEF Read, StartRead, agentVars, generatorVars, harnessVars, streamVars
<1>7. CASE Grant \/ Quit
  BY <1>1, <1>2, <1>7 DEF Grant, Quit, agentVars, harnessVars, streamVars, readerVars
<1> QED
  BY <1>3, <1>4, <1>5, <1>6, <1>7 DEF HarnessStep

\* The page that ReadPage adds, and the token that comes with it.
LEMMA PageFacts ==
    ASSUME Typed, Position <= Len(stream), NEW to \in Position .. Len(stream)
    PROVE  /\ Page(to) \in Seq(LineEvents)
           /\ SubSeq(stream, 1, Position) \o Page(to) = SubSeq(stream, 1, to)
           /\ to = Position => Page(to) = << >>
<1>1. /\ stream \in Seq(LineEvents) /\ Position \in Nat /\ Len(stream) \in Nat
      /\ to \in Nat /\ Position <= to /\ to <= Len(stream)
  BY InvTypes
<1>2. \A i \in Position + 1 .. to : stream[i] \in LineEvents
  BY <1>1, ElementOfSeq
<1>3. Page(to) \in Seq(LineEvents)
  BY <1>1, <1>2, SubSeqProperties DEF Page
<1>4. SubSeq(stream, 1, Position) \o Page(to) = SubSeq(stream, 1, to)
  <2>1. /\ 1 \in 1 .. Len(stream) + 1 /\ Position \in 1 - 1 .. Len(stream)
        /\ to \in Position .. Len(stream)
    BY <1>1
  <2> QED
    BY <1>1, <2>1, ConcatAdjacentSubSeq DEF Page
<1>5. to = Position => Page(to) = << >>
  BY <1>1, SubSeqEmpty DEF Page
<1> QED
  BY <1>3, <1>4, <1>5

LEMMA TokenFacts ==
    ASSUME Typed, Position <= Len(stream), NEW to \in Position .. Len(stream),
           to = Position /\ Position < Len(stream) => Empties < MaxEmpty
    PROVE  /\ ForwardToken(to) \in Tokens /\ ForwardToken(to)[1] = to
           /\ ForwardToken(to) # NoToken
           /\ AtEnd(to) => to = Position /\ Position = Len(stream)
<1>1. /\ Position \in Nat /\ Len(stream) \in Nat /\ Empties \in 0 .. MaxEmpty
      /\ to \in Nat /\ Position <= to /\ to <= Len(stream) /\ MaxEmpty \in Nat
  BY InvTypes, ConstantTypes
<1>2. \/ to > Position /\ ForwardToken(to) = <<to, 0>>
      \/ to = Position /\ Position = Len(stream) /\ ForwardToken(to) = <<Position, Empties>>
      \/ /\ to = Position /\ Position < Len(stream)
         /\ ForwardToken(to) = <<Position, Empties + 1>>
  BY <1>1 DEF ForwardToken
<1>3. ForwardToken(to) \in Tokens /\ ForwardToken(to)[1] = to
  BY <1>1, <1>2 DEF Tokens
<1>4. ForwardToken(to) # NoToken
  BY <1>3, ReaderAssumption DEF Tokens
<1>5. ASSUME AtEnd(to) PROVE to = Position /\ Position = Len(stream)
  <2>1. Position = ForwardToken(to)[1] /\ Empties = ForwardToken(to)[2]
    BY <1>5 DEF AtEnd, Position, Empties
  <2> QED
    BY <1>1, <1>2, <2>1
<1> QED
  BY <1>3, <1>4, <1>5

LEMMA ReadingTyped == ASSUME Typed, Position <= Len(stream), Reading PROVE Typed'
<1>1. UNCHANGED <<harnessVars, generatorVars, agentVars, stream, exists, atCall>>
  BY DEF Reading, ReaderStep, ReadPage, NotFound, WakeUp, ReadError
<1>2. nextToken' \in Tokens \cup {NoToken} /\ events' \in Seq(LineEvents)
  <2>1. CASE ReadPage
    <3>1. PICK to \in Position .. Len(stream) :
             /\ to = Position /\ Position < Len(stream) => Empties < MaxEmpty
             /\ events' = events \o Page(to)
             /\ nextToken' \in {nextToken, ForwardToken(to)}
      BY <2>1 DEF ReadPage
    <3>2. events' \in Seq(LineEvents)
      BY <3>1, InvTypes, PageFacts, ConcatProperties
    <3> QED
      BY <3>1, <3>2, TokenFacts DEF Typed, LogStateTypeOK, ReaderTypeOK
  <2> QED
    BY <2>1 DEF Reading, ReaderStep, NotFound, WakeUp, ReadError, Typed, LogStateTypeOK,
       ReaderTypeOK
<1>3. /\ rpc' \in {"idle", "reading", "asleep", "ok", "notfound", "error"}
      /\ attempts' \in Nat /\ waits' \in Nat
  <2>1. /\ rpc' \in {rpc, "reading", "asleep", "ok", "notfound", "error"}
        /\ attempts' \in {attempts, attempts + 1} /\ waits' \in {waits, waits + 1}
    BY DEF Reading, ReaderStep, ReadPage, NotFound, WakeUp, ReadError
  <2>2. rpc \in {"idle", "reading", "asleep", "ok", "notfound", "error"}
    BY DEF Typed, LogStateTypeOK, ReaderTypeOK
  <2>3. attempts \in Nat /\ waits \in Nat
    BY InvTypes
  <2> QED
    BY <2>1, <2>2, <2>3
<1> QED
  BY <1>1, <1>2, <1>3 DEF Typed, LogStateTypeOK, ReaderTypeOK, harnessVars, generatorVars,
     agentVars

LEMMA TypedStep == ASSUME IInv, [Next]_vars PROVE Typed'
<1>1. CASE UNCHANGED vars
  BY <1>1 DEF vars, IInv, Typed, LogStateTypeOK, ReaderTypeOK, harnessVars, generatorVars,
     agentVars, streamVars, readerVars
<1> QED
  BY <1>1, WriteTyped, AgentTyped, HarnessTyped, ReadingTyped
  DEF Next, GeneratorStep, IInv, ReaderInv

-------------------------------------------------------------------------------
(* The generator.                                                          *)

LEMMA GeneratorKept == ASSUME IInv, [Next]_vars PROVE GeneratorInv'
<1>1. CASE Write
  <2>1. seq < MaxSeq /\ seq' = seq + 1 /\ gpc' = "check" /\ gpc = "write" /\ hpc' = hpc
    BY <1>1 DEF Write, IInv, GeneratorInv, harnessVars
  <2>2. seq \in Nat /\ hpc \notin {"drained", "reading", "done"}
    BY <2>1, InvTypes DEF IInv, GeneratorInv
  <2>3. CASE file' = Append(file, seq + 1) /\ failed' = failed
    <3>1. /\ Len(file) \in Nat /\ DOMAIN file = 1 .. Len(file)
          /\ DOMAIN file' = 1 .. Len(file) + 1
          /\ \A i \in 1 .. Len(file) : file'[i] = file[i]
          /\ file'[Len(file) + 1] = seq + 1
      BY <2>2, <2>3, InvTypes, AppendProperties, LenProperties DEF IInv
    <3>2. \A i \in DOMAIN file : file[i] <= seq /\ file[i] \in Nat
      BY InvTypes, ElementOfSeq DEF IInv, GeneratorInv
    <3>3. \A i \in DOMAIN file' : file'[i] <= seq'
      BY <2>1, <2>2, <3>1, <3>2
    <3>4. ASSUME NEW i \in DOMAIN file', NEW j \in DOMAIN file', i < j
          PROVE  file'[i] < file'[j]
      <4>1. i \in 1 .. Len(file)
        BY <3>1, <3>4
      <4>2. CASE j \in 1 .. Len(file)
        BY <3>1, <3>4, <4>1, <4>2 DEF IInv, GeneratorInv
      <4>3. CASE j = Len(file) + 1
        BY <2>2, <3>1, <3>2, <4>1, <4>3
      <4> QED
        BY <3>1, <4>2, <4>3
    <3>5. failed' \subseteq 1 .. seq'
      BY <2>1, <2>2, <2>3 DEF IInv, GeneratorInv
    <3> QED
      BY <2>1, <2>2, <3>3, <3>4, <3>5 DEF GeneratorInv
  <2>4. CASE file' = file /\ failed' = failed \cup {seq + 1}
    <3>1. ASSUME NEW i \in DOMAIN file PROVE file[i] <= seq'
      <4>1. file[i] <= seq
        BY DEF IInv, GeneratorInv
      <4>2. file[i] \in Nat
        BY InvTypes, ElementOfSeq DEF IInv
      <4> QED
        BY <2>1, <2>2, <4>1, <4>2
    <3>2. failed' \subseteq 1 .. seq'
      BY <2>1, <2>2, <2>4 DEF IInv, GeneratorInv
    <3> QED
      BY <2>1, <2>2, <2>4, <3>1, <3>2 DEF IInv, GeneratorInv
  <2> QED
    BY <1>1, <2>3, <2>4 DEF Write
<1>2. CASE UNCHANGED <<seq, failed, file>> /\ hpc' = hpc /\ (Grant \/ Quit)
  BY <1>2 DEF Grant, Quit, IInv, GeneratorInv
<1>3. ASSUME UNCHANGED <<seq, failed, file>>, gpc' \in {gpc, "check"}, gpc' = gpc \/ hpc' = "generating",
             \/ hpc' \notin {"drained", "reading", "done"}
             \/ hpc \in {"drained", "reading", "done"}
             \/ gpc' = "done"
      PROVE  GeneratorInv'
  BY <1>3 DEF IInv, GeneratorInv
<1>4. CASE HarnessStep
  BY <1>3, <1>4 DEF HarnessStep, StartAgent, StopAgent, Generate, CancelGenerator, Drain, Read,
     StartRead, Judge, generatorVars, harnessVars
<1>5. CASE Reading \/ Upload \/ Record \/ Reveal \/ UNCHANGED vars
  <2>1. UNCHANGED <<harnessVars, generatorVars>>
    BY <1>5 DEF Reading, Upload, Record, Reveal, vars
  <2> QED
    BY <1>3, <2>1 DEF harnessVars, generatorVars, IInv, GeneratorInv
<1> QED
  BY <1>1, <1>2, <1>4, <1>5 DEF Next, GeneratorStep, Grant, Quit, harnessVars

\* A line that is written is the next one; a number that fails ends the claim.
LEMMA FileUnbrokenKept == ASSUME IInv, [Next]_vars PROVE FileUnbroken'
<1>1. CASE Write
  <2>1. seq' = seq + 1 /\ seq \in Nat
    BY <1>1, InvTypes DEF Write, IInv
  <2>2. CASE file' = Append(file, seq + 1) /\ failed' = failed
    <3>1. /\ Len(file) \in Nat /\ DOMAIN file = 1 .. Len(file)
          /\ Len(file') = Len(file) + 1
          /\ DOMAIN file' = 1 .. Len(file) + 1
          /\ \A i \in 1 .. Len(file) : file'[i] = file[i]
          /\ file'[Len(file) + 1] = seq + 1
      BY <2>1, <2>2, InvTypes, AppendProperties, LenProperties DEF IInv
    <3>2. ASSUME failed = {} PROVE Len(file') = seq' /\ \A i \in DOMAIN file' : file'[i] = i
      <4>1. Len(file) = seq /\ \A i \in DOMAIN file : file[i] = i
        BY <3>2 DEF IInv, FileUnbroken
      <4> QED
        BY <2>1, <3>1, <4>1
    <3> QED
      BY <2>2, <3>2 DEF FileUnbroken
  <2>3. CASE failed' = failed \cup {seq + 1}
    BY <2>3 DEF FileUnbroken
  <2> QED
    BY <1>1, <2>2, <2>3 DEF Write
<1>2. ~Write => UNCHANGED <<seq, failed, file>>
  BY DEF Next, HarnessStep, GeneratorStep, StartAgent, StopAgent, Generate, CancelGenerator,
     Drain, Read, Judge, Reading, Grant, Quit, Upload, Record, Reveal, vars, generatorVars
<1> QED
  BY <1>1, <1>2 DEF IInv, FileUnbroken

-------------------------------------------------------------------------------
(* The reader.                                                             *)

\* A stream that grows keeps what was read of it.
LEMMA StreamGrows ==
    ASSUME Typed, NEW e \in LineEvents, NEW n \in 0 .. Len(stream)
    PROVE  SubSeq(Append(stream, e), 1, n) = SubSeq(stream, 1, n)
<1>1. /\ Append(stream, e) \in Seq(LineEvents) /\ Len(Append(stream, e)) = Len(stream) + 1
      /\ \A i \in 1 .. Len(stream) : Append(stream, e)[i] = stream[i]
      /\ stream \in Seq(LineEvents) /\ Len(stream) \in Nat /\ n \in Nat /\ n <= Len(stream)
  BY InvTypes, AppendProperties
<1> DEFINE a == SubSeq(Append(stream, e), 1, n)
           b == SubSeq(stream, 1, n)
<1>2. /\ \A i \in 1 .. n : Append(stream, e)[i] \in LineEvents
      /\ \A i \in 1 .. n : stream[i] \in LineEvents
  BY <1>1, ElementOfSeq
<1>3. /\ a \in Seq(LineEvents) /\ Len(a) = n
      /\ \A i \in 1 .. n : a[i] = Append(stream, e)[i]
  BY <1>1, <1>2, SubSeqProperties
<1>4. /\ b \in Seq(LineEvents) /\ Len(b) = n /\ \A i \in 1 .. n : b[i] = stream[i]
  BY <1>1, <1>2, SubSeqProperties
<1> HIDE DEF a, b
<1>5. a = b
  BY <1>1, <1>3, <1>4, SeqEqual
<1> QED
  BY <1>5 DEF a, b

LEMMA ReaderKept == ASSUME IInv, [Next]_vars PROVE ReaderInv'
<1>1. /\ Typed /\ ReaderInv /\ Position \in Nat /\ Len(stream) \in Nat
      /\ Position <= Len(stream) /\ atCall \in Nat /\ StandardRetries \in Nat
      /\ attempts \in Nat /\ waits \in Nat
  BY InvTypes, ConstantTypes DEF IInv, ReaderInv
<1>2. CASE ReadPage
  <2>1. PICK to \in Position .. Len(stream) :
           /\ to = Position /\ Position < Len(stream) => Empties < MaxEmpty
           /\ events' = events \o Page(to)
           /\ IF AtEnd(to) THEN rpc' = "ok" /\ nextToken' = nextToken
              ELSE nextToken' = ForwardToken(to) /\ rpc' = "reading"
    BY <1>2 DEF ReadPage
  <2>2. /\ UNCHANGED <<stream, exists, waits, atCall>> /\ exists /\ rpc = "reading"
    BY <1>2 DEF ReadPage
  <2>3. Position' = to
    BY <1>1, <2>1, TokenFacts DEF Position
  <2>4. events' = SubSeq(stream, 1, to)
    BY <1>1, <2>1, PageFacts DEF ReaderInv
  <2>5. rpc' = "ok" => to = Len(stream)
    BY <1>1, <2>1, TokenFacts
  <2>6. to <= Len(stream)
    BY <1>1
  <2>7. rpc' # "notfound"
    BY <2>1
  <2> QED
    BY <1>1, <2>2, <2>3, <2>4, <2>5, <2>6, <2>7 DEF ReaderInv, NotFoundIsPatient
<1>3. CASE NotFound
  <2>1. UNCHANGED <<stream, exists, nextToken, events, atCall>> /\ rpc' \in {"asleep", "notfound"}
    BY <1>3 DEF NotFound
  <2>2. attempts = waits /\ waits <= StandardRetries
    BY <1>1, <1>3 DEF NotFound, ReaderInv, NotFoundIsPatient
  <2>3. \/ rpc' = "asleep" /\ waits' = waits + 1 /\ attempts' = attempts + 1
           /\ attempts + 1 <= StandardRetries
        \/ rpc' = "notfound" /\ waits' = waits /\ ~(attempts + 1 <= StandardRetries)
    BY <1>3 DEF NotFound, RetriesLeft
  <2>4. /\ waits' <= StandardRetries /\ (rpc' = "notfound" => waits' = StandardRetries)
        /\ rpc' = "asleep" => attempts' = waits'
    BY <1>1, <2>2, <2>3
  <2> QED
    BY <1>1, <2>1, <2>4 DEF ReaderInv, NotFoundIsPatient, Position
<1>4. CASE WakeUp \/ ReadError
  BY <1>1, <1>4 DEF WakeUp, ReadError, ReaderInv, NotFoundIsPatient, Position
<1>5. CASE Read
  BY <1>1, <1>5 DEF Read, StartRead, ReaderInv, NotFoundIsPatient, Position
<1>6. CASE Reveal
  <2>1. Head(sent) \in LineEvents /\ stream' = Append(stream, Head(sent)) /\ exists'
    BY <1>1, <1>6, InvTypes, HeadTailProperties DEF Reveal
  <2>2. Len(stream') = Len(stream) + 1 /\ UNCHANGED readerVars
    BY <1>1, <1>6, <2>1, InvTypes, AppendProperties DEF Reveal
  <2>3. SubSeq(stream', 1, Position) = SubSeq(stream, 1, Position)
    BY <1>1, <2>1, StreamGrows
  <2> QED
    BY <1>1, <2>1, <2>2, <2>3 DEF ReaderInv, NotFoundIsPatient, Position, readerVars
<1>7. ASSUME UNCHANGED <<streamVars, readerVars>> PROVE ReaderInv'
  BY <1>1, <1>7 DEF ReaderInv, NotFoundIsPatient, Position, streamVars, readerVars
<1>8. CASE HarnessStep /\ ~Read
  BY <1>7, <1>8 DEF HarnessStep, StartAgent, StopAgent, Generate, CancelGenerator, Drain, Judge
<1>9. CASE GeneratorStep \/ Upload \/ Record \/ UNCHANGED vars
  BY <1>7, <1>9 DEF GeneratorStep, Grant, Quit, Write, Upload, Record, vars
<1> QED
  BY <1>2, <1>3, <1>4, <1>5, <1>6, <1>8, <1>9 DEF Next, Reading, ReaderStep

-------------------------------------------------------------------------------
(* The agent and the verdict.                                              *)

\* The agent: what a step does to its stream and offsets.
LEMMA AgentKept == ASSUME IInv, [Next]_vars PROVE StampedByLine' /\ InOrder'
<1>1. /\ Typed /\ cursor \in Nat /\ saved \in Nat /\ Len(stream) \in Nat /\ Len(sent) \in Nat
      /\ DOMAIN stream = 1 .. Len(stream) /\ DOMAIN sent = 1 .. Len(sent)
      /\ DOMAIN file = 1 .. Len(file) /\ Len(file) \in Nat /\ cursor <= Len(file)
  BY InvTypes DEF IInv
<1>2. CASE Upload
  <2> DEFINE e == Event(Stamp(file[cursor + 1]), file[cursor + 1])
  <2>1. /\ sent' = Append(sent, e) /\ cursor' = cursor + 1 /\ up /\ cursor < Len(file)
        /\ UNCHANGED <<kind, up, saved, hpc, file, stream>>
    BY <1>2 DEF Upload, harnessVars, generatorVars, streamVars
  <2>2. file[cursor + 1] \in Nat
    <3>1. cursor + 1 \in 1 .. Len(file) /\ file \in Seq(Nat)
      BY <1>1, <2>1, InvTypes
    <3> QED
      BY <3>1, ElementOfSeq
  <2>3. e \in LineEvents /\ e.msg = file[cursor + 1] /\ (kind # "restamp" => e.ts = e.msg)
    <3>1. clock + 1 \in Nat
      BY <1>1, InvTypes
    <3>2. /\ Stamp(file[cursor + 1]) \in Nat
          /\ kind # "restamp" => Stamp(file[cursor + 1]) = file[cursor + 1]
      BY <2>2, <3>1 DEF Stamp
    <3> QED
      BY <2>2, <3>2, EventFacts
  <2> HIDE DEF e
  <2>4. /\ DOMAIN sent' = 1 .. Len(sent) + 1 /\ Len(sent') = Len(sent) + 1
        /\ \A i \in 1 .. Len(sent) : sent'[i] = sent[i]
        /\ sent'[Len(sent) + 1] = e
    BY <1>1, <2>1, <2>3, InvTypes, AppendProperties, LenProperties
  <2>5. StampedByLine'
    BY <1>1, <2>1, <2>3, <2>4 DEF IInv, StampedByLine
  <2>6. ASSUME kind = "exact" PROVE InOrder'
    <3>1. Len(stream) + Len(sent) = cursor
      BY <2>6 DEF IInv, InOrder
    <3>2. Len(stream) + Len(sent') = cursor'
      BY <1>1, <2>1, <2>4, <3>1
    <3>3. Len(stream) + (Len(sent) + 1) = cursor + 1
      BY <1>1, <3>1
    <3>4. ASSUME NEW i \in DOMAIN sent' PROVE sent'[i].msg = file[Len(stream) + i]
      <4>1. CASE i \in 1 .. Len(sent)
        BY <1>1, <2>4, <2>6, <4>1 DEF IInv, InOrder
      <4>2. CASE i = Len(sent) + 1
        BY <2>3, <2>4, <3>3, <4>2
      <4> QED
        BY <1>1, <2>4, <4>1, <4>2
    <3> QED
      BY <2>1, <2>6, <3>2, <3>4 DEF IInv, InOrder
  <2> QED
    BY <2>1, <2>5, <2>6 DEF InOrder
<1>3. CASE Record
  BY <1>3 DEF Record, harnessVars, generatorVars, streamVars, IInv, StampedByLine, InOrder
<1>4. CASE Reveal
  <2>1. /\ stream' = Append(stream, Head(sent)) /\ sent' = Tail(sent) /\ sent # << >>
        /\ UNCHANGED <<kind, up, saved, cursor, hpc, file>>
    BY <1>4 DEF Reveal, harnessVars, generatorVars
  <2>2. /\ Head(sent) \in LineEvents /\ Head(sent) = sent[1] /\ Len(sent) > 0
        /\ Tail(sent) \in Seq(LineEvents) /\ Len(sent') = Len(sent) - 1
        /\ \A i \in 1 .. Len(sent') : sent'[i] = sent[i + 1]
    BY <1>1, <2>1, InvTypes, HeadTailProperties, EmptySeq
  <2>3. /\ DOMAIN sent' = 1 .. Len(sent')
        /\ DOMAIN stream' = 1 .. Len(stream) + 1 /\ Len(stream') = Len(stream) + 1
        /\ \A i \in 1 .. Len(stream) : stream'[i] = stream[i]
        /\ stream'[Len(stream) + 1] = sent[1]
    BY <1>1, <2>1, <2>2, InvTypes, AppendProperties, LenProperties
  <2>4. 1 \in DOMAIN sent /\ \A i \in 1 .. Len(sent') : i + 1 \in DOMAIN sent
    BY <1>1, <2>2
  <2>5. ASSUME kind # "restamp" PROVE StampedByLine'
    <3>1. \A i \in DOMAIN stream' : stream'[i].ts = stream'[i].msg
      BY <1>1, <2>3, <2>4, <2>5 DEF IInv, StampedByLine
    <3>2. ASSUME NEW i \in DOMAIN sent' PROVE sent'[i].ts = sent'[i].msg
      <4>1. sent'[i] = sent[i + 1] /\ i + 1 \in DOMAIN sent
        BY <2>2, <2>3, <2>4
      <4> QED
        BY <2>5, <4>1 DEF IInv, StampedByLine
    <3> QED
      BY <3>1, <3>2 DEF StampedByLine
  <2>6. ASSUME kind = "exact" PROVE InOrder'
    <3>1. Len(stream') + Len(sent') = cursor
      <4>1. Len(stream) + Len(sent) = cursor
        BY <2>6 DEF IInv, InOrder
      <4>2. Len(stream') = Len(stream) + 1 /\ Len(sent') = Len(sent) - 1
        BY <2>2, <2>3
      <4>3. Len(stream) \in Nat /\ Len(sent) \in Nat /\ cursor' = cursor
        BY <1>1, <2>1, InvTypes
      <4> QED
        BY <4>1, <4>2, <4>3
    <3>2. ASSUME NEW i \in DOMAIN stream' PROVE stream'[i].msg = file[i]
      <4>1. sent[1].msg = file[Len(stream) + 1]
        BY <2>4, <2>6 DEF IInv, InOrder
      <4>2. CASE i \in 1 .. Len(stream)
        BY <1>1, <2>3, <2>6, <4>2 DEF IInv, InOrder
      <4>3. CASE i = Len(stream) + 1
        BY <2>3, <4>1, <4>3
      <4> QED
        BY <1>1, <2>3, <4>2, <4>3
    <3>3. ASSUME NEW i \in DOMAIN sent' PROVE sent'[i].msg = file[Len(stream') + i]
      <4>1. sent'[i] = sent[i + 1] /\ i + 1 \in DOMAIN sent /\ i \in Nat
        BY <2>2, <2>3, <2>4
      <4>2. sent[i + 1].msg = file[Len(stream) + (i + 1)]
        BY <2>6, <4>1 DEF IInv, InOrder
      <4>3. Len(stream) + (i + 1) = Len(stream') + i
        BY <1>1, <2>3, <4>1
      <4> QED
        BY <4>1, <4>2, <4>3
    <3> QED
      BY <2>1, <2>6, <3>1, <3>2, <3>3 DEF IInv, InOrder
  <2> QED
    BY <2>1, <2>5, <2>6 DEF InOrder, StampedByLine
<1>5. CASE Write
  <2>1. UNCHANGED <<kind, up, saved, cursor, hpc, sent, stream>>
    BY <1>5 DEF Write, harnessVars, agentVars, streamVars
  <2>2. \A i \in 1 .. Len(file) : file'[i] = file[i]
    <3>1. seq + 1 \in Nat /\ file \in Seq(Nat)
      BY InvTypes DEF IInv
    <3>2. file' = file \/ file' = Append(file, seq + 1)
      BY <1>5 DEF Write
    <3> QED
      BY <3>1, <3>2, AppendProperties
  <2>3. ASSUME kind = "exact" PROVE InOrder'
    <3>1. Len(stream) + Len(sent) <= Len(file)
      BY <1>1, <2>3 DEF IInv, InOrder
    <3>2. /\ \A i \in DOMAIN stream : i \in 1 .. Len(file)
          /\ \A i \in DOMAIN sent : Len(stream) + i \in 1 .. Len(file)
      BY <1>1, <3>1
    <3> QED
      BY <2>1, <2>2, <2>3, <3>2 DEF IInv, InOrder
  <2> QED
    BY <2>1, <2>3 DEF IInv, StampedByLine, InOrder
<1>6. ASSUME UNCHANGED <<kind, sent, stream, file, cursor, saved, up>>,
             hpc' \in {"fresh", "down"} => hpc' = hpc
      PROVE  StampedByLine' /\ InOrder'
  BY <1>6 DEF IInv, StampedByLine, InOrder
<1>7. ASSUME NEW from \in {"fresh", "down"}, NEW to \in {"started", "resumed"},
             StartAgent(from, to)
      PROVE  StampedByLine' /\ InOrder'
  <2>1. CASE AgentStart
    <3>1. /\ UNCHANGED <<kind, sent, stream, file>> /\ up' /\ saved' = cursor'
          /\ kind = "exact" => cursor' = saved
      BY <1>7, <2>1 DEF StartAgent, AgentStart, generatorVars, streamVars
    <3>2. kind = "exact" => saved = cursor
      BY <1>7 DEF StartAgent, IInv, InOrder
    <3>3. hpc' \in {"started", "resumed", "fatal"}
      BY <1>7 DEF StartAgent
    <3> QED
      BY <3>1, <3>2, <3>3 DEF IInv, StampedByLine, InOrder
  <2>2. CASE ~AgentStart
    BY <1>6, <1>7, <2>2 DEF StartAgent, agentVars, generatorVars, streamVars
  <2> QED
    BY <2>1, <2>2
<1>8. ASSUME NEW from, NEW to, StopAgent(from, to)
      PROVE  StampedByLine' /\ InOrder'
  <2>1. CASE AgentStop
    BY <1>8, <2>1 DEF StopAgent, AgentStop, generatorVars, streamVars, IInv, StampedByLine,
       InOrder
  <2>2. CASE ~AgentStop
    BY <1>6, <1>8, <2>2 DEF StopAgent, agentVars, generatorVars, streamVars
  <2> QED
    BY <2>1, <2>2
<1>9. CASE Generate \/ CancelGenerator \/ Drain \/ Judge
  BY <1>6, <1>9 DEF Generate, CancelGenerator, Drain, Judge, agentVars, generatorVars,
     streamVars
<1>10. CASE Read \/ Reading
  BY <1>6, <1>10 DEF Read, StartRead, Reading, ReaderStep, ReadPage, NotFound, WakeUp,
     ReadError, agentVars, generatorVars, harnessVars
<1>11. CASE Grant \/ Quit \/ UNCHANGED vars
  BY <1>6, <1>11 DEF Grant, Quit, vars, agentVars, generatorVars, harnessVars, streamVars
<1> QED
  BY <1>2, <1>3, <1>4, <1>5, <1>7, <1>8, <1>9, <1>10, <1>11
  DEF Next, HarnessStep, GeneratorStep

\* What is read of an exact agent are the first lines of the file, in order.
LEMMA ReadInOrder ==
    ASSUME IInv
    PROVE  /\ events \in Seq(LineEvents) /\ DOMAIN events = 1 .. Len(events)
           /\ Len(events) = Position /\ Len(events) \in Nat
           /\ \A i \in DOMAIN events : i \in DOMAIN stream /\ events[i] = stream[i]
           /\ kind # "restamp" => \A i \in DOMAIN events : events[i].ts = events[i].msg
           /\ kind = "exact" => /\ Len(events) <= Len(file)
                                /\ \A i \in DOMAIN events : events[i].msg = file[i]
<1>1. /\ Typed /\ events \in Seq(LineEvents) /\ stream \in Seq(LineEvents)
      /\ Position \in Nat /\ Len(stream) \in Nat /\ Position <= Len(stream)
      /\ DOMAIN stream = 1 .. Len(stream) /\ events = SubSeq(stream, 1, Position)
      /\ Len(sent) \in Nat /\ cursor <= Len(file) /\ Len(file) \in Nat /\ cursor \in Nat
  BY InvTypes DEF IInv, ReaderInv
<1>2. \A i \in 1 .. Position : stream[i] \in LineEvents
  BY <1>1, ElementOfSeq
<1>3. Len(events) = Position /\ \A i \in 1 .. Position : events[i] = stream[i]
  BY <1>1, <1>2, SubSeqProperties
<1>4. DOMAIN events = 1 .. Len(events)
  BY <1>1, LenProperties
<1>5. \A i \in DOMAIN events : i \in DOMAIN stream /\ events[i] = stream[i]
  BY <1>1, <1>3, <1>4
<1>6. kind # "restamp" => \A i \in DOMAIN events : events[i].ts = events[i].msg
  BY <1>5 DEF IInv, StampedByLine
<1>7. kind = "exact" => Len(events) <= Len(file)
  BY <1>1, <1>3 DEF IInv, InOrder
<1>8. kind = "exact" => \A i \in DOMAIN events : events[i].msg = file[i]
  BY <1>5 DEF IInv, InOrder
<1> QED
  BY <1>1, <1>3, <1>4, <1>5, <1>6, <1>7, <1>8

\* No line of an exact agent comes twice.
LEMMA ExactInjective == ASSUME IInv, kind = "exact" PROVE IsInjective(events)
<1>1. ASSUME NEW i \in DOMAIN events, NEW j \in DOMAIN events, i < j
      PROVE  events[i] # events[j]
  <2>1. /\ i \in DOMAIN file /\ j \in DOMAIN file
        /\ events[i].msg = file[i] /\ events[j].msg = file[j]
    <3>1. /\ DOMAIN events = 1 .. Len(events) /\ Len(events) \in Nat
          /\ Len(events) <= Len(file)
          /\ \A n \in DOMAIN events : events[n].msg = file[n]
      BY ReadInOrder
    <3>2. DOMAIN file = 1 .. Len(file) /\ Len(file) \in Nat
      BY InvTypes DEF IInv
    <3> QED
      BY <3>1, <3>2
  <2>2. file[i] < file[j] /\ file[i] \in Nat /\ file[j] \in Nat
    BY <1>1, <2>1, InvTypes, ElementOfSeq DEF IInv, GeneratorInv
  <2> QED
    BY <2>1, <2>2
<1>2. \A i, j \in DOMAIN events : i < j \/ j < i \/ i = j
  BY ReadInOrder
<1> QED
  BY <1>1, <1>2 DEF IsInjective

\* What was read is a stream, and every event of it has its number.
LEMMA ReadStream ==
    ASSUME IInv
    PROVE  /\ events \in Streams
           /\ \A i \in DOMAIN events : events[i].msg \in Nat
           /\ Numbered(events) = DOMAIN events
           /\ Numbers = NumbersIn(events)
           /\ \A x : x \in NumbersIn(events) <=> \E i \in DOMAIN events : events[i].msg = x
<1>1. events \in Seq(LineEvents) /\ DOMAIN events = 1 .. Len(events) /\ Len(events) \in Nat
  BY ReadInOrder
<1> DEFINE R == [ts : Nat, msg : Nat \cup {Unnumbered}]
<1>2. LineEvents \subseteq R
  BY DEF LineEvents
<1>3. \A i \in DOMAIN events : events[i] \in LineEvents
  BY <1>1, ElementOfSeq
<1>4. events \in Streams
  <2> HIDE DEF R
  <2>1. \A i \in 1 .. Len(events) : events[i] \in R
    BY <1>1, <1>2, <1>3
  <2>2. events \in Seq(R)
    BY <1>1, <2>1, SeqDef
  <2> QED
    BY <2>2 DEF Streams, R
<1>5. \A i \in DOMAIN events : events[i].msg \in Nat /\ events[i].msg # Unnumbered
  BY <1>3, ConstantTypes DEF LineEvents
<1>6. Numbered(events) = DOMAIN events
  BY <1>5 DEF Numbered
<1>7. Numbers = NumbersIn(events)
  BY DEF Numbers, NumbersIn, Range
<1>8. \A x : x \in NumbersIn(events) <=> \E i \in DOMAIN events : events[i].msg = x
  BY <1>5 DEF NumbersIn
<1> QED
  BY <1>4, <1>5, <1>6, <1>7, <1>8

\* What was read of an exact agent, no write having failed, has no gap.
LEMMA ExactUnbroken ==
    ASSUME IInv, kind = "exact", failed = {}
    PROVE  Distinct(events) /\ GapsIn(events) = {}
<1>1. /\ Len(events) \in Nat /\ DOMAIN events = 1 .. Len(events)
      /\ Len(events) <= Len(file) /\ \A i \in DOMAIN events : events[i].msg = file[i]
  BY ReadInOrder
<1>2. Len(file) \in Nat /\ DOMAIN file = 1 .. Len(file) /\ \A i \in DOMAIN file : file[i] = i
  BY InvTypes DEF IInv, FileUnbroken
<1>3. \A i \in 1 .. Len(events) : events[i].msg = i
  BY <1>1, <1>2
<1>4. Distinct(events)
  BY <1>1, <1>3, ReadStream DEF Distinct
<1>5. \A x : x \in NumbersIn(events) <=> x \in 1 .. Len(events)
  BY <1>1, <1>3, ReadStream
<1>6. ASSUME NEW x \in GapsIn(events) PROVE FALSE
  <2>1. x \in Nat /\ x \notin NumbersIn(events)
    BY DEF GapsIn
  <2>2. PICK a \in NumbersIn(events), b \in NumbersIn(events) : a < x /\ x < b
    BY DEF GapsIn
  <2>3. a \in 1 .. Len(events) /\ b \in 1 .. Len(events)
    BY <1>5
  <2>4. x \in 1 .. Len(events)
    BY <1>1, <2>1, <2>2, <2>3
  <2> QED
    BY <1>5, <2>1, <2>4
<1> QED
  BY <1>4, <1>6

LEMMA ExactVerdict ==
    ASSUME IInv, kind = "exact", failed = {}
    PROVE  Verdict(events) \notin {"missing", "duplicate", "panic"}
<1>1. CASE events = << >>
  BY <1>1 DEF Verdict, LogsNotEmpty
<1>2. CASE events # << >>
  <2>1. NumbersIn(events) # {}
    <3>1. Len(events) # 0 /\ Len(events) \in Nat /\ DOMAIN events = 1 .. Len(events)
      BY <1>2, ReadInOrder, EmptySeq
    <3>2. 1 \in DOMAIN events
      BY <3>1
    <3> QED
      BY <3>2, ReadStream
  <2>2. NoMissingLogs(events) = "pass"
    BY <2>1, ExactUnbroken, ReadStream, GapsExactly
  <2>3. NoDuplicateLogs(events)
    BY ExactInjective DEF NoDuplicateLogs
  <2> QED
    BY <1>2, <2>2, <2>3 DEF Verdict, LogsNotEmpty
<1> QED
  BY <1>1, <1>2

\* A verdict, as far as it does not rest on the scan for missing lines.
LEMMA VerdictFacts ==
    /\ Verdict(events) = "pass" => IsInjective(events) /\ NoMissingLogs(events) = "pass"
    /\ Verdict(events) = "duplicate" => ~IsInjective(events)
<1>1. NoMissingLogs(events) \in {"panic", "missing", "pass"}
  BY DEF NoMissingLogs
<1> QED
  BY <1>1 DEF Verdict, NoDuplicateLogs

LEMMA JudgedKept == ASSUME IInv, [Next]_vars PROVE Judged'
<1>1. CASE Judge
  <2>1. /\ hpc' = "done" /\ rpc \in {"ok", "notfound", "error"}
        /\ verdict' = IF rpc = "ok" THEN Verdict(events) ELSE rpc
        /\ UNCHANGED <<kind, rpc, events>>
    BY <1>1 DEF Judge, agentVars, readerVars
  <2> QED
    BY <2>1, VerdictFacts, ExactInjective DEF Judged
<1>2. ASSUME UNCHANGED <<kind, verdict, rpc, events>>, hpc' = "done" <=> hpc = "done"
      PROVE  Judged'
  BY <1>2 DEF IInv, Judged
<1>3. CASE Read \/ Reading
  <2>1. hpc # "done" /\ UNCHANGED <<hpc, verdict, kind>>
    BY <1>3 DEF Read, StartRead, Reading, ReaderStep, ReadPage, NotFound, WakeUp, ReadError,
       IInv, Judged, harnessVars, agentVars
  <2> QED
    BY <2>1 DEF IInv, Judged
<1>4. ASSUME NEW from \in {"fresh", "down", "generating", "drained"},
             NEW to \in {"started", "resumed", "down", "reading"},
             StartAgent(from, to) \/ StopAgent(from, to)
      PROVE  Judged'
  <2>1. /\ hpc # "done" /\ hpc' # "done" /\ UNCHANGED <<kind, verdict, rpc, events>>
    BY <1>4 DEF StartAgent, StopAgent, AgentStart, AgentStop, agentVars, readerVars
  <2> QED
    BY <1>2, <2>1
<1>5. CASE Generate \/ CancelGenerator \/ Drain
  BY <1>2, <1>5 DEF Generate, CancelGenerator, Drain, agentVars, readerVars
<1>6. CASE GeneratorStep \/ Upload \/ Record \/ Reveal \/ UNCHANGED vars
  BY <1>2, <1>6 DEF GeneratorStep, Grant, Quit, Write, Upload, Record, Reveal, vars,
     agentVars, harnessVars, readerVars
<1> QED
  BY <1>1, <1>3, <1>4, <1>5, <1>6 DEF Next, HarnessStep

LEMMA JudgedRightKept == ASSUME IInv, [Next]_vars PROVE JudgedRight'
<1>1. CASE Judge
  <2>1. /\ verdict' = IF rpc = "ok" THEN Verdict(events) ELSE rpc
        /\ rpc \in {"ok", "notfound", "error"}
        /\ UNCHANGED <<kind, failed, events>>
    BY <1>1 DEF Judge, agentVars, readerVars, generatorVars
  <2>2. kind = "exact" /\ failed = {} =>
           Verdict(events) \notin {"missing", "duplicate", "panic"}
    BY ExactVerdict
  <2>3. NoMissingLogs(events)' = NoMissingLogs(events)
    BY <2>1 DEF NoMissingLogs, Missing, NumbersOf
  <2> QED
    BY <2>1, <2>2, <2>3, VerdictFacts DEF JudgedRight, ExactAgentPasses
<1>2. ASSUME UNCHANGED <<kind, verdict>>, failed' = {} => failed = {},
             events' = events \/ verdict # "pass"
      PROVE  JudgedRight'
  <2>1. events' = events => NoMissingLogs(events)' = NoMissingLogs(events)
    BY DEF NoMissingLogs, Missing, NumbersOf
  <2> QED
    BY <1>2, <2>1 DEF IInv, JudgedRight, ExactAgentPasses
<1>3. CASE Read \/ Reading
  <2>1. hpc # "done" /\ UNCHANGED <<verdict, kind, failed>>
    BY <1>3 DEF Read, StartRead, Reading, ReaderStep, ReadPage, NotFound, WakeUp, ReadError,
       IInv, Judged, harnessVars, agentVars, generatorVars
  <2>2. verdict # "pass"
    BY <2>1 DEF IInv, Judged
  <2> QED
    BY <1>2, <2>1, <2>2
<1>4. ASSUME NEW from, NEW to, StartAgent(from, to) \/ StopAgent(from, to)
      PROVE  JudgedRight'
  <2>1. UNCHANGED <<kind, verdict, failed, events>>
    BY <1>4 DEF StartAgent, StopAgent, AgentStart, AgentStop, agentVars, readerVars,
       generatorVars
  <2> QED
    BY <1>2, <2>1
<1>5. CASE Generate \/ CancelGenerator \/ Drain
  <2>1. UNCHANGED <<kind, verdict, failed, events>>
    BY <1>5 DEF Generate, CancelGenerator, Drain, agentVars, readerVars, generatorVars
  <2> QED
    BY <1>2, <2>1
<1>6. CASE GeneratorStep
  <2>1. UNCHANGED <<kind, verdict, events>> /\ (failed' = {} => failed = {})
    BY <1>6 DEF GeneratorStep, Grant, Quit, Write, agentVars, harnessVars, readerVars
  <2> QED
    BY <1>2, <2>1
<1>7. CASE Upload \/ Record \/ Reveal \/ UNCHANGED vars
  <2>1. UNCHANGED <<kind, verdict, failed, events>>
    BY <1>7 DEF Upload, Record, Reveal, vars, agentVars, harnessVars, readerVars, generatorVars
  <2> QED
    BY <1>2, <2>1
<1> QED
  BY <1>1, <1>3, <1>4, <1>5, <1>6, <1>7 DEF Next, HarnessStep

LEMMA InvStep == IInv /\ [Next]_vars => IInv'
BY TypedStep, GeneratorKept, FileUnbrokenKept, ReaderKept, AgentKept, JudgedKept,
   JudgedRightKept DEF IInv

LEMMA Invariant == Spec => []IInv
BY InvInit, InvStep, PTL DEF Spec

-------------------------------------------------------------------------------
(* The theorems.                                                           *)

\* Every variable keeps its type; no number whose write failed is in the file.
THEOREM TypeCorrect == Spec => []LogStateTypeOK
<1>1. IInv => LogStateTypeOK
  BY DEF IInv, Typed
<1> QED
  BY <1>1, Invariant, PTL

\* GetLogsSince returns a prefix of the stream, and all of it that was visible
\* when it was called, for every page size and however pages and new events
\* interleave.
THEOREM ReadCompleteHolds == Spec => []ReadComplete
<1>1. IInv => ReadComplete
  BY ReadInOrder DEF IInv, ReaderInv, ReadComplete
<1> QED
  BY <1>1, Invariant, PTL

\* A missing stream is given exactly the retries there are (GetLogsSince).
THEOREM NotFoundIsPatientHolds == Spec => []NotFoundIsPatient
<1>1. IInv => NotFoundIsPatient
  BY DEF IInv, ReaderInv
<1> QED
  BY <1>1, Invariant, PTL

\* No line is written once the generator has been waited for (Validate).
THEOREM FileFrozenHolds == Spec => FileFrozen
<1>1. IInv /\ [Next]_vars => (file' # file => hpc \notin {"drained", "reading", "done"})
  <2> SUFFICES ASSUME IInv, [Next]_vars, file' # file
               PROVE  hpc \notin {"drained", "reading", "done"}
    OBVIOUS
  <2>1. CASE Write
    BY <2>1 DEF Write, IInv, GeneratorInv
  <2>2. ~Write => file' = file
    BY DEF Next, HarnessStep, GeneratorStep, StartAgent, StopAgent, Generate, CancelGenerator,
       Drain, Read, Judge, Reading, Grant, Quit, Upload, Record, Reveal, vars, generatorVars
  <2> QED
    BY <2>1, <2>2
<1> QED
  BY <1>1, Invariant, PTL DEF Spec, FileFrozen

\* The log of an exact agent is read back as it was written: whatever was read
\* are the first lines of the file in order, through every stop and restart.
ExactDelivery ==
    kind = "exact" => /\ Len(events) <= Len(file)
                      /\ \A i \in DOMAIN events : events[i].msg = file[i]

THEOREM ExactDeliveryHolds == Spec => []ExactDelivery
<1>1. IInv => ExactDelivery
  BY ReadInOrder DEF ExactDelivery
<1> QED
  BY <1>1, Invariant, PTL

\* An exact agent is never accused of a duplicate, failed writes or not: a part
\* of ExactAgentPasses.
THEOREM ExactNeverDuplicates == Spec => [](kind = "exact" => verdict # "duplicate")
<1>1. IInv => (kind = "exact" => verdict # "duplicate")
  BY DEF IInv, Judged
<1> QED
  BY <1>1, Invariant, PTL

\* A test that passed has seen every number once unless the agent restamps.
LEMMA PassCountsOnce ==
    ASSUME IInv, verdict = "pass", kind # "restamp"
    PROVE  Len(events) = Cardinality(Numbers) /\ Distinct(events)
<1>1. IsInjective(events)
  BY DEF IInv, Judged
<1>2. /\ events \in Seq(LineEvents) /\ DOMAIN events = 1 .. Len(events) /\ Len(events) \in Nat
      /\ \A i \in DOMAIN events : events[i].ts = events[i].msg
  BY ReadInOrder
<1>3. \A i \in DOMAIN events : events[i] \in LineEvents
  BY <1>2, ElementOfSeq
<1>4. \A i \in DOMAIN events : /\ events[i].msg \in Nat
                              /\ events[i] = [ts |-> events[i].ts, msg |-> events[i].msg]
  BY <1>3 DEF LineEvents
<1> DEFINE F == [i \in 1 .. Len(events) |-> events[i].msg]
<1>5. Numbers = {events[i].msg : i \in DOMAIN events}
  BY <1>4, ConstantTypes DEF Numbers, Range
<1>6. F \in Surjection(1 .. Len(events), Numbers)
  BY <1>2, <1>5 DEF Surjection
<1>7. ASSUME NEW i \in DOMAIN events, NEW j \in DOMAIN events, events[i].msg = events[j].msg
      PROVE  i = j
  <2>1. events[i] = events[j]
    BY <1>2, <1>4, <1>7
  <2> QED
    BY <1>1, <2>1 DEF IsInjective
<1>8. Distinct(events)
  BY <1>7, ReadStream DEF Distinct
<1>9. IsInjective(F)
  BY <1>2, <1>7 DEF IsInjective
<1>10. F \in Bijection(1 .. Len(events), Numbers)
  BY <1>6, <1>9 DEF Bijection, Injection, Surjection
<1>11. ExistsBijection(1 .. Len(events), Numbers)
  BY <1>10 DEF ExistsBijection
<1>12. IsFiniteSet(1 .. Len(events)) /\ Cardinality(1 .. Len(events)) = Len(events)
  BY <1>2, FS_Interval
<1> QED
  BY <1>8, <1>11, <1>12, FS_Bijection

\* An exact agent is never accused of a loss or of a repetition if no write
\* failed, and its log never crashes the check (ValidateLogs).
THEOREM ExactAgentPassesHolds == Spec => []ExactAgentPasses
<1>1. IInv => ExactAgentPasses
  BY DEF IInv, JudgedRight
<1> QED
  BY <1>1, Invariant, PTL

\* A test that passed is right: unless the agent restamps what it sends again,
\* every line that was written between two lines of the stream was delivered,
\* and none twice (ValidateLogs).
THEOREM PassIsTrueHolds == Spec => []PassIsTrue
<1>1. ASSUME IInv, verdict = "pass", kind # "restamp"
      PROVE  Between \subseteq Numbers /\ Len(events) = Cardinality(Numbers)
  <2>1. NoMissingLogs(events) = "pass"
    BY <1>1 DEF IInv, JudgedRight
  <2>2. NumbersIn(events) # {}
    <3>1. NumbersOf(events) # << >>
      BY <2>1 DEF NoMissingLogs
    <3> QED
      BY <1>1, <3>1, ReadStream, NumbersInSorted
  <2>3. Distinct(events) /\ Len(events) = Cardinality(Numbers)
    BY <1>1, PassCountsOnce
  <2>4. GapsIn(events) = {}
    BY <1>1, <2>1, <2>2, <2>3, ReadStream, GapsExactly
  <2>5. \A n \in Range(file) : n \in Nat
    BY <1>1, InvTypes, ElementOfSeq DEF IInv, Range
  <2>6. Numbers = NumbersIn(events)
    BY <1>1, ReadStream
  <2>7. ASSUME NEW n \in Between PROVE n \in Numbers
    BY <2>4, <2>5, <2>6 DEF Between, GapsIn
  <2> QED
    BY <2>3, <2>7
<1>2. IInv => PassIsTrue
  BY <1>1 DEF PassIsTrue
<1> QED
  BY <1>2, Invariant, PTL

===============================================================================
