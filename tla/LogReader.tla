------------------------------- MODULE LogReader -------------------------------
(***************************************************************************)
(* GetLogsSince (util/awsservice/cloudwatchlogs.go): read a log stream     *)
(* page by page from its head while the service still makes events of it   *)
(* visible.  The service is modelled from what the loop relies on: a page  *)
(* may be empty although more follows, and the token of the page at the    *)
(* end of the stream is the token it was asked with.                       *)
(***************************************************************************)
EXTENDS Integers, Sequences

CONSTANTS
    StandardRetries,   \* 3 in constant.go
    PageSize,          \* events the service puts on a page at most
    MaxEmpty,          \* bound on empty pages that are not the last
    NoToken            \* nil

ASSUME ReaderAssumption ==
    /\ StandardRetries \in Nat
    /\ PageSize \in Nat \ {0}
    /\ MaxEmpty \in Nat
    /\ NoToken \notin Nat \X Nat

VARIABLES
    stream,      \* the visible events of the log stream
    exists,      \* the log group and stream have been created
    rpc,         \* where the reader is: idle, reading, asleep or its outcome
    nextToken,   \* nextToken
    attempts,    \* attempts
    events,      \* events
    waits,       \* history: how often it slept for a missing stream
    atCall       \* history: how many events were visible when it was called

readerVars == <<rpc, nextToken, attempts, events, waits, atCall>>

\* A token is a position of the stream and how often the service answered
\* that position with an empty page.
Tokens == Nat \X (0 .. MaxEmpty)

ReaderTypeOK ==
    /\ exists \in BOOLEAN
    /\ rpc \in {"idle", "reading", "asleep", "ok", "notfound", "error"}
    /\ nextToken \in Tokens \cup {NoToken}
    /\ attempts \in Nat /\ waits \in Nat /\ atCall \in Nat

ReaderInit ==
    /\ rpc = "idle"
    /\ nextToken = NoToken
    /\ attempts = 0
    /\ events = <<>>
    /\ waits = 0
    /\ atCall = 0

StartRead ==
    /\ rpc = "idle"
    /\ rpc' = "reading"
    /\ atCall' = Len(stream)
    /\ UNCHANGED <<stream, exists, nextToken, attempts, events, waits>>

Position == IF nextToken = NoToken THEN 0 ELSE nextToken[1]
Empties == IF nextToken = NoToken THEN 0 ELSE nextToken[2]

\* The page [from, to] of the stream and the token that comes with it.
Page(to) == SubSeq(stream, Position + 1, to)
ForwardToken(to) ==
    IF to > Position THEN <<to, 0>>
    ELSE IF Position = Len(stream) THEN <<Position, Empties>>
    ELSE <<Position, Empties + 1>>

\* Slip: stop at an empty page.
AtEndWhenEmpty(to) == to = Position

\* The token repeats: the end of the stream.
AtEnd(to) == nextToken # NoToken /\ ForwardToken(to) = nextToken

\* A page is added to the result, whether or not it is the last one.
ReadPage ==
    /\ rpc = "reading"
    /\ exists
    /\ \E to \in Position .. Len(stream) :
          /\ to <= Position + PageSize
          /\ to = Position /\ Position < Len(stream) => Empties < MaxEmpty
          /\ events' = events \o Page(to)
          /\ attempts' = attempts + 1
          /\ IF AtEnd(to) THEN rpc' = "ok" /\ UNCHANGED nextToken
             ELSE nextToken' = ForwardToken(to) /\ UNCHANGED rpc
    /\ UNCHANGED <<stream, exists, waits, atCall>>

\* Slip: one retry too many.
RetriesLeftOneMore == attempts <= StandardRetries

RetriesLeft == attempts + 1 <= StandardRetries

\* Slip: asking again is not an attempt.
NotFoundUncounted ==
    /\ rpc = "reading"
    /\ ~exists
    /\ rpc' = "asleep"
    /\ UNCHANGED <<stream, exists, nextToken, attempts, events, waits, atCall>>

\* The stream is not there: sleep and ask again, a few times.
NotFound ==
    /\ rpc = "reading"
    /\ ~exists
    /\ attempts' = attempts + 1
    /\ IF RetriesLeft THEN rpc' = "asleep" /\ waits' = waits + 1
       ELSE rpc' = "notfound" /\ UNCHANGED waits
    /\ UNCHANGED <<stream, exists, nextToken, events, atCall>>

WakeUp ==
    /\ rpc = "asleep"
    /\ rpc' = "reading"
    /\ UNCHANGED <<stream, exists, nextToken, attempts, events, waits, atCall>>

\* Any other error, a throttle say, ends the read with what it has so far.
ReadError ==
    /\ rpc = "reading"
    /\ attempts' = attempts + 1
    /\ rpc' = "error"
    /\ UNCHANGED <<stream, exists, nextToken, events, waits, atCall>>

ReaderStep == ReadPage \/ NotFound \/ WakeUp \/ ReadError

ReaderNext == StartRead \/ ReaderStep

===============================================================================
