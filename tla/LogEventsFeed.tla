----------------------------- MODULE LogEventsFeed -----------------------------
(***************************************************************************)
(* The assertions of LogEvents on every stream of a bounded length.  The   *)
(* events come one by one, in any order and with any timestamp.            *)
(***************************************************************************)
EXTENDS LogEvents, FiniteSets

CONSTANTS MaxLen, MaxNumber

FeedAssumption == MaxNumber \in Nat

VARIABLE events

Init == events = <<>>

Arrive(n) == events' = Append(events, Event(Len(events), n))

Next == Len(events) < MaxLen /\ \E n \in 1 .. MaxNumber \cup {Unnumbered} : Arrive(n)

Spec == Init /\ [][Next]_events

Numbers == {events[i].msg : i \in DOMAIN events} \ {Unnumbered}
Gaps == {n \in 1 .. MaxNumber : /\ n \notin Numbers
                                /\ \E a, b \in Numbers : a < n /\ n < b}

\* AssertNoMissingLogs never invents a gap: what it reports is not in the
\* stream and lies between two numbers that are, in whatever order and however
\* often the lines came.
ReportedIsGap ==
    NoMissingLogs(events) = "missing" => Missing(events) \subseteq Gaps /\ Gaps # {}

\* Without repeated numbers it reports exactly the gaps.
GapsExact ==
    Len(NumbersOf(events)) = Cardinality(Numbers) /\ Numbers # {} =>
        /\ (NoMissingLogs(events) = "missing") <=> (Gaps # {})
        /\ Missing(events) = Gaps

\* The name and the message of AssertNoMissingLogs (generate.go:116, 153): when
\* it passes, no line is missing.
GapIsReported == NoMissingLogs(events) = "pass" => Gaps = {}

\* Events without a number are skipped (generate.go:133, "Skipped %d events that
\* didn't have sequence numbers"), so a stream that passes AssertLogsNotEmpty
\* gets a verdict.
SkippedNotFatal == Verdict(events) # "panic"

===============================================================================
