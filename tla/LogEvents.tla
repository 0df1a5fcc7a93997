------------------------------- MODULE LogEvents -------------------------------
(***************************************************************************)
(* The assertions the tests make on the events of a log stream             *)
(* (util/awsservice/cloudwatchlogs.go and util/common/logs/generate.go).   *)
(* An event is its timestamp and its message.  All that the assertions     *)
(* tell apart in a message is the number after "seq=", if it has one.      *)
(***************************************************************************)
EXTENDS Naturals, Sequences, SequencesExt, FiniteSets

CONSTANTS Unnumbered     \* a message without a sequence number

Event(ts, msg) == [ts |-> ts, msg |-> msg]

\* The numbers of the events, sorted: the k-th is that of the event with k
\* events up to it, in the order of their numbers and, of equal ones, in that
\* of the stream.
NumbersOf(events) ==
    LET numbered == {i \in DOMAIN events : events[i].msg # Unnumbered}
        UpTo(i) == {j \in numbered : \/ events[j].msg < events[i].msg
                                     \/ events[j].msg = events[i].msg /\ j <= i}
    IN  [k \in 1 .. Cardinality(numbered) |->
            events[CHOOSE i \in numbered : Cardinality(UpTo(i)) = k].msg]

LogsNotEmpty(events) == events # <<>>

NoDuplicateLogs(events) == IsInjective(events)

LogsCount(events, count) == Len(events) = count

\* Slip: the cursor follows the numbers it has seen, gaps or not.
ScanFollowing(numbers) ==
    FoldLeft(LAMBDA acc, n : [next |-> n + 1, missing |-> acc.missing],
             [next |-> numbers[1], missing |-> {}], numbers)

\* Slip: the cursor starts at the first number of all, not of the stream.
ScanFromOne(numbers) ==
    FoldLeft(LAMBDA acc, n :
                [next |-> n + 1, missing |-> acc.missing \cup acc.next .. (n - 1)],
             [next |-> 1, missing |-> {}], numbers)

\* The walk over the sorted numbers: the cursor moves past every gap and then
\* one further for every number, a repeated one included.
Scan(numbers) ==
    FoldLeft(LAMBDA acc, n :
                [next |-> (IF acc.next < n THEN n ELSE acc.next) + 1,
                 missing |-> acc.missing \cup acc.next .. (n - 1)],
             [next |-> numbers[1], missing |-> {}], numbers)

Missing(events) == Scan(NumbersOf(events)).missing

\* Slip: the count between the ends is off by one, and is believed.
NoMissingByCount(events) ==
    LET n == NumbersOf(events)
    IN  IF n = <<>> THEN "panic"
        ELSE IF Len(n) # n[Len(n)] - n[1] THEN "missing" ELSE "pass"

\* "panic" is the index out of range of seqNums[0] on a stream whose events
\* have no number.
NoMissingLogs(events) ==
    LET n == NumbersOf(events)
    IN  IF n = <<>> THEN "panic"
        ELSE IF Len(n) # n[Len(n)] - n[1] + 1 /\ Missing(events) # {}
        THEN "missing" ELSE "pass"

\* ValidateLogs with the validators of the log-state tests: it fails fast.
Verdict(events) ==
    IF ~LogsNotEmpty(events) THEN "empty"
    ELSE IF ~NoDuplicateLogs(events) THEN "duplicate"
    ELSE NoMissingLogs(events)

================================================================================
