--------------------------------- MODULE Polls ---------------------------------
(***************************************************************************)
(* The loops that ask for a thing until it is there: log streams, the      *)
(* results of a log query, a metric, the agent's OTLP endpoint, a stack,   *)
(* an installed package (util/awsservice, util/common/otlp.go,             *)
(* install/install_agent.go).  One of them runs; time is in seconds.       *)
(***************************************************************************)
EXTENDS Naturals

CONSTANTS
    MaxHiccups,    \* calls that fail although the service is there
    Hangs,         \* how long an endpoint may keep a request that it has accepted
    Retries,       \* retries of ValidateMetricWithTest
    Minutes        \* timeOutMinutes of FindStackInstanceId

VARIABLES
    loop,      \* the one that runs
    doing,     \* looking, hanging, asleep, or how it ended
    tries,     \* i, attempts
    now,       \* seconds since it began
    since,     \* when the thing came, if it has
    hiccups,
    hung       \* seconds spent hanging

pollVars == <<loop, doing, tries, now, since, hiccups, hung>>

\* Of each loop: the sleep before the first look and between looks, the number
\* of looks or the deadline after which there are no more, whether a look can
\* take time, what follows an error, and whether it sleeps after the last look.
Unlimited == 10000
Row(first, pause, looks, deadline, slow, error, last) ==
    [first |-> first, pause |-> pause, looks |-> looks, deadline |-> deadline,
     slow |-> slow, error |-> error, last |-> last]

GetLogStreams == Row(0, 10, 20, Unlimited, 0, "look", TRUE)
GetLogQueryResults == Row(10, 10, 4, Unlimited, 0, "end", FALSE)
GetLogQueryStats == GetLogQueryResults
IsLogGroupExists == Row(0, 0, 1, Unlimited, 0, "end", FALSE)
ValidateMetricWithTest == Row(0, 20, Retries, Unlimited, 0, "sleep", TRUE)
WaitForOTLPEndpoint == Row(0, 2, Unlimited, 120, 0, "sleep", TRUE)
WaitForTCPPort == Row(0, 2, Unlimited, 120, 2, "sleep", TRUE)
FindStackInstanceId == Row(0, 60, Minutes + 1, Unlimited, 0, "sleep", TRUE)
install == Row(0, 30, 10, Unlimited, 0, "sleep", TRUE)

Loops ==
    [GetLogStreams |-> GetLogStreams, GetLogQueryResults |-> GetLogQueryResults,
     GetLogQueryStats |-> GetLogQueryStats, IsLogGroupExists |-> IsLogGroupExists,
     ValidateMetricWithTest |-> ValidateMetricWithTest,
     WaitForOTLPEndpoint |-> WaitForOTLPEndpoint, WaitForTCPPort |-> WaitForTCPPort,
     FindStackInstanceId |-> FindStackInstanceId, install |-> install]

\* No caller asks for more looks than come before what stands for no deadline.
PollsAssumption ==
    /\ Retries \in Nat /\ Minutes \in Nat /\ MaxHiccups \in Nat /\ Hangs \subseteq Nat
    /\ Retries * 20 < Unlimited /\ (Minutes + 1) * 60 < Unlimited
    /\ \A d \in Hangs : d + 120 < Unlimited

L == Loops[loop]
There == since # Unlimited

PollsInit ==
    /\ loop \in DOMAIN Loops
    /\ doing = IF Loops[loop].first > 0 THEN "asleep" ELSE "looking"
    /\ tries = 0 /\ now = 0 /\ since = Unlimited /\ hiccups = 0 /\ hung = 0

\* The thing comes, at any moment (external).
Come ==
    /\ doing \in {"looking", "hanging", "asleep"} /\ ~There
    /\ since' = now
    /\ UNCHANGED <<loop, doing, tries, now, hiccups, hung>>

\* Slip: the last look is left out.
ExhaustedEarly == tries + 1 >= L.looks \/ now >= L.deadline

\* Slip: one look more.
ExhaustedLate == tries > L.looks \/ now >= L.deadline

Exhausted == tries >= L.looks \/ now >= L.deadline

\* After a look in vain: the last one of a query is followed by no sleep.
Onward(next) ==
    /\ tries' = tries + 1
    /\ doing' = IF tries' = L.looks /\ ~L.last THEN "gave up" ELSE next

Found ==
    /\ doing = "looking" /\ ~Exhausted /\ There
    /\ doing' = "found"
    /\ UNCHANGED <<loop, tries, now, since, hiccups, hung>>

\* A query that is scheduled, running or unknown; a list without the thing; a
\* connection refused, or not accepted within two seconds.
NotYet ==
    /\ doing = "looking" /\ ~Exhausted /\ ~There
    /\ now' \in {now, now + L.slow}
    /\ Onward("asleep")
    /\ UNCHANGED <<loop, since, hiccups, hung>>

\* The http.Get of WaitForOTLPEndpoint has no timeout: an endpoint that accepts
\* the connection before it can answer keeps it, for a while or for ever.
Hang ==
    /\ doing = "looking" /\ ~Exhausted /\ ~There /\ loop = "WaitForOTLPEndpoint"
    /\ doing' = "hanging"
    /\ UNCHANGED <<loop, tries, now, since, hiccups, hung>>

\* The endpoint answers in the end, or breaks the connection.
LetGo ==
    /\ doing = "hanging"
    /\ \E d \in Hangs : now' = now + d /\ hung' = hung + d
    /\ \/ There /\ doing' = "found" /\ UNCHANGED tries
       \/ Onward("asleep")
    /\ UNCHANGED <<loop, since, hiccups>>

\* A call that fails: GetLogStreams looks again at once, a query is given up
\* (or not started at all), IsLogGroupExists answers no, the others sleep as if
\* the thing were not there.
Error ==
    /\ \/ doing = "looking" /\ ~Exhausted
       \/ doing = "asleep" /\ L.error = "end" /\ now = 0
    /\ hiccups < MaxHiccups
    /\ hiccups' = hiccups + 1
    /\ CASE L.error = "look" -> Onward("looking")
         [] L.error = "sleep" -> Onward("asleep")
         [] L.error = "end" -> doing' = "failed" /\ UNCHANGED tries
    /\ UNCHANGED <<loop, now, since, hung>>

\* An empty list, an error, t.Errorf, log.Fatalf; install_agent just ends.
GiveUp ==
    /\ doing = "looking" /\ Exhausted
    /\ doing' = "gave up"
    /\ UNCHANGED <<loop, tries, now, since, hiccups, hung>>

Sleep ==
    /\ doing = "asleep"
    /\ now' = now + (IF now = 0 /\ L.first > 0 THEN L.first ELSE L.pause)
    /\ doing' = "looking"
    /\ UNCHANGED <<loop, tries, since, hiccups, hung>>

LoopStep == Found \/ NotYet \/ Error \/ GiveUp \/ Sleep

PollsNext == Come \/ Hang \/ LetGo \/ LoopStep

(* The loop runs on.  Nothing makes an endpoint let go.                     *)
PollsSpec == PollsInit /\ [][PollsNext]_pollVars /\ WF_pollVars(LoopStep)

-------------------------------------------------------------------------------
(* Properties                                                              *)

\* How long each of them says it waits: 20 tries every 10 seconds, "attempted
\* get query results after 30s", "not ready after 2m0s", and timeOutMinutes, of
\* which the minute 0 is one.
Patience ==
    [GetLogStreams |-> 20 * 10, GetLogQueryResults |-> 3 * 10, GetLogQueryStats |-> 3 * 10,
     IsLogGroupExists |-> 0,
     ValidateMetricWithTest |-> Retries * 20, WaitForOTLPEndpoint |-> 120,
     WaitForTCPPort |-> 120, FindStackInstanceId |-> (Minutes + 1) * 60, install |-> 10 * 30][loop]

\* A loop that gives up has been as patient as it says, but that each error
\* costs GetLogStreams one of its sleeps; and what came before the sleep after
\* the last look was not overlooked unless the calls failed.
GaveUpPatiently ==
    doing = "gave up" =>
        /\ now + (IF L.error = "look" THEN hiccups * L.pause ELSE 0) >= Patience
        /\ There /\ hiccups = 0 => since + L.pause + L.slow + hung >= now

\* No loop holds its test up longer, but by as much as the OTLP endpoint lets its
\* requests hang: only a deadline is looked at before a sleep, and the sleep
\* before the first look comes on top.
EndsInTime ==
    now <= Patience + hung + (IF L.deadline = Unlimited THEN L.first ELSE L.pause + L.slow)

\* Each of them ends, though the thing may never come, unless it is the wait for
\* the OTLP endpoint and that keeps one request for ever.
LoopEnds ==
    \/ <>(doing \notin {"looking", "hanging", "asleep"})
    \/ <>[](loop = "WaitForOTLPEndpoint" /\ doing = "hanging")

===============================================================================
