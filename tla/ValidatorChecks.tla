---------------------------- MODULE ValidatorChecks ----------------------------
(***************************************************************************)
(* One CheckData of the validator (validator/validators/basic, stress and  *)
(* performance): the metrics and logs that the test's parameters.yml lists *)
(* are asked of CloudWatch one by one, and the answers are judged.  What   *)
(* CloudWatch answers is arbitrary.  Values are in tenths of the expected  *)
(* value, or of the bound.                                                 *)
(***************************************************************************)
EXTENDS LogEvents, Integers, FiniteSets, FiniteSetsExt

CONSTANTS
    SampleCount,               \* metric_sample_count
    LinuxSlack, WindowsSlack,  \* samples a stress test may miss: 15 and 5
    Mega,                      \* 1024 * 1024
    Period,                    \* agent_collection_period
    Values, MaxPoints, Hits    \* what CloudWatch may answer

ChecksAssumption ==
    /\ {SampleCount, Mega, Period} \subseteq Nat \ {0}
    /\ {LinuxSlack, WindowsSlack} \subseteq 0 .. SampleCount
    /\ Values \subseteq Nat /\ MaxPoints \in Nat

VARIABLES
    job,       \* what the parameters ask for
    saw,       \* the answers so far, one for each item
    errs,      \* multiErr: the items it is about
    results,   \* performanceMetricResults
    recorded,  \* the database has the packet of this round
    verdict

checkVars == <<job, saw, errs, results, recorded, verdict>>

-------------------------------------------------------------------------------
(* The parameters.                                                         *)

Metric(name, value) == [kind |-> "metric", name |-> name, value |-> value]
AppSignal == [kind |-> "app signal"]
Traces == [kind |-> "traces"]

\* GetDataRate: a rate that is not a number is 0.
DataRate(text) == IF text = "<values_per_minute>" THEN "0" ELSE text

Job(type, os, rate, receiver, items) ==
    [type |-> type, os |-> os, rate |-> DataRate(rate), receiver |-> receiver,
     items |-> items]

Rates == {"1000", "5000", "10000", "50000"}
AgentMetrics == {<<"procstat_cpu_usage">>, <<"procstat_memory_rss">>, <<"procstat_memory_swap">>,
                 <<"procstat_memory_vms">>, <<"procstat_memory_data">>, <<"procstat_num_fds">>}
NetMetrics == {<<"net_bytes_sent">>, <<"net_packets_sent">>}
WindowsMetrics == {<<"procstat", "cpu_usage">>, <<"procstat", "memory_rss">>,
                   <<"procstat", "memory_vms">>, <<"Bytes_Sent_Per_Sec">>,
                   <<"Packets_Sent_Per_Sec">>}
LinuxReceivers == {"statsd", "collectd", "logs", "system", "emf", "prometheus"}
WindowsReceivers == {"logs", "system"}

\* Slip: the scraped receiver has no row of its own.
ReceiversSending(os) ==
    IF os = "windows" THEN WindowsReceivers ELSE LinuxReceivers \ {"prometheus"}

Receivers(os) == IF os = "windows" THEN WindowsReceivers ELSE LinuxReceivers

\* The metrics that the table of an operating system bounds: nobody may swap.
LinuxBound(receiver) ==
    [m \in AgentMetrics \cup IF receiver = "prometheus" THEN {} ELSE NetMetrics |->
        IF m = <<"procstat_memory_swap">> THEN 0 ELSE 10]
WindowsBound(receiver) == [m \in WindowsMetrics |-> 10]

Bound(os, receiver) ==
    IF os = "windows" THEN WindowsBound(receiver) ELSE LinuxBound(receiver)

\* test/stress/*/parameters.yml, each test at each rate.
StressTests ==
    {"linux"} \X LinuxReceivers \X AgentMetrics
    \cup {"linux"} \X (LinuxReceivers \ {"prometheus"}) \X NetMetrics
    \cup {"windows"} \X {"logs", "system"} \X WindowsMetrics

\* Metrics of the performance tests, of which the byte counts become megabytes.
InBytes == {"procstat_memory_rss", "procstat_memory_swap", "procstat_memory_vms",
            "procstat_memory_data", "procstat_write_bytes", "mem_total", "memory_rss",
            "memory_vms", "write_bytes", "Bytes_Sent_Per_Sec", "Available_Bytes"}

FeatureItems == {Metric(<<"cpu_time_active">>, v) : v \in {0, 10}} \cup {AppSignal}
FeatureLogs == [kind : {"log"}, source : {"file"}, lines : {1, 2}, by : {{}}]
               \cup [kind : {"log"}, source : {"WindowsEvents"}, lines : 0 .. 2,
                    by : {{"level"}, {"level", "id"}}]
FeatureTests == (FeatureItems \X {Traces}) \cup (FeatureItems \X {Traces} \X FeatureLogs)

TwoMetrics == {<<"procstat_memory_swap">>, <<"net_bytes_sent">>} \X
              {<<"procstat_memory_swap">>, <<"net_bytes_sent">>}

FeatureJobs == {Job("feature", "windows", "2", "system", items) : items \in FeatureTests}

StressJobs ==
    {Job("stress", "linux", "1000", "emf", <<Metric(p[1], 0), Metric(p[2], 0)>>) :
        p \in TwoMetrics}
    \cup UNION {{Job("stress", t[1], r, t[2], <<Metric(t[3], 0)>>) :
                    r \in Rates \cup {"<values_per_minute>"}} : t \in StressTests}

PerformanceJobs ==
    {Job("performance", "linux", "1000", "emf",
         <<Metric(<<"mem_total">>, 0), Metric(<<"net_packets_sent">>, 0)>>),
     Job("performance", "windows", "1000", "logs",
         <<Metric(<<"procstat", "cpu_usage">>, 0), Metric(<<"procstat", "memory_rss">>, 0)>>)}

Jobs == FeatureJobs \cup StressJobs \cup PerformanceJobs

-------------------------------------------------------------------------------
(* What CloudWatch answers (external).  The window of a test is one period *)
(* long, and only a performance test asks for more than one datapoint.     *)

Series(n) == UNION {[1 .. k -> Values \cup {-2}] : k \in 0 .. n}

Hit(ts) == {Event(ts, msg) : msg \in {{}, {"line"}} \cup {{"line"} \cup h : h \in Hits}}

Counts == {<<>>} \cup {<<n>> : n \in 0 .. SampleCount + 1} \cup {<<1, SampleCount - 1>>}

CallFails == [err |-> TRUE, values |-> <<>>, countErr |-> TRUE, counts |-> <<>>, events |-> <<>>]

Answer(values, counts, events) ==
    [err : {FALSE}, values : values, countErr : {FALSE}, counts : counts, events : events]
    \cup [err : {FALSE}, values : values, countErr : {counts = Counts}, counts : {<<>>},
          events : events]

Answers(item) ==
    {CallFails} \cup
    CASE item.kind = "traces" -> Answer({<<>>}, {<<>>}, {<<>>})
      [] item.kind = "log" ->
            Answer({<<>>}, {<<>>}, UNION {[1 .. k -> Hit(1) \cup Hit(2)] : k \in 0 .. 2})
      [] item.kind = "app signal" -> Answer(Series(2), {<<>>}, {<<>>})
      [] item.kind = "metric" /\ job.type = "performance" ->
            Answer(Series(MaxPoints), {<<>>}, {<<>>})
      [] item.kind = "metric" /\ job.type # "performance" ->
            Answer(Series(1), Counts, {<<>>})

-------------------------------------------------------------------------------
(* The checks: nothing wrong, or what.                                     *)

Total(seq) == FoldLeft(LAMBDA a, b : a + b, 0, seq)

\* ValidateSampleCount.
SampleCountOK(a, low, high) == ~a.countErr /\ Total(a.counts) \in low .. high

\* Slip: nothing is not negative.
NoNegative(values) == \A i \in DOMAIN values : values[i] >= 0

NoneNegative(values) == values # <<>> /\ \A i \in DOMAIN values : values[i] >= 0

\* Exactly the samples, and ten percent around the value unless it is 0.
ValidateMetric(item, a) ==
    IF a.err THEN "api"
    ELSE IF a.values = <<>> THEN "missing"
    ELSE IF ~SampleCountOK(a, SampleCount, SampleCount) THEN "samples"
    ELSE IF item.value # 0 /\ a.values[1] \notin item.value - 1 .. item.value + 1 THEN "value"
    ELSE "ok"

ValidateAppSignalMetrics(a) ==
    IF a.err THEN "api" ELSE IF NoneNegative(a.values) THEN "ok" ELSE "value"

\* That no trace was found is no error.
ValidateTracesMetrics(a) == IF a.err THEN "api" ELSE "ok"

\* Slip: a hit is a hit whatever the line says.
CountAnyLine(item, events) ==
    Total([i \in DOMAIN events |-> IF item.source = "file" THEN 1
                                   ELSE Cardinality(item.by \cap events[i].msg)])

\* An event of the Windows log counts by its level and once more by its id.
Count(item, events) ==
    Total([i \in DOMAIN events |->
        IF "line" \notin events[i].msg THEN 0
        ELSE IF item.source = "file" THEN 1
        ELSE Cardinality(item.by \cap events[i].msg)])

ValidateLogs(item, a) ==
    IF a.err THEN "api"
    ELSE IF ~LogsNotEmpty(a.events) THEN "empty"
    ELSE IF ~NoDuplicateLogs(a.events) THEN "duplicate"
    ELSE IF Count(item, a.events) < item.lines THEN "few" ELSE "ok"

\* The maximum of the period, at most thirty percent above its bound.  On
\* Linux and on Windows alike, but for the slack of the sample count.
ValidateStressMetric(item, a) ==
    LET bound == Bound(job.os, job.receiver)
        slack == IF job.os = "windows" THEN WindowsSlack ELSE LinuxSlack
    IN  IF a.err THEN "api"
        ELSE IF a.values = <<>> THEN "missing"
        ELSE IF ~(job.rate \in Rates /\ job.receiver \in Receivers(job.os)) THEN "no rate"
        ELSE IF item.name \notin DOMAIN bound THEN "no bound"
        ELSE IF a.values[1] < 0 \/ 10 * a.values[1] > 13 * bound[item.name] THEN "value"
        ELSE IF ~SampleCountOK(a, SampleCount - slack, SampleCount) THEN "samples"
        ELSE "ok"

Check(item, a) ==
    CASE item.kind = "traces" -> ValidateTracesMetrics(a)
      [] item.kind = "log" -> ValidateLogs(item, a)
      [] item.kind = "app signal" -> ValidateAppSignalMetrics(a)
      [] item.kind = "metric" /\ job.type = "feature" -> ValidateMetric(item, a)
      [] item.kind = "metric" /\ job.type = "stress" -> ValidateStressMetric(item, a)

-------------------------------------------------------------------------------
(* The statistics of a performance test.                                   *)

\* Slip: the data is taken as it comes.
StatsUnsorted(data) ==
    LET n == Len(data)
    IN  [min |-> data[1], max |-> data[n], sum |-> Total(data), n |-> n,
         p99 |-> data[(n * 99) \div 100], period |-> Period \div n]

\* The k-th value of the sorted data.
Ranked(data, k) ==
    CHOOSE v \in ToSet(data) : /\ Cardinality({i \in DOMAIN data : data[i] < v}) < k
                              /\ Cardinality({i \in DOMAIN data : data[i] <= v}) >= k

\* CalculateMetricStatisticsBasedOnDataAndPeriod: the index of the 99th
\* percentile counts from 0, so that of one value is -1.
Stats(data) ==
    LET n == Len(data)
    IN  [min |-> Ranked(data, 1), max |-> Ranked(data, n), sum |-> Total(data), n |-> n,
         p99 |-> Ranked(data, (n * 99) \div 100), period |-> Period \div n]

\* A label is the dimensions, if need be, and the name.
Label(name) == IF job.os = "windows" THEN name ELSE <<"InstanceId">> \o name

\* Slip: the first word of the label.
FirstWord(name) == Label(name)[1]

LastWord(name) == Label(name)[Len(Label(name))]

Converted(i) ==
    [k \in DOMAIN saw[i].values |->
        IF LastWord(job.items[i].name) \in InBytes
        THEN saw[i].values[k] \div Mega ELSE saw[i].values[k]]

-------------------------------------------------------------------------------
Init ==
    /\ job \in Jobs
    /\ saw = <<>> /\ errs = {} /\ results = <<>> /\ recorded = FALSE
    /\ verdict = "checking"

\* Slip: the last check overwrites the error of those before.
KeepLast(i, reason) == IF reason = "ok" THEN {} ELSE {i}

KeepAll(i, reason) == errs \cup IF reason = "ok" THEN {} ELSE {i}

\* The next item of a feature or a stress test, and its check.
Ask ==
    /\ verdict = "checking" /\ Len(saw) < Len(job.items) /\ job.type # "performance"
    /\ \E a \in Answers(job.items[Len(saw) + 1]) :
          /\ saw' = Append(saw, a)
          /\ errs' = KeepAll(Len(saw'), Check(job.items[Len(saw')], a))
    /\ UNCHANGED <<job, results, recorded, verdict>>

\* And its Windows twin: a performance test asks for everything before it
\* judges, and gives up if it cannot.
GetPerformanceMetrics ==
    /\ verdict = "checking" /\ Len(saw) < Len(job.items) /\ job.type = "performance"
    /\ \E a \in Answers(job.items[Len(saw) + 1]) :
          /\ saw' = Append(saw, a)
          /\ verdict' = IF a.err THEN "failed" ELSE verdict
    /\ UNCHANGED <<job, errs, results, recorded>>

Asked == verdict = "checking" /\ Len(saw) = Len(job.items)

Conclude ==
    /\ Asked /\ job.type # "performance"
    /\ verdict' = IF errs = {} THEN "passed" ELSE "failed"
    /\ UNCHANGED <<job, saw, errs, results, recorded>>

\* CalculateMetricStatsAndPackMetrics and its Windows twin: one metric after
\* the other, up to the first that has no value or a negative one, or just one.
Calculate ==
    /\ Asked /\ job.type = "performance" /\ results = <<>>
    /\ LET bad == {i \in DOMAIN saw : ~NoneNegative(Converted(i))}
           single == {i \in DOMAIN saw : Len(saw[i].values) = 1}
       IN  IF bad \cup single = {}
           THEN /\ results' = [n \in {LastWord(job.items[i].name) : i \in DOMAIN saw} |->
                    Stats(Converted(Max({i \in DOMAIN saw : LastWord(job.items[i].name) = n})))]
                /\ UNCHANGED verdict
           ELSE /\ verdict' = IF Min(bad \cup single) \in bad THEN "failed" ELSE "panic"
                /\ UNCHANGED results
    /\ UNCHANGED <<job, saw, errs, recorded>>

SendPacketToDatabase ==
    /\ Asked /\ results # <<>>
    /\ \/ recorded' = TRUE /\ verdict' = "passed"
       \/ recorded' \in BOOLEAN /\ verdict' = "failed"
    /\ UNCHANGED <<job, saw, errs, results>>

Next == Ask \/ Conclude \/ GetPerformanceMetrics \/ Calculate \/ SendPacketToDatabase

Spec == Init /\ [][Next]_checkVars

-------------------------------------------------------------------------------
(* Properties                                                              *)

\* The value that parameters.yml wants, or one within thirty percent of the bound
\* (stress_validator.go:434, :487, "acceptable value +- 30%"): 7 is low there.
Near(name, value, v, low) ==
    IF job.type = "feature" THEN value = 0 \/ v - value \in -1 .. 1
    ELSE IF name = <<"procstat_memory_swap">> THEN v = 0
    ELSE v \in low .. 13

Slack == IF job.type = "feature" THEN 0
         ELSE IF job.os = "windows" THEN WindowsSlack ELSE LinuxSlack

\* Events with the line, and of the Windows log with all, or with one, of the words.
With(item, a) == {e \in ToSet(a.events) : {"line"} \cup item.by \subseteq e.msg}
WithAny(item, a) ==
    {e \in ToSet(a.events) : "line" \in e.msg /\ (item.by = {} \/ item.by \cap e.msg # {})}

\* An item is as wanted: the samples, all of them or with few missing, and the
\* value; events that differ, and enough of them.
Meets(i, low, enough) ==
    LET item == job.items[i]
        a == saw[i]
    IN  /\ ~a.err
        /\ item.kind = "app signal" => a.values # <<>> /\ Min(ToSet(a.values)) >= 0
        /\ item.kind = "metric" =>
              /\ ~a.countErr /\ SampleCount - Total(a.counts) \in 0 .. Slack
              /\ \E v \in ToSet(a.values) : Near(item.name, item.value, v, low)
        /\ item.kind = "log" =>
              a.events # <<>> /\ Cardinality(ToSet(a.events)) = Len(a.events) /\ enough

RateKnown == job.type = "stress" => job.rate \in Rates

\* As it should be: "at least %d log event(s)" (basic_validator.go:190).
Good(i) ==
    /\ RateKnown
    /\ Meets(i, 7, Cardinality(With(job.items[i], saw[i])) >= job.items[i].lines)

\* What is let pass although it is not: a stress metric however far below its
\* bound, as stress_validator.go:439 looks at the upper end only; and half of the
\* Windows events, since one counts for its level and once more for its id.
LetPass(i) ==
    /\ RateKnown
    /\ Meets(i, 0, Cardinality(job.items[i].by) * Cardinality(WithAny(job.items[i], saw[i]))
                       >= job.items[i].lines)
    /\ \/ job.type = "stress"
       \/ job.items[i].kind = "log" /\ job.items[i].source = "WindowsEvents"

\* The error of a round names no metric or log that is as it should be, and it
\* names each one that is not, but for the two leniencies above: none hides
\* another, in whatever order they come, and no stress test fails for want of a
\* bound (CheckData of the feature and the stress validator, and its tables).
ErrorsExact ==
    job.type # "performance" =>
        \A i \in DOMAIN saw :
            /\ i \in errs => ~Good(i)
            /\ i \notin errs => Good(i) \/ LetPass(i)

\* A performance test that passed has put statistics of every one of its
\* metrics into the database, each of its own values, and in order
\* (CalculateMetricStatsAndPackMetrics, SendPacketToDatabase).
PacketComplete ==
    job.type = "performance" /\ verdict = "passed" =>
        /\ recorded
        /\ \A i \in DOMAIN saw :
              LET values == ToSet(saw[i].values)
                  name == job.items[i].name[Len(job.items[i].name)]
                  unit == IF name \in InBytes THEN Mega ELSE 1
              IN  /\ name \in DOMAIN results /\ values # {}
                  /\ results[name].min = Min(values) \div unit /\ Min(values) >= 0
                  /\ results[name].max = Max(values) \div unit
                  /\ results[name].p99 \in results[name].min .. results[name].max

\* performance_stats.go:45: with fewer than 99 values the 99th percentile "will
\* be equal the max value".
FewValuesP99IsMax ==
    \A n \in DOMAIN results : results[n].n < 99 => results[n].p99 = results[n].max

===============================================================================
