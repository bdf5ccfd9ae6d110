----------------------------- MODULE Monitoring -----------------------------
(***************************************************************************)
(* What the server counts of itself: the response times of                  *)
(* src/middleware/performance.ts, the request counts and alerts of          *)
(* src/services/monitoringService.ts with the tracker of                    *)
(* src/middleware/monitoringMiddleware.ts in front, the buffer of           *)
(* src/services/datadogService.ts and the samples of                        *)
(* src/services/performanceMonitor.ts with their table.                     *)
(***************************************************************************)
EXTENDS Integers, Sequences, FiniteSets

CONSTANTS
    Requests,       \* bound: requests
    AlertAfter,     \* requests before an error rate may raise an alert; 100 in the code
    RateInverse,    \* the rate that raises one, as 1/RateInverse; 1/20 in the code
    BufferLimit,    \* metrics that make the buffer flush; 100 in the code
    SlowLimit,      \* slow requests that are kept; 100 in the code
    HistoryLimit,   \* samples that are kept; 1440 in the code
    MaxSamples,     \* bound: samples
    MaxMetricResets \* bound: calls of resetPerformanceMetrics

ASSUME MonitoringAssumption ==
    /\ \A n \in {AlertAfter, RateInverse, BufferLimit, SlowLimit, HistoryLimit} : n \in Nat \ {0}
    /\ MaxSamples \in Nat

VARIABLES
    request,      \* where each request is, and the kind of its path
    perf,         \* metrics of performance.ts
    answered,     \* history: requests measured since the last reset, in order
    counts,       \* requestCounts and errorCounts
    alerts,       \* history: the counts at each error-rate alert
    datadog,      \* initialized, metricsBuffer, and how many metrics left it
    resetsUsed,
    history,      \* metricsHistory, its samples numbered
    samples,      \* how many samples have been taken
    collector,    \* where the collection of each sample is
    metricsTable  \* performance_metrics: whether it exists, and its index

monitoringVars == <<request, perf, answered, counts, alerts, datadog, resetsUsed,
                    history, samples, collector, metricsTable>>
requestVars == <<request, perf, answered, counts, alerts, resetsUsed>>
sampleVars  == <<history, samples, collector, metricsTable>>

\* What the two middlewares tell apart in a path.
Paths == {"task", "health", "static"}

\* Response times: over no threshold, over that of performance.ts, over that of
\* monitoringService.ts too.
Times == 1 .. 3
SlowRequest == 1
SlowApi == 2

NoPerf == [count |-> 0, total |-> 0, max |-> 0, min |-> 4,  \* no time is 4
           perPath |-> [p \in Paths |-> 0], timePerPath |-> [p \in Paths |-> 0],
           slow |-> <<>>]

MonitoringInit ==
    /\ request = [r \in Requests |-> "unseen"]
    /\ perf = NoPerf
    /\ answered = <<>>
    /\ counts = [total |-> 0, success |-> 0, error |-> 0, errors |-> 0, critical |-> 0]
    /\ alerts = {}
    /\ datadog = [up |-> "no", buffer |-> 0, cleared |-> 0, tracked |-> 0]
    /\ resetsUsed = 0
    /\ history = <<>>
    /\ samples = 0
    /\ collector = [s \in 1 .. MaxSamples |-> "none"]
    /\ metricsTable = [exists |-> FALSE, indexed |-> FALSE]

-----------------------------------------------------------------------------
(* The buffer                                                               *)

Full(n) == n >= BufferLimit

\* flushMetrics is a stub: it logs how many metrics there are and clears them.
FlushMetrics(d) == [d EXCEPT !.buffer = 0, !.cleared = @ + d.buffer]

TrackMetric(d) ==
    LET pushed == [d EXCEPT !.buffer = @ + 1, !.tracked = @ + 1]
    IN  IF Full(pushed.buffer) THEN FlushMetrics(pushed) ELSE pushed

\* n metrics, one to four, one after the other.
TrackMetrics(d, n) ==
    LET one   == TrackMetric(d)
        two   == TrackMetric(one)
        three == TrackMetric(two)
    IN  IF d.up = "no" THEN d ELSE <<one, two, three, TrackMetric(three)>>[n]

\* initialize, with or without an API key, and the first resource sample.
InitializeMonitoring ==
    /\ datadog.up = "no"
    /\ datadog' = TrackMetrics([datadog EXCEPT !.up = "yes"], 4)
    /\ UNCHANGED <<requestVars, sampleVars>>

\* The interval of startResourceTracking; it also goes on after the shutdown.
TrackSystemResources ==
    /\ datadog.up # "no"
    /\ datadog.tracked < 2 * BufferLimit
    /\ datadog' = TrackMetrics(datadog, 4)
    /\ UNCHANGED <<requestVars, sampleVars>>

\* trackDatabaseQuery
TrackDatabaseQuery(slow) ==
    /\ datadog.up # "no"
    /\ datadog.tracked < 2 * BufferLimit
    /\ datadog' = TrackMetrics(datadog, IF slow THEN 3 ELSE 2)
    /\ UNCHANGED <<requestVars, sampleVars>>

\* shutdown, at SIGTERM: requests that are still open are answered after it.
ShutDownMonitoring ==
    /\ datadog.up = "yes"
    /\ datadog' = [FlushMetrics(datadog) EXCEPT !.up = "flushed"]
    /\ UNCHANGED <<requestVars, sampleVars>>

-----------------------------------------------------------------------------
(* Requests                                                                 *)

\* Both middlewares note the time and replace res.end.
BeginRequest(r) ==
    /\ request[r] = "unseen"
    /\ \E p \in Paths : request' = [request EXCEPT ![r] = p]
    /\ UNCHANGED <<perf, answered, counts, alerts, datadog, resetsUsed, sampleVars>>

LastOnes(seq, limit) ==
    SubSeq(seq, IF Len(seq) > limit THEN Len(seq) - limit + 1 ELSE 1, Len(seq))

\* The res.end of performance.ts.
Measured(p, time) ==
    [count |-> perf.count + 1,
     total |-> perf.total + time,
     max |-> IF time > perf.max THEN time ELSE perf.max,
     min |-> IF time < perf.min THEN time ELSE perf.min,
     perPath |-> [perf.perPath EXCEPT ![p] = @ + 1],
     timePerPath |-> [perf.timePerPath EXCEPT ![p] = @ + time],
     slow |-> IF time > SlowRequest THEN LastOnes(Append(perf.slow, time), SlowLimit)
                                    ELSE perf.slow]

\* trackApiRequest: the counts.
Counted(ok) == [counts EXCEPT !.total = @ + 1,
                              !.success = @ + (IF ok THEN 1 ELSE 0),
                              !.error = @ + (IF ok THEN 0 ELSE 1)]

\* trackApiRequest: the error rate is over the threshold.
RateExceeded(c) == c.error * RateInverse > c.total /\ c.total >= AlertAfter

\* The answer is sent: the tracker's res.end, then that of performance.ts.  A
\* client that goes away first is not counted by either.
EndRequest(r) ==
    /\ request[r] \in Paths
    /\ \E time \in Times, ok \in BOOLEAN :
         LET p == request[r]
             tracked == p # "health"
         IN
         /\ IF tracked
            THEN /\ counts' = Counted(ok)
                 /\ alerts' = alerts \cup (IF RateExceeded(Counted(ok)) THEN {Counted(ok)} ELSE {})
                 /\ datadog' = TrackMetrics(datadog, IF time > SlowApi THEN 3 ELSE 2)
            ELSE UNCHANGED <<counts, alerts, datadog>>
         /\ IF p # "static"
            THEN /\ perf' = Measured(p, time)
                 /\ answered' = Append(answered, [path |-> p, time |-> time])
            ELSE UNCHANGED <<perf, answered>>
    /\ request' = [request EXCEPT ![r] = "over"]
    /\ UNCHANGED <<resetsUsed, sampleVars>>

\* A critical error of the start of the server (trackError).
TrackError ==
    /\ counts.errors = 0
    /\ counts' = [counts EXCEPT !.errors = @ + 1, !.critical = @ + 1]
    /\ datadog' = TrackMetrics(datadog, 1)
    /\ UNCHANGED <<request, perf, answered, alerts, resetsUsed, sampleVars>>

ResetPerformanceMetrics ==
    /\ resetsUsed < MaxMetricResets
    /\ perf' = NoPerf
    /\ answered' = <<>>
    /\ resetsUsed' = resetsUsed + 1
    /\ UNCHANGED <<request, counts, alerts, datadog, sampleVars>>

-----------------------------------------------------------------------------
(* Samples: each tick of the interval begins one, whether or not those       *)
(* before have been stored.                                                 *)

Collect(s, label) == collector' = [collector EXCEPT ![s] = label]

CollectPerformanceMetrics ==
    /\ samples < MaxSamples
    /\ samples' = samples + 1
    /\ history' = LastOnes(Append(history, samples + 1), HistoryLimit)
    /\ Collect(samples + 1, "check")
    /\ UNCHANGED <<metricsTable, requestVars, datadog>>

\* checkTableExists: execute ignores its second argument, so $1 has no value
\* and the statement fails: the table is taken as missing.
CheckTableExists(s) ==
    /\ collector[s] = "check"
    /\ Collect(s, "create")
    /\ UNCHANGED <<history, samples, metricsTable, requestVars, datadog>>

\* createMetricsTable: a table that exists makes it fail, index included.
CreateMetricsTable(s) ==
    /\ collector[s] = "create"
    /\ \/ /\ ~ metricsTable.exists
          /\ metricsTable' = [metricsTable EXCEPT !.exists = TRUE]
          /\ Collect(s, "index")
       \/ UNCHANGED metricsTable /\ Collect(s, "insert")
    /\ UNCHANGED <<history, samples, requestVars, datadog>>

CreateMetricsIndex(s) ==
    /\ collector[s] = "index"
    /\ metricsTable' \in {metricsTable, [metricsTable EXCEPT !.indexed = TRUE]}
    /\ Collect(s, "insert")
    /\ UNCHANGED <<history, samples, requestVars, datadog>>

\* The INSERT has parameters without values too: it fails and ends the
\* collection, and cleanupOldMetrics is not reached.
InsertMetrics(s) ==
    /\ collector[s] = "insert"
    /\ Collect(s, "over")
    /\ UNCHANGED <<history, samples, metricsTable, requestVars, datadog>>

\* The requests and the samples share no state.
RequestsNext ==
    \/ InitializeMonitoring \/ TrackSystemResources \/ ShutDownMonitoring
    \/ \E slow \in BOOLEAN : TrackDatabaseQuery(slow)
    \/ \E r \in Requests : BeginRequest(r) \/ EndRequest(r)
    \/ TrackError \/ ResetPerformanceMetrics

SamplesNext ==
    \/ CollectPerformanceMetrics
    \/ \E s \in 1 .. MaxSamples :
         CheckTableExists(s) \/ CreateMetricsTable(s) \/ CreateMetricsIndex(s) \/ InsertMetrics(s)

-----------------------------------------------------------------------------
MonitoringTypeOK ==
    /\ request \in [Requests -> Paths \cup {"unseen", "over"}]
    /\ perf.max \in 0 .. 3 /\ perf.min \in 1 .. 4
    /\ \A c \in {"total", "success", "error", "errors", "critical"} : counts[c] \in Nat
    /\ datadog.up \in {"no", "yes", "flushed"}
    /\ samples \in 0 .. MaxSamples
    /\ \A s \in 1 .. MaxSamples :
         collector[s] \in {"none", "check", "create", "index", "insert", "over"}
    /\ metricsTable.indexed => metricsTable.exists

TimesOf(p) == {i \in 1 .. Len(answered) : p = answered[i].path}

\* The times of the requests on a path, in all.
TimeOf(p) ==
    LET upTo[n \in 0 .. Len(answered)] ==
          IF n = 0 THEN 0
          ELSE upTo[n - 1] + (IF answered[n].path = p THEN answered[n].time ELSE 0)
    IN  upTo[Len(answered)]

SlowOnes == {i \in 1 .. Len(answered) : answered[i].time > SlowRequest}
SlowAfter(i) == Cardinality({j \in SlowOnes : j > i})

AtMostOf(n, limit) == IF n <= limit THEN n ELSE limit

(* The response times are those of the requests answered since the last     *)
(* reset, opened before it or after, in all and path by path, and the slow   *)
(* ones are its last ones; every request that is counted is a success or an  *)
(* error and no alert is raised below the rate or on too few of them; every  *)
(* metric was in one flush or is still in the buffer, which stays below its  *)
(* limit; the history holds the last samples in order, however many          *)
(* collections overlap.                                                     *)
MonitoringHonest ==
    /\ perf.count = Len(answered)
    /\ \A p \in Paths :
         /\ perf.perPath[p] = Cardinality(TimesOf(p))
         /\ perf.timePerPath[p] = TimeOf(p)
    /\ perf.total = perf.timePerPath["task"] + perf.timePerPath["health"]
                    + perf.timePerPath["static"]
    /\ perf.count > 0 => /\ perf.min * perf.count <= perf.total
                         /\ perf.total <= perf.max * perf.count
    /\ Len(perf.slow) = AtMostOf(Cardinality(SlowOnes), SlowLimit)
    /\ \A i \in SlowOnes : SlowAfter(i) < SlowLimit =>
                             perf.slow[Len(perf.slow) - SlowAfter(i)] = answered[i].time
    /\ counts.success + counts.error = counts.total
    /\ \A a \in alerts : a.total >= AlertAfter /\ a.error * RateInverse > a.total
    /\ datadog.buffer < BufferLimit
    /\ datadog.cleared + datadog.buffer = datadog.tracked
    /\ Len(history) = AtMostOf(samples, HistoryLimit)
    /\ \A i \in 1 .. Len(history) : history[i] = samples - Len(history) + i

=============================================================================
