----------------------------- MODULE ClaudeCode -----------------------------
(***************************************************************************)
(* The Claude Code adapter (internal/claudecode): ConsumeMetric and        *)
(* ConsumeLog called concurrently by the receiver's handlers, beside the   *)
(* goroutine of Run that installs the sink and drops it.  Every atomic     *)
(* variable, sync.Once and lock is a step of its own.                      *)
(*                                                                         *)
(* A record is [kind, instance, host, points]: points is a metric's number *)
(* of data points.  What an event says is in module Normalize.             *)
(***************************************************************************)
EXTENDS Naturals, Sequences, FiniteSets

CONSTANTS
  Calls,             \* calls of ConsumeMetric and ConsumeLog
  Records,           \* the records they may be given
  metricsOnlyGrace   \* aggregates skipped before the metrics-only warning

ASSUME GraceAssumption == metricsOnlyGrace \in Nat \ {0}
ASSUME PointsAssumption == \A rec \in Records : rec.points \in Nat

\* An aggregate is token.usage or cost.usage; an activity is any other metric
\* of a shape the adapter maps, a summary one of a shape it does not; a call
\* is an api_request event, an event any other log record.
Kinds == {"aggregate", "activity", "summary", "call", "event"}
Logs  == {"call", "event"}

VARIABLES
  run,        \* Adapter.Run: "before", "running", "after"
  sink,       \* a.sink # nil
  sawLog, skippedAggregates,
  warnedMetricsOnly, warnedInstance,   \* the two sync.Once have fired
  pc,         \* where each call is
  record,     \* what it was given
  point,      \* data points it has emitted
  result,     \* "none", "nil", "errNotRunning" or "errUnsupported"
  events      \* the events the sink has received, in order

warnVars == <<sawLog, skippedAggregates, warnedMetricsOnly, warnedInstance>>
vars == <<run, sink, warnVars, pc, record, point, result, events>>

NoRecord == [kind |-> "event", instance |-> "", host |-> "", points |-> 0]

TypeOK ==
  /\ run \in {"before", "running", "after"}
  /\ {sink, sawLog, warnedMetricsOnly, warnedInstance} \subseteq BOOLEAN
  /\ skippedAggregates \in Nat
  /\ pc \in [Calls -> {"idle", "loadSawLog", "skip", "warn", "instance", "read",
                       "write", "returned"}]
  /\ record \in [Calls -> Records \cup {NoRecord}]
  /\ point \in [Calls -> Nat]
  /\ result \in [Calls -> {"none", "nil", "errNotRunning", "errUnsupported"}]
  /\ \A i \in DOMAIN events : events[i].call \in Calls

Init ==
  /\ run = "before" /\ sink = FALSE
  /\ sawLog = FALSE /\ skippedAggregates = 0
  /\ warnedMetricsOnly = FALSE /\ warnedInstance = FALSE
  /\ pc = [c \in Calls |-> "idle"]
  /\ record = [c \in Calls |-> NoRecord]
  /\ point = [c \in Calls |-> 0]
  /\ result = [c \in Calls |-> "none"]
  /\ events = <<>>

-----------------------------------------------------------------------------
(* Adapter.Run.                                                            *)

InstallSink ==
  /\ run = "before" /\ run' = "running" /\ sink' = TRUE
  /\ UNCHANGED <<warnVars, pc, record, point, result, events>>

\* A slip: Run leaves by some other state.
DropSinkElsewhere ==
  /\ run = "running" /\ run' = "stopping" /\ sink' = FALSE
  /\ UNCHANGED <<warnVars, pc, record, point, result, events>>

\* The context is done.
DropSink ==
  /\ run = "running" /\ run' = "after" /\ sink' = FALSE
  /\ UNCHANGED <<warnVars, pc, record, point, result, events>>

-----------------------------------------------------------------------------
(* ConsumeMetric and ConsumeLog.                                           *)

\* A call begins: a log sets sawLog at once, an aggregate is only counted.
BeginMetric(c, rec) ==
  /\ pc[c] = "idle"
  /\ rec.kind \notin Logs
  /\ record' = [record EXCEPT ![c] = rec]
  /\ pc' = [pc EXCEPT ![c] = IF rec.kind = "aggregate" THEN "loadSawLog" ELSE "instance"]
  /\ UNCHANGED <<run, sink, warnVars, point, result, events>>

BeginLog(c, rec) ==
  /\ pc[c] = "idle"
  /\ rec.kind \in Logs
  /\ record' = [record EXCEPT ![c] = rec]
  /\ sawLog' = TRUE
  /\ pc' = [pc EXCEPT ![c] = "instance"]
  /\ UNCHANGED <<run, sink, skippedAggregates, warnedMetricsOnly, warnedInstance,
                 point, result, events>>

Return(c, value) ==
  /\ pc' = [pc EXCEPT ![c] = "returned"]
  /\ result' = [result EXCEPT ![c] = value]

\* A slip: what has been seen is not asked.
SkipSawLog(c) ==
  /\ pc[c] = "loadSawLog"
  /\ pc' = [pc EXCEPT ![c] = "skip"]
  /\ UNCHANGED <<run, sink, warnVars, record, point, result, events>>

\* warnIfMetricsOnly: load, then count, then warn, each atomic by itself.
LoadSawLog(c) ==
  /\ pc[c] = "loadSawLog"
  /\ IF sawLog THEN Return(c, "nil") ELSE pc' = [pc EXCEPT ![c] = "skip"] /\ result' = result
  /\ UNCHANGED <<run, sink, warnVars, record, point, events>>

\* Slips: the comparison is off by one, either way.
WithinLongerGrace(n) == n <= metricsOnlyGrace
WithinShorterGrace(n) == n + 1 < metricsOnlyGrace

\* Fewer than metricsOnlyGrace skipped so far.
WithinGrace(n) == n < metricsOnlyGrace

SkipAggregate(c) ==
  /\ pc[c] = "skip"
  /\ skippedAggregates' = skippedAggregates + 1
  /\ IF WithinGrace(skippedAggregates + 1)
       THEN Return(c, "nil")
       ELSE pc' = [pc EXCEPT ![c] = "warn"] /\ result' = result
  /\ UNCHANGED <<run, sink, sawLog, warnedMetricsOnly, warnedInstance,
                 record, point, events>>

WarnMetricsOnly(c) ==
  /\ pc[c] = "warn"
  /\ warnedMetricsOnly' = TRUE
  /\ Return(c, "nil")
  /\ UNCHANGED <<run, sink, sawLog, skippedAggregates, warnedInstance, record,
                 point, events>>

\* instanceFrom: service.instance.id, then host.name, never service.name.
InstanceUnset == "UNSET-see-OTEL_RESOURCE_ATTRIBUTES"
instanceFrom(rec) ==
  IF rec.instance # "" THEN rec.instance
  ELSE IF rec.host # "" THEN rec.host ELSE InstanceUnset

\* The record has something to emit.
Points(rec) == IF rec.kind \in Logs THEN 1 ELSE rec.points

\* The warning, and the choice by the metric's shape.
ResolveInstance(c) ==
  /\ pc[c] = "instance"
  /\ warnedInstance' = (warnedInstance \/ instanceFrom(record[c]) = InstanceUnset)
  /\ IF record[c].kind = "summary" THEN Return(c, "errUnsupported")
     ELSE IF Points(record[c]) = 0 THEN Return(c, "nil")
     ELSE pc' = [pc EXCEPT ![c] = "read"] /\ result' = result
  /\ UNCHANGED <<run, sink, sawLog, skippedAggregates, warnedMetricsOnly,
                 record, point, events>>

\* emit: the sink is read under the lock ...
ReadSink(c) ==
  /\ pc[c] = "read"
  /\ IF sink THEN pc' = [pc EXCEPT ![c] = "write"] /\ result' = result
             ELSE Return(c, "errNotRunning")
  /\ UNCHANGED <<run, sink, warnVars, record, point, events>>

\* A slip: one event for each metric.
AtFirstPoint(c) == point[c] = 0

\* The data point being emitted is the record's last.
AtLastPoint(c) == point[c] + 1 = Points(record[c])

\* A slip: numbers are read from every record that is not a plain event.
CarriesUsageUnlessEvent(kind) == kind # "event"

\* Only a model call carries tokens and cost.
CarriesUsage(kind) == kind = "call"

\* ... and called after it is released.  The loop ends at the first error, or
\* after the last data point.
Write(c) ==
  /\ pc[c] = "write"
  /\ events' = Append(events,
       [call |-> c, point |-> point[c] + 1, instance |-> instanceFrom(record[c]),
        usage |-> CarriesUsage(record[c].kind)])
  /\ point' = [point EXCEPT ![c] = @ + 1]
  /\ IF AtLastPoint(c) THEN Return(c, "nil")
     ELSE pc' = [pc EXCEPT ![c] = "read"] /\ result' = result
  /\ UNCHANGED <<run, sink, warnVars, record>>

Step(c) ==
  \/ LoadSawLog(c) \/ SkipAggregate(c) \/ WarnMetricsOnly(c)
  \/ ResolveInstance(c) \/ ReadSink(c) \/ Write(c)

Next ==
  \/ InstallSink \/ DropSink
  \/ \E c \in Calls : Step(c)
  \/ \E c \in Calls, rec \in Records : BeginMetric(c, rec) \/ BeginLog(c, rec)

Spec == Init /\ [][Next]_vars

-----------------------------------------------------------------------------
(* Properties.                                                             *)

Returned(c, kinds) == pc[c] = "returned" /\ record[c].kind \in kinds

\* An agent that exports its metrics but not its logs is reported: when the
\* grace has been used up and no log was ever seen, somebody has warned.
MetricsOnlyIsReported ==
  /\ ~sawLog
  /\ \E S \in SUBSET Calls : /\ Cardinality(S) >= metricsOnlyGrace
                             /\ \A c \in S : Returned(c, {"aggregate"})
  => warnedMetricsOnly

\* It is not reported early: fewer aggregates than the grace never warn.
NoEarlyWarning ==
  warnedMetricsOnly =>
    Cardinality({c \in Calls : record[c].kind = "aggregate"}) >= metricsOnlyGrace

\* Nor is it reported of an agent that sends its logs: once a log has been seen
\* and no aggregate is under way, nobody warns any more.  An aggregate that has
\* looked before the log came may still do so.
Quiet == /\ sawLog /\ ~warnedMetricsOnly
         /\ \A c \in Calls : record[c].kind = "aggregate" => pc[c] = "returned"
LogsSilenceTheWarning == [](Quiet => []~warnedMetricsOnly)

\* The data points of a call reach the sink in order and without a gap: all of
\* them if it returned nil, and a proper prefix if it failed half-way.
PointsOf(c) == {events[i].point : i \in {i \in DOMAIN events : events[i].call = c}}
PointsInOrder ==
  /\ \A i, j \in DOMAIN events :
       i < j /\ events[i].call = events[j].call => events[i].point < events[j].point
  /\ \A c \in Calls : Returned(c, Kinds \ {"aggregate"}) =>
       IF result[c] = "nil"
         THEN PointsOf(c) = 1 .. Points(record[c])
         ELSE \E n \in 0 .. Points(record[c]) : PointsOf(c) = 1 .. n /\ (n = 0 \/ n < Points(record[c]))

\* Tokens and cost are recorded once for each model call the sink took, and
\* never from the aggregates that restate them.
UsageOncePerCall ==
  \A c \in Calls :
    Cardinality({i \in DOMAIN events : events[i].call = c /\ events[i].usage})
      = IF Returned(c, {"call"}) /\ result[c] = "nil" THEN 1 ELSE 0
=============================================================================
