-------------------------- MODULE ClaudeCodeProofs ---------------------------
(***************************************************************************)
(* What the Claude Code adapter guarantees for every number of concurrent  *)
(* calls, every grace and every metric: the metrics-only warning is neither*)
(* missed nor early, points come in order, usage is recorded once.         *)
(***************************************************************************)
EXTENDS ClaudeCode, FiniteSetTheorems, TLAPS

-----------------------------------------------------------------------------
(* The inductive invariant.                                                *)

Metric(c) == record[c].kind = "aggregate"

\* Where a call is, and how far it has come with its data points.
CallsFit ==
  /\ pc \in [Calls -> {"idle", "loadSawLog", "skip", "warn", "instance", "read",
                       "write", "returned"}]
  /\ record \in [Calls -> Records \cup {NoRecord}]
  /\ point \in [Calls -> Nat]
  /\ result \in [Calls -> {"none", "nil", "errNotRunning", "errUnsupported"}]
  /\ \A c \in Calls :
       /\ IF pc[c] = "idle" THEN record[c] = NoRecord ELSE record[c] \in Records
       /\ pc[c] \in {"loadSawLog", "skip", "warn"} => Metric(c)
       /\ pc[c] \in {"instance", "read", "write"} => ~Metric(c)
       /\ Metric(c) \/ pc[c] \in {"idle", "instance"} => point[c] = 0
       /\ pc[c] \in {"read", "write"} => point[c] < Points(record[c])
       /\ pc[c] = "returned" /\ ~Metric(c) =>
            IF result[c] = "nil" THEN point[c] = Points(record[c])
                                 ELSE point[c] = 0 \/ point[c] < Points(record[c])

Entry == [call : Calls, point : Nat, instance : {instanceFrom(rec) : rec \in Records},
          usage : BOOLEAN]

\* An event is a data point that its call is past, and there is one for each.
EventsFit ==
  /\ events \in Seq(Entry)
  /\ \A i \in DOMAIN events :
       /\ events[i].point \in 1 .. point[events[i].call]
       /\ events[i].usage = CarriesUsage(record[events[i].call].kind)
  /\ \A i, j \in DOMAIN events :
       i < j /\ events[i].call = events[j].call => events[i].point < events[j].point
  /\ \A c \in Calls : \A p \in 1 .. point[c] :
       \E i \in DOMAIN events : events[i].call = c /\ events[i].point = p

\* The aggregates received, those that have been counted or did not need to
\* be, and those whose call has ended.
Received == {c \in Calls : Metric(c)}
Past     == {c \in Calls : Metric(c) /\ pc[c] \in {"warn", "returned"}}
Ended    == {c \in Calls : Metric(c) /\ pc[c] = "returned"}

\* The counter counts calls.
CounterFits ==
  /\ IsFiniteSet(Received)
  /\ skippedAggregates \in Nat
  /\ skippedAggregates <= Cardinality(Past)

\* Nobody warns, or is about to, before the grace has been used up.
NotEarly ==
  /\ warnedMetricsOnly => skippedAggregates >= metricsOnlyGrace
  /\ \A c \in Calls : pc[c] = "warn" => skippedAggregates >= metricsOnlyGrace

\* Before the warning and the first log, fewer calls than the grace have ended.
NotMissed ==
  ~sawLog /\ ~warnedMetricsOnly =>
    Cardinality(Ended) <= skippedAggregates /\ Cardinality(Ended) < metricsOnlyGrace

AInv == CallsFit /\ EventsFit /\ CounterFits /\ NotEarly /\ NotMissed

LEMMA InitAInv == Init => AInv
<1> SUFFICES ASSUME Init PROVE AInv
  OBVIOUS
<1>1. CallsFit
  BY DEF Init, CallsFit, NoRecord, Metric
<1>2. EventsFit
  <2>1. events \in Seq(Entry) /\ DOMAIN events = {}
    <3>1. events = <<>> /\ events \in Seq(Entry)
      BY DEF Init
    <3>2. Len(events) = 0
      BY <3>1
    <3>3. DOMAIN events = 1 .. Len(events)
      BY <3>1
    <3> QED BY <3>1, <3>2, <3>3
  <2>2. \A c \in Calls : 1 .. point[c] = {}
    BY DEF Init
  <2> QED BY <2>1, <2>2 DEF EventsFit
<1>3. Received = {} /\ Past = {} /\ Ended = {}
  BY DEF Init, Received, Past, Ended, Metric, NoRecord
<1>4. CounterFits /\ NotMissed
  <2>1. /\ IsFiniteSet(Received) /\ Cardinality(Past) = 0 /\ Cardinality(Ended) = 0
        /\ 0 < metricsOnlyGrace
    BY <1>3, FS_EmptySet, GraceAssumption
  <2>2. skippedAggregates = 0
    BY DEF Init
  <2> QED BY <2>1, <2>2 DEF CounterFits, NotMissed
<1>5. NotEarly
  BY DEF Init, NotEarly
<1> QED BY <1>1, <1>2, <1>4, <1>5 DEF AInv

-----------------------------------------------------------------------------
(* Every step keeps it.                                                    *)

\* What is counted is finite.
LEMMA Countable ==
  ASSUME CounterFits
  PROVE  /\ IsFiniteSet(Past) /\ IsFiniteSet(Ended)
         /\ Cardinality(Past) \in Nat /\ Cardinality(Ended) \in Nat
<1>1. Past \subseteq Received /\ Ended \subseteq Received
  BY DEF Past, Ended, Received
<1> QED BY <1>1, FS_Subset, FS_CardinalityType DEF CounterFits

\* Steps that move no aggregate and count nothing.
LEMMA UncountedKeeps ==
  ASSUME CounterFits, NotEarly, NotMissed,
         UNCHANGED <<skippedAggregates, warnedMetricsOnly, Received, Past, Ended>>,
         sawLog' \in {sawLog, TRUE},
         \A c \in Calls : pc[c]' = "warn" => pc[c] = "warn"
  PROVE  CounterFits' /\ NotEarly' /\ NotMissed'
<1>1. CounterFits'
  BY DEF CounterFits
<1>2. NotEarly'
  BY DEF NotEarly
<1>3. NotMissed'
  BY DEF NotMissed
<1> QED BY <1>1, <1>2, <1>3

LEMMA RunKeepsAInv == ASSUME AInv, InstallSink \/ DropSink PROVE AInv'
<1>1. UNCHANGED <<sawLog, skippedAggregates, warnedMetricsOnly, pc, record, point, result, events>>
  BY DEF InstallSink, DropSink, warnVars
<1>2. CallsFit' /\ EventsFit'
  BY <1>1 DEF AInv, CallsFit, EventsFit, Metric
<1>3. UNCHANGED <<Received, Past, Ended>>
  BY <1>1 DEF Received, Past, Ended, Metric
<1>4. CounterFits' /\ NotEarly' /\ NotMissed'
  BY <1>1, <1>3, UncountedKeeps DEF AInv
<1> QED BY <1>2, <1>4 DEF AInv

\* Events, and what they refer to, stay.
LEMMA SilentKeepsEvents ==
  ASSUME CallsFit, EventsFit, UNCHANGED <<point, events>>,
         \A c \in Calls : pc[c] = "idle" \/ record'[c] = record[c]
  PROVE  EventsFit'
<1>1. \A i \in DOMAIN events : /\ events[i].call \in Calls
                               /\ point[events[i].call] # 0
  <2> SUFFICES ASSUME NEW i \in DOMAIN events
               PROVE  events[i].call \in Calls /\ point[events[i].call] # 0
    OBVIOUS
  <2>1. events[i] \in Entry
    BY DEF EventsFit
  <2>2. events[i].call \in Calls
    BY <2>1 DEF Entry
  <2>3. point[events[i].call] \in Nat
    BY <2>2 DEF CallsFit
  <2> QED BY <2>2, <2>3 DEF EventsFit
<1>2. \A i \in DOMAIN events : record'[events[i].call] = record[events[i].call]
  BY <1>1 DEF CallsFit
<1> QED BY <1>2 DEF EventsFit

LEMMA IdleIsNoMetric ==
  ASSUME CallsFit, NEW c \in Calls, pc[c] = "idle"
  PROVE  ~Metric(c)
<1>1. NoRecord.kind = "event"
  BY DEF NoRecord
<1>2. record[c] = NoRecord
  BY DEF CallsFit
<1> QED BY <1>1, <1>2 DEF Metric

LEMMA BeginMetricKeepsAInv ==
  ASSUME AInv, NEW c \in Calls, NEW rec \in Records, BeginMetric(c, rec)
  PROVE  AInv'
<1>1. CallsFit'
  BY DEF BeginMetric, AInv, CallsFit, Metric, Logs
<1>2. EventsFit'
  BY SilentKeepsEvents DEF BeginMetric, AInv, CallsFit
<1>3. Past' = Past /\ Ended' = Ended
  BY DEF BeginMetric, AInv, CallsFit, Past, Ended, Metric
<1>4. Received' = IF rec.kind = "aggregate" THEN Received \cup {c} ELSE Received
  <2>1. ~Metric(c) /\ \A d \in Calls : record'[d] = IF d = c THEN rec ELSE record[d]
    BY IdleIsNoMetric DEF BeginMetric, AInv, CallsFit
  <2> QED BY <2>1 DEF Received, Metric
<1>5. CounterFits'
  BY <1>3, <1>4, FS_AddElement DEF BeginMetric, warnVars, AInv, CounterFits
<1>6. NotEarly'
  BY DEF BeginMetric, warnVars, AInv, NotEarly, CallsFit
<1>7. NotMissed'
  BY <1>3 DEF BeginMetric, warnVars, AInv, NotMissed
<1> QED BY <1>1, <1>2, <1>5, <1>6, <1>7 DEF AInv

LEMMA BeginLogKeepsAInv ==
  ASSUME AInv, NEW c \in Calls, NEW rec \in Records, BeginLog(c, rec)
  PROVE  AInv'
<1>1. CallsFit'
  BY DEF BeginLog, AInv, CallsFit, Metric, Logs
<1>2. EventsFit'
  BY SilentKeepsEvents DEF BeginLog, AInv, CallsFit
<1>3. UNCHANGED <<Received, Past, Ended>>
  <2>1. /\ ~Metric(c) /\ rec.kind # "aggregate"
        /\ \A d \in Calls : record'[d] = IF d = c THEN rec ELSE record[d]
    BY IdleIsNoMetric DEF BeginLog, AInv, CallsFit, Logs
  <2>2. \A d \in Calls : Metric(d)' <=> Metric(d)
    BY <2>1 DEF Metric
  <2>3. \A d \in Calls : Metric(d) => pc'[d] = pc[d]
    BY <2>1 DEF BeginLog, AInv, CallsFit
  <2> QED BY <2>2, <2>3 DEF Received, Past, Ended
<1>4. CounterFits' /\ NotEarly' /\ NotMissed'
  BY <1>3, UncountedKeeps DEF BeginLog, AInv, CallsFit
<1> QED BY <1>1, <1>2, <1>4 DEF AInv

LEMMA LoadSawLogKeepsAInv == ASSUME AInv, NEW c \in Calls, LoadSawLog(c) PROVE AInv'
<1> USE DEF LoadSawLog, Return, AInv, warnVars
<1>1. CallsFit'
  BY DEF CallsFit, Metric
<1>2. EventsFit'
  BY SilentKeepsEvents
<1>3. Received' = Received
  BY DEF Received, Metric
<1>4. CASE sawLog
  <2>1. Past \subseteq Past' /\ Past' \subseteq Received
    BY <1>4 DEF CallsFit, Past, Received, Metric
  <2>2. CounterFits'
    <3>1. /\ Cardinality(Past) <= Cardinality(Past')
          /\ Cardinality(Past) \in Nat /\ Cardinality(Past') \in Nat
      BY <2>1, Countable, FS_Subset, FS_CardinalityType DEF CounterFits
    <3> QED BY <1>3, <3>1 DEF CounterFits
  <2>3. NotEarly' /\ NotMissed'
    BY <1>4 DEF NotEarly, NotMissed, CallsFit
  <2> QED BY <1>1, <1>2, <2>2, <2>3
<1>5. CASE ~sawLog
  <2>1. UNCHANGED <<Past, Ended>>
    BY <1>5 DEF CallsFit, Past, Ended, Metric
  <2> QED BY <1>1, <1>2, <1>3, <1>5, <2>1, UncountedKeeps DEF CallsFit
<1> QED BY <1>4, <1>5

LEMMA SkipAggregateKeepsAInv == ASSUME AInv, NEW c \in Calls, SkipAggregate(c) PROVE AInv'
<1> USE DEF SkipAggregate, Return, AInv
<1>1. CallsFit'
  BY DEF CallsFit, Metric
<1>2. EventsFit'
  BY SilentKeepsEvents
<1>3. Received' = Received /\ c \notin Past /\ Past' = Past \cup {c}
  BY DEF Received, Past, CallsFit, Metric
<1>4. CounterFits'
  <2>1. Cardinality(Past') = Cardinality(Past) + 1 /\ Cardinality(Past) \in Nat
    BY <1>3, Countable, FS_AddElement
  <2> QED BY <1>3, <2>1 DEF CounterFits
<1>5. NotEarly'
  BY GraceAssumption DEF NotEarly, CounterFits, WithinGrace, CallsFit
<1>6. NotMissed'
  <2>1. CASE WithinGrace(skippedAggregates + 1)
    <3>1. c \notin Ended /\ Ended' = Ended \cup {c}
      BY <2>1 DEF Ended, CallsFit, Metric
    <3>2. Cardinality(Ended') = Cardinality(Ended) + 1 /\ Cardinality(Ended) \in Nat
      BY <3>1, Countable, FS_AddElement
    <3> QED BY <2>1, <3>2, GraceAssumption DEF NotMissed, CounterFits, WithinGrace
  <2>2. CASE ~WithinGrace(skippedAggregates + 1)
    <3>1. Ended' = Ended
      BY <2>2 DEF Ended, CallsFit, Metric
    <3> QED BY <3>1, Countable DEF NotMissed, CounterFits
  <2> QED BY <2>1, <2>2
<1> QED BY <1>1, <1>2, <1>4, <1>5, <1>6

LEMMA WarnMetricsOnlyKeepsAInv == ASSUME AInv, NEW c \in Calls, WarnMetricsOnly(c) PROVE AInv'
<1> USE DEF WarnMetricsOnly, Return, AInv
<1>1. CallsFit'
  BY DEF CallsFit, Metric
<1>2. EventsFit'
  BY SilentKeepsEvents
<1>3. UNCHANGED <<Received, Past>>
  BY DEF Received, Past, CallsFit, Metric
<1>4. CounterFits'
  BY <1>3 DEF CounterFits
<1>5. NotEarly' /\ NotMissed'
  BY DEF NotEarly, NotMissed, CallsFit
<1> QED BY <1>1, <1>2, <1>4, <1>5

LEMMA PointsAreNatural == ASSUME CallsFit, NEW c \in Calls PROVE Points(record[c]) \in Nat
<1>1. CASE record[c] \in Records
  BY <1>1, PointsAssumption DEF Points
<1>2. CASE record[c] = NoRecord
  <2>1. NoRecord.points \in Nat
    BY DEF NoRecord
  <2> QED BY <1>2, <2>1 DEF Points
<1> QED BY <1>1, <1>2 DEF CallsFit

\* Before the sink, and at it.
LEMMA OtherStepsKeepAInv ==
  ASSUME AInv, NEW c \in Calls, ResolveInstance(c) \/ ReadSink(c)
  PROVE  AInv'
<1> USE DEF Return, AInv, warnVars
<1>1. /\ pc[c] \in {"instance", "read"} /\ pc'[c] \in {"returned", "read", "write"}
      /\ \A d \in Calls \ {c} : pc'[d] = pc[d] /\ result'[d] = result[d]
      /\ UNCHANGED <<sawLog, skippedAggregates, warnedMetricsOnly, record, point, events>>
  BY DEF ResolveInstance, ReadSink, CallsFit
<1>2. CallsFit'
  <2>1. CASE ResolveInstance(c)
    <3>1. point[c] = 0 /\ ~Metric(c)
      BY <1>1, <2>1 DEF ResolveInstance, CallsFit
    <3>2. Points(record[c]) \in Nat
      BY PointsAreNatural
    <3> QED BY <2>1, <3>1, <3>2 DEF ResolveInstance, CallsFit, Metric
  <2>2. CASE ReadSink(c)
    BY <2>2 DEF ReadSink, CallsFit, Metric
  <2> QED BY <2>1, <2>2
<1>3. EventsFit'
  BY <1>1, SilentKeepsEvents
<1>4. UNCHANGED <<Received, Past, Ended>>
  BY <1>1 DEF Received, Past, Ended, CallsFit, Metric
<1> QED BY <1>1, <1>2, <1>3, <1>4, UncountedKeeps

\* The sink receives the next data point.
LEMMA WriteKeepsAInv == ASSUME AInv, NEW c \in Calls, Write(c) PROVE AInv'
<1> USE DEF Return, AInv, warnVars
<1> DEFINE entry == [call |-> c, point |-> point[c] + 1, instance |-> instanceFrom(record[c]),
                     usage |-> CarriesUsage(record[c].kind)]
<1>1. /\ pc[c] = "write" /\ pc'[c] \in {"returned", "read"} /\ ~Metric(c)
      /\ \A d \in Calls \ {c} : pc'[d] = pc[d] /\ result'[d] = result[d]
      /\ UNCHANGED <<sawLog, skippedAggregates, warnedMetricsOnly, record>>
  BY DEF Write, CallsFit
<1>2. events' = Append(events, entry) /\ point' = [point EXCEPT ![c] = @ + 1]
  BY DEF Write
<1>3. CallsFit'
  <2>1. /\ Points(record[c]) \in Nat /\ point[c] \in Nat
        /\ point[c] < Points(record[c]) /\ record[c] \in Records
    BY <1>1, PointsAreNatural DEF CallsFit
  <2>2. /\ IF pc'[c] = "returned" THEN result'[c] = "nil" /\ point'[c] = Points(record[c])
                                  ELSE result'[c] = result[c] /\ point'[c] < Points(record[c])
        /\ pc' \in [Calls -> {"idle", "loadSawLog", "skip", "warn", "instance", "read",
                              "write", "returned"}]
        /\ point' \in [Calls -> Nat]
        /\ result' \in [Calls -> {"none", "nil", "errNotRunning", "errUnsupported"}]
        /\ \A d \in Calls \ {c} : point'[d] = point[d]
    <3>1. point' \in [Calls -> Nat] /\ point'[c] = point[c] + 1
          /\ \A d \in Calls \ {c} : point'[d] = point[d]
      BY <1>2, <2>1 DEF CallsFit
    <3>2. CASE AtLastPoint(c)
      BY <2>1, <3>1, <3>2 DEF Write, AtLastPoint, CallsFit
    <3>3. CASE ~AtLastPoint(c)
      <4>1. point[c] + 1 < Points(record[c])
        BY <2>1, <3>3 DEF AtLastPoint
      <4>2. pc' = [pc EXCEPT ![c] = "read"] /\ result' = result
        BY <3>3 DEF Write
      <4> QED BY <3>1, <4>1, <4>2 DEF CallsFit
    <3> QED BY <3>2, <3>3
  <2> QED BY <1>1, <2>1, <2>2 DEF CallsFit, Metric
<1>4. entry \in Entry
  <2>1. record[c] \in Records
    BY <1>1 DEF CallsFit, Write
  <2>2. CarriesUsage(record[c].kind) \in BOOLEAN
    BY DEF CarriesUsage
  <2>3. point[c] + 1 \in Nat
    BY DEF CallsFit
  <2> QED BY <2>1, <2>2, <2>3 DEF Entry
<1>5. UNCHANGED <<Received, Past, Ended>>
  BY <1>1 DEF Received, Past, Ended, Metric
<1>6. CounterFits' /\ NotEarly' /\ NotMissed'
  BY <1>1, <1>5, UncountedKeeps
<1>7. EventsFit'
  <2> DEFINE n == Len(events)
  <2>1. /\ n \in Nat /\ DOMAIN events = 1 .. n /\ DOMAIN events' = 1 .. n + 1
        /\ events'[n + 1] = entry /\ \A i \in 1 .. n : events'[i] = events[i]
        /\ events' \in Seq(Entry)
    BY <1>2, <1>4 DEF EventsFit
  <2>2. entry.call = c /\ entry.point = point[c] + 1 /\ entry.usage = CarriesUsage(record[c].kind)
    OBVIOUS
  <2>3. \A i \in 1 .. n : events[i].call \in Calls /\ events[i].point \in Nat
    <3>1. \A i \in 1 .. n : events[i] \in Entry
      BY <2>1 DEF EventsFit
    <3> QED BY <3>1 DEF Entry
  <2>4. \A d \in Calls : point[d] \in Nat /\ point'[d] = IF d = c THEN point[d] + 1 ELSE point[d]
    BY <1>2 DEF CallsFit
  <2> HIDE DEF n, entry
  <2>5. \A i \in DOMAIN events' : /\ events'[i].point \in 1 .. point'[events'[i].call]
                                  /\ events'[i].usage = CarriesUsage(record'[events'[i].call].kind)
    <3> SUFFICES ASSUME NEW i \in 1 .. n + 1
                 PROVE  /\ events'[i].point \in 1 .. point'[events'[i].call]
                        /\ events'[i].usage = CarriesUsage(record'[events'[i].call].kind)
      BY <2>1
    <3>1. record' = record
      BY DEF Write
    <3>2. CASE i = n + 1
      BY <2>1, <2>2, <2>4, <3>1, <3>2
    <3>3. CASE i \in 1 .. n
      <4>1. events'[i] = events[i] /\ events[i].call \in Calls
        BY <2>1, <2>3, <3>3
      <4>2. /\ events[i].point \in 1 .. point[events[i].call]
            /\ events[i].usage = CarriesUsage(record[events[i].call].kind)
        BY <2>1, <3>3 DEF EventsFit
      <4>3. events[i].point \in 1 .. point'[events[i].call]
        BY <2>4, <4>1, <4>2
      <4> QED BY <3>1, <4>1, <4>2, <4>3
    <3> QED BY <2>1, <3>2, <3>3
  <2>6. \A i, j \in DOMAIN events' :
          i < j /\ events'[i].call = events'[j].call => events'[i].point < events'[j].point
    BY <2>1, <2>2, <2>3, <2>4 DEF EventsFit
  <2>7. \A d \in Calls : \A p \in 1 .. point'[d] :
          \E i \in DOMAIN events' : events'[i].call = d /\ events'[i].point = p
    <3> SUFFICES ASSUME NEW d \in Calls, NEW p \in 1 .. point'[d]
                 PROVE  \E i \in DOMAIN events' : events'[i].call = d /\ events'[i].point = p
      OBVIOUS
    <3>1. CASE d = c /\ p = point[c] + 1
      BY <2>1, <2>2, <3>1
    <3>2. CASE p \in 1 .. point[d]
      <4>1. PICK i \in 1 .. n : events[i].call = d /\ events[i].point = p
        BY <2>1, <3>2 DEF EventsFit
      <4> QED BY <2>1, <4>1
    <3> QED BY <2>4, <3>1, <3>2
  <2> QED BY <2>1, <2>5, <2>6, <2>7 DEF EventsFit
<1> QED BY <1>3, <1>6, <1>7

THEOREM AInvHolds == Spec => []AInv
<1>1. AInv /\ [Next]_vars => AInv'
  <2> SUFFICES ASSUME AInv, [Next]_vars PROVE AInv'
    OBVIOUS
  <2>1. CASE UNCHANGED vars
    <3>1. UNCHANGED <<sawLog, skippedAggregates, warnedMetricsOnly, pc, record, point, result,
                      events>>
      BY <2>1 DEF vars, warnVars
    <3>2. CallsFit' /\ EventsFit'
      BY <3>1 DEF AInv, CallsFit, EventsFit, Metric
    <3>3. UNCHANGED <<Received, Past, Ended>>
      BY <3>1 DEF Received, Past, Ended, Metric
    <3> QED BY <3>1, <3>2, <3>3, UncountedKeeps DEF AInv
  <2>2. CASE Next
    BY <2>2, RunKeepsAInv, BeginMetricKeepsAInv, BeginLogKeepsAInv, LoadSawLogKeepsAInv,
       SkipAggregateKeepsAInv, WarnMetricsOnlyKeepsAInv, OtherStepsKeepAInv, WriteKeepsAInv
       DEF Next, Step
  <2> QED BY <2>1, <2>2
<1> QED BY <1>1, InitAInv, PTL DEF Spec

-----------------------------------------------------------------------------
(* What follows.                                                           *)

\* An agent that exports metrics alone is reported, whatever the grace.
THEOREM MetricsOnlyIsReportedHolds == Spec => []MetricsOnlyIsReported
<1>1. AInv => MetricsOnlyIsReported
  <2> SUFFICES ASSUME AInv, ~sawLog, ~warnedMetricsOnly,
                      NEW S \in SUBSET Calls, Cardinality(S) >= metricsOnlyGrace,
                      \A c \in S : Returned(c, {"aggregate"})
               PROVE  FALSE
    BY DEF MetricsOnlyIsReported
  <2>1. S \in SUBSET Ended
    BY DEF Ended, Returned, Metric
  <2>2. Cardinality(S) <= Cardinality(Ended) /\ Cardinality(Ended) \in Nat /\ Cardinality(S) \in Nat
    BY <2>1, Countable, FS_Subset, FS_CardinalityType DEF AInv
  <2> QED BY <2>2, GraceAssumption DEF AInv, NotMissed
<1> QED BY <1>1, AInvHolds, PTL

\* And it is not reported before the grace has been used up.
THEOREM NoEarlyWarningHolds == Spec => []NoEarlyWarning
<1>1. AInv => NoEarlyWarning
  <2> SUFFICES ASSUME AInv, warnedMetricsOnly
               PROVE  Cardinality(Received) >= metricsOnlyGrace
    BY DEF NoEarlyWarning, Received, Metric
  <2>1. Past \in SUBSET Received
    BY DEF Past, Received
  <2>2. Cardinality(Past) <= Cardinality(Received) /\ Cardinality(Received) \in Nat
        /\ Cardinality(Past) \in Nat
    BY <2>1, FS_Subset, FS_CardinalityType DEF AInv, CounterFits
  <2> QED BY <2>2, GraceAssumption DEF AInv, CounterFits, NotEarly
<1> QED BY <1>1, AInvHolds, PTL

\* And an agent that sends its logs is not: with a log seen, no aggregate comes
\* past the check any more.
Silent == /\ sawLog /\ ~warnedMetricsOnly
          /\ \A c \in Calls : pc[c] \notin {"skip", "warn"}

THEOREM LogsSilenceTheWarningHolds == Spec => LogsSilenceTheWarning
<1>1. AInv /\ Silent /\ [Next]_vars => Silent'
  <2> SUFFICES ASSUME AInv, Silent, [Next]_vars PROVE Silent'
    OBVIOUS
  <2>1. pc \in [Calls -> {"idle", "loadSawLog", "skip", "warn", "instance", "read",
                          "write", "returned"}]
    BY DEF AInv, CallsFit
  <2>2. sawLog' /\ ~warnedMetricsOnly'
    <3>1. \A c \in Calls : ~WarnMetricsOnly(c)
      BY DEF WarnMetricsOnly, Silent
    <3>2. sawLog /\ ~warnedMetricsOnly
      BY DEF Silent
    <3>3. CASE InstallSink \/ DropSink
      <4>1. sawLog' = sawLog /\ warnedMetricsOnly' = warnedMetricsOnly
        BY <3>3 DEF InstallSink, DropSink, warnVars
      <4> QED BY <3>2, <4>1, Zenon
    <3>4. ASSUME NEW c \in Calls, Step(c) PROVE sawLog' = sawLog /\ warnedMetricsOnly' = warnedMetricsOnly
      BY <3>1, <3>4 DEF Step, LoadSawLog, SkipAggregate, ResolveInstance, ReadSink, Write, warnVars
    <3>5. ASSUME NEW c \in Calls, NEW rec \in Records, BeginMetric(c, rec) \/ BeginLog(c, rec)
          PROVE  sawLog' \in {sawLog, TRUE} /\ warnedMetricsOnly' = warnedMetricsOnly
      BY <3>5 DEF BeginMetric, BeginLog, warnVars
    <3>6. CASE UNCHANGED vars
      <4>1. sawLog' = sawLog /\ warnedMetricsOnly' = warnedMetricsOnly
        BY <3>6 DEF vars, warnVars
      <4> QED BY <3>2, <4>1, Zenon
    <3>7. ASSUME NEW c \in Calls, Step(c) PROVE sawLog' /\ ~warnedMetricsOnly'
      BY <3>2, <3>4, <3>7, Zenon
    <3>8. ASSUME NEW c \in Calls, NEW rec \in Records, BeginMetric(c, rec) \/ BeginLog(c, rec)
          PROVE  sawLog' /\ ~warnedMetricsOnly'
      BY <3>2, <3>5, <3>8, Zenon
    <3> QED BY <3>3, <3>6, <3>7, <3>8, Zenon DEF Next
  <2>3. \A c \in Calls : pc'[c] \notin {"skip", "warn"}
    <3>1. \A c \in Calls : pc[c] \notin {"skip", "warn"}
      BY DEF Silent
    <3>2. CASE InstallSink \/ DropSink
      BY <3>1, <3>2 DEF InstallSink, DropSink
    <3>3. ASSUME NEW c \in Calls, NEW rec \in Records, BeginMetric(c, rec) \/ BeginLog(c, rec)
          PROVE  \A d \in Calls : pc'[d] \notin {"skip", "warn"}
      BY <2>1, <3>1, <3>3 DEF BeginMetric, BeginLog
    <3>4. ASSUME NEW c \in Calls, LoadSawLog(c) PROVE \A d \in Calls : pc'[d] \notin {"skip", "warn"}
      BY <2>1, <3>1, <3>4 DEF LoadSawLog, Return, Silent
    <3>5. ASSUME NEW c \in Calls, ResolveInstance(c) PROVE \A d \in Calls : pc'[d] \notin {"skip", "warn"}
      BY <2>1, <3>1, <3>5 DEF ResolveInstance, Return
    <3>6. ASSUME NEW c \in Calls, ReadSink(c) \/ Write(c) PROVE \A d \in Calls : pc'[d] \notin {"skip", "warn"}
      BY <2>1, <3>1, <3>6 DEF ReadSink, Write, Return
    <3>7. \A c \in Calls : ~SkipAggregate(c) /\ ~WarnMetricsOnly(c)
      BY <3>1 DEF SkipAggregate, WarnMetricsOnly
    <3>8. CASE UNCHANGED vars
      BY <3>1, <3>8 DEF vars
    <3> QED BY <3>2, <3>3, <3>4, <3>5, <3>6, <3>7, <3>8 DEF Next, Step
  <2> QED BY <2>2, <2>3 DEF Silent
<1>2. AInv /\ Quiet => Silent
  BY DEF AInv, CallsFit, Metric, Quiet, Silent
<1>3. Silent => ~warnedMetricsOnly
  BY DEF Silent
<1> QED BY <1>1, <1>2, <1>3, AInvHolds, PTL DEF Spec, LogsSilenceTheWarning

\* The points a call has emitted are those it is past.
LEMMA PointsEmitted == ASSUME AInv, NEW c \in Calls PROVE PointsOf(c) = 1 .. point[c]
<1>1. ASSUME NEW i \in DOMAIN events, events[i].call = c PROVE events[i].point \in 1 .. point[c]
  BY <1>1 DEF AInv, EventsFit
<1>2. ASSUME NEW p \in 1 .. point[c]
      PROVE  \E i \in DOMAIN events : events[i].call = c /\ events[i].point = p
  BY DEF AInv, EventsFit
<1> QED BY <1>1, <1>2 DEF PointsOf

\* The points of a metric reach the sink in order, all or a proper prefix.
THEOREM PointsInOrderHolds == Spec => []PointsInOrder
<1>1. AInv => PointsInOrder
  <2> SUFFICES ASSUME AInv PROVE PointsInOrder
    OBVIOUS
  <2>1. \A i, j \in DOMAIN events :
          i < j /\ events[i].call = events[j].call => events[i].point < events[j].point
    BY DEF AInv, EventsFit
  <2>2. ASSUME NEW c \in Calls, Returned(c, Kinds \ {"aggregate"})
        PROVE  IF result[c] = "nil"
                 THEN PointsOf(c) = 1 .. Points(record[c])
                 ELSE \E n \in 0 .. Points(record[c]) :
                        PointsOf(c) = 1 .. n /\ (n = 0 \/ n < Points(record[c]))
    <3>1. pc[c] = "returned" /\ ~Metric(c)
      BY <2>2 DEF Returned, Metric
    <3>2. Points(record[c]) \in Nat /\ point[c] \in Nat
      BY PointsAreNatural DEF AInv, CallsFit
    <3>3. IF result[c] = "nil" THEN point[c] = Points(record[c])
                               ELSE point[c] = 0 \/ point[c] < Points(record[c])
      BY <3>1 DEF AInv, CallsFit
    <3>4. point[c] \in 0 .. Points(record[c])
      BY <3>2, <3>3
    <3> QED BY <3>3, <3>4, PointsEmitted
  <2> QED BY <2>1, <2>2 DEF PointsInOrder
<1> QED BY <1>1, AInvHolds, PTL

\* Usage is recorded once for each model call, and for nothing else.
THEOREM UsageOncePerCallHolds == Spec => []UsageOncePerCall
<1>1. AInv => UsageOncePerCall
  <2> SUFFICES ASSUME AInv, NEW c \in Calls
               PROVE  Cardinality({i \in DOMAIN events : events[i].call = c /\ events[i].usage})
                        = IF Returned(c, {"call"}) /\ result[c] = "nil" THEN 1 ELSE 0
    BY DEF UsageOncePerCall
  <2> DEFINE U == {i \in DOMAIN events : events[i].call = c /\ events[i].usage}
  <2>1. \A i \in U : record[c].kind = "call" /\ events[i].point \in 1 .. point[c]
    BY DEF AInv, EventsFit, CarriesUsage
  <2>2. CASE record[c].kind # "call"
    <3>1. U = {} /\ ~Returned(c, {"call"})
      BY <2>1, <2>2 DEF Returned
    <3> QED BY <3>1, FS_EmptySet
  <2>3. CASE record[c].kind = "call"
    <3>1. Points(record[c]) = 1 /\ ~Metric(c) /\ point[c] \in Nat
      BY <2>3 DEF Points, Logs, Metric, AInv, CallsFit
    <3>2. CASE point[c] = 0
      <4>1. U = {} /\ ~(Returned(c, {"call"}) /\ result[c] = "nil")
        BY <2>1, <3>1, <3>2 DEF AInv, CallsFit, Returned
      <4> QED BY <4>1, FS_EmptySet
    <3>3. CASE point[c] # 0
      <4>1. point[c] = 1 /\ pc[c] = "returned" /\ result[c] = "nil"
        BY <3>1, <3>3 DEF AInv, CallsFit
      <4>2. PICK i \in DOMAIN events : events[i].call = c /\ events[i].point = 1
        BY <4>1 DEF AInv, EventsFit
      <4>3. i \in U
        BY <2>3, <4>2 DEF AInv, EventsFit, CarriesUsage
      <4>4. \A j \in U : j = i
        BY <2>1, <4>1, <4>2 DEF AInv, EventsFit
      <4>5. U = {i}
        BY <4>3, <4>4
      <4> QED BY <2>3, <4>1, <4>5, FS_Singleton DEF Returned
    <3> QED BY <3>2, <3>3
  <2> QED BY <2>2, <2>3
<1> QED BY <1>1, AInvHolds, PTL

\* Type correctness.
Flags == {sink, sawLog, warnedMetricsOnly, warnedInstance}
THEOREM TypeCorrect == Spec => []TypeOK
<1> DEFINE FlagsFit == run \in {"before", "running", "after"} /\ Flags \subseteq BOOLEAN
<1>1. Init => FlagsFit
  BY DEF Init, Flags
<1>2. FlagsFit /\ [Next]_vars => FlagsFit'
  <2> SUFFICES ASSUME FlagsFit, [Next]_vars PROVE FlagsFit'
    OBVIOUS
  <2>1. CASE InstallSink \/ DropSink
    BY <2>1 DEF InstallSink, DropSink, warnVars, Flags
  <2>2. ASSUME NEW c \in Calls, NEW rec \in Records, BeginMetric(c, rec) \/ BeginLog(c, rec)
        PROVE  FlagsFit'
    BY <2>2 DEF BeginMetric, BeginLog, warnVars, Flags
  <2>3. ASSUME NEW c \in Calls, Step(c) PROVE FlagsFit'
    BY <2>3 DEF Step, LoadSawLog, SkipAggregate, WarnMetricsOnly, ResolveInstance, ReadSink, Write,
                warnVars, Flags
  <2>4. CASE UNCHANGED vars
    BY <2>4 DEF vars, warnVars, Flags
  <2> QED BY <2>1, <2>2, <2>3, <2>4 DEF Next
<1>3. AInv /\ FlagsFit => TypeOK
  <2> SUFFICES ASSUME AInv, FlagsFit PROVE TypeOK
    OBVIOUS
  <2>1. \A i \in DOMAIN events : events[i] \in Entry
    BY DEF AInv, EventsFit
  <2>2. \A i \in DOMAIN events : events[i].call \in Calls
    BY <2>1 DEF Entry
  <2>3. skippedAggregates \in Nat
    BY DEF AInv, CounterFits
  <2> QED BY <2>2, <2>3 DEF TypeOK, Flags, AInv, CallsFit
<1> QED BY <1>1, <1>2, <1>3, AInvHolds, PTL DEF Spec
=============================================================================
