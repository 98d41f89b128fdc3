------------------------------- MODULE Signals -------------------------------
(***************************************************************************)
(* From a claimed record to the three OpenTelemetry signals: the adapter's *)
(* event (Normalize), the sink of cmd/didebaan/sink.go with the mapping of *)
(* internal/genai (GenAI), and the three providers of internal/exporter,   *)
(* which CollectCmd.Run builds and, whatever happens, flushes at its end.  *)
(*                                                                         *)
(* Calls of the sink run concurrently, on the receiver's handlers, and may *)
(* outlast the flush.  Every call into a provider is a step of its own.    *)
(***************************************************************************)
EXTENDS GenAI

CONSTANTS
  Calls,    \* deliveries of a record that found the sink installed
  Records,  \* the records delivered; two calls with one record are a retry
  Now       \* the time the SDK stamps on what carries none

ASSUME NowAssumption == Now \in Int

\* No metric is named like an attribute that identifies a person.
ASSUME RecordAssumption ==
  \A rec \in Records : IsRecord(rec) /\ rec.name \notin identityAttrs

Providers == {"traces", "metrics", "logs"}

VARIABLES
  main,       \* CollectCmd.Run: "build", "wire", "serving", "flushing", "ended"
  provider,   \* each provider: "none", "open" or "shut"
  failed,     \* a provider's Shutdown returned an error
  pc,         \* where each call of the sink is
  record,     \* what it was given
  event,      \* what the adapter made of it
  spans, measured, logs   \* what the providers accepted, each with its call

mainVars == <<main, provider, failed>>
outputs  == <<spans, measured, logs>>
vars == <<mainVars, pc, record, event, outputs>>

NoRecord == [shape |-> "log", name |-> "", instance |-> "", time |-> 0, observed |-> 0,
             attrs |-> <<>>, value |-> Unset]

CallSteps == {"idle", "span", "input", "output", "duration", "cost", "emit", "returned"}

TypeOK ==
  /\ main \in {"build", "wire", "serving", "flushing", "ended"}
  /\ provider \in [Providers -> {"none", "open", "shut"}]
  /\ failed \in BOOLEAN
  /\ pc \in [Calls -> CallSteps]
  /\ record \in [Calls -> Records \cup {NoRecord}]
  /\ \A c \in Calls : event[c] \in eventsOf(record[c])
  /\ \A s \in spans : s.call \in Calls /\ s.start \in Int /\ s.end \in Int
  /\ \A m \in measured : m.call \in Calls /\ m.account \in Accounts
  /\ \A l \in logs : l.call \in Calls /\ l.time \in Int

Init ==
  /\ main = "build"
  /\ provider = [p \in Providers |-> "none"]
  /\ failed = FALSE
  /\ pc = [c \in Calls |-> "idle"]
  /\ record = [c \in Calls |-> NoRecord]
  /\ event \in [Calls -> eventsOf(NoRecord)]
  /\ spans = {} /\ measured = {} /\ logs = {}

-----------------------------------------------------------------------------
(* CollectCmd.Run around the sink.                                         *)

callVars == <<pc, record, event, outputs>>

\* exporter.New returns the three providers together ...
Build ==
  /\ main = "build"
  /\ provider' = [p \in Providers |-> "open"]
  /\ main' = "wire"
  /\ UNCHANGED <<failed, callVars>>

\* ... or none, and then there is nothing to flush.
BuildFails ==
  /\ main = "build"
  /\ main' = "ended"
  /\ UNCHANGED <<provider, failed, callVars>>

\* newSink creates the instruments; the receiver is built and serves.
Wire == main = "wire" /\ main' = "serving" /\ UNCHANGED <<provider, failed, callVars>>

\* Run returns: an instrument or the receiver could not be made, or Start has
\* returned.  The deferred flush begins.
Leave ==
  /\ main \in {"wire", "serving"}
  /\ main' = "flushing"
  /\ UNCHANGED <<provider, failed, callVars>>

\* The providers in the order of Providers.Shutdown.
ShutBefore == [traces |-> {}, metrics |-> {"traces"}, logs |-> {"traces", "metrics"}]

\* A slip: the first error is the last call.
MayShutUnlessFailed(p) == ~failed /\ \A q \in ShutBefore[p] : provider[q] = "shut"

MayShut(p) == \A q \in ShutBefore[p] : provider[q] = "shut"

\* One provider is flushed and shut; its error is joined to the others'.
Shut(p) ==
  /\ main = "flushing"
  /\ provider[p] = "open"
  /\ MayShut(p)
  /\ provider' = [provider EXCEPT ![p] = "shut"]
  /\ failed' \in {failed, TRUE}
  /\ UNCHANGED <<main, callVars>>

\* All have been tried; Run returns and the process ends.
End ==
  /\ main = "flushing"
  /\ \A p \in Providers : provider[p] = "shut"
  /\ main' = "ended"
  /\ UNCHANGED <<provider, failed, callVars>>

-----------------------------------------------------------------------------
(* One call: ConsumeLog or emitDataPoints, and the sink.                   *)

\* The process is there to take the step.
At(c, place) == pc[c] = place /\ main # "ended"
Goto(c, place) == pc' = [pc EXCEPT ![c] = place]

\* A slip: the event is that of the record before.
BeginWithStaleRecord(c, rec) ==
  /\ pc[c] = "idle"
  /\ main \in {"serving", "flushing"}
  /\ record' = [record EXCEPT ![c] = rec]
  /\ \E e \in eventsOf(record[c]) : event' = [event EXCEPT ![c] = e]
  /\ Goto(c, "span")
  /\ UNCHANGED <<mainVars, outputs>>

\* A record is normalized and the sink, still installed, is read: also while
\* the deferred flush runs, since handlers may outlast Start.
Begin(c, rec) ==
  /\ pc[c] = "idle"
  /\ main \in {"serving", "flushing"}
  /\ record' = [record EXCEPT ![c] = rec]
  /\ \E e \in eventsOf(rec) : event' = [event EXCEPT ![c] = e]
  /\ Goto(c, "span")
  /\ UNCHANGED <<mainVars, outputs>>

\* A time option that is zero means now to the SDK.
Stamped(time) == IF time = ZeroTime THEN Now ELSE time

\* A slip: the end is the start.
SpanOfNoLength(c) ==
  [call |-> c, name |-> SpanName(event[c]), start |-> Stamped(event[c].time),
   end |-> Stamped(event[c].time), attrs |-> pairs(event[c])]

Span(c) ==
  [call |-> c, name |-> SpanName(event[c]), start |-> Stamped(event[c].time),
   end |-> Stamped(event[c].time + event[c].duration), attrs |-> pairs(event[c])]

\* tracer.Start and span.End: the span is accepted if its provider still is
\* open when it ends.
Trace(c) ==
  /\ At(c, "span")
  /\ spans' = IF provider["traces"] = "open" THEN spans \cup {Span(c)} ELSE spans
  /\ Goto(c, "input")
  /\ UNCHANGED <<mainVars, record, event, measured, logs>>

\* A slip: the duration is left out.
RecordWithoutDuration == [input |-> "output", output |-> "cost", duration |-> "cost", cost |-> "emit"]

\* The order of Instruments.Record.
RecordOrder == [input |-> "output", output |-> "duration", duration |-> "cost", cost |-> "emit"]

\* One instrument of Instruments.Record.
Measure(c, account) ==
  /\ At(c, account)
  /\ measured' =
       IF provider["metrics"] = "open"
         THEN measured \cup
                {[call |-> c, account |-> account, amount |-> x, series |-> series(event[c], account)] :
                   x \in amounts(event[c])[account]}
         ELSE measured
  /\ Goto(c, RecordOrder[account])
  /\ UNCHANGED <<mainVars, record, event, spans, logs>>

\* logger.Emit of genai.LogRecord; the sink returns nil whatever was accepted.
Emit(c) ==
  /\ At(c, "emit")
  /\ logs' = IF provider["logs"] = "open"
               THEN logs \cup {[call |-> c, time |-> event[c].time,
                                body |-> SpanName(event[c]), attrs |-> pairs(event[c])]}
               ELSE logs
  /\ Goto(c, "returned")
  /\ UNCHANGED <<mainVars, record, event, spans, measured>>

Sink(c) == Trace(c) \/ (\E account \in Accounts : Measure(c, account)) \/ Emit(c)

Next ==
  \/ Build \/ BuildFails \/ Wire \/ Leave \/ End
  \/ \E p \in Providers : Shut(p)
  \/ \E c \in Calls : Sink(c)
  \/ \E c \in Calls, rec \in Records : Begin(c, rec)

Spec == Init /\ [][Next]_vars

\* The main goroutine goes on: a provider's Shutdown returns.
FairSpec == Spec /\ WF_vars(\E p \in Providers : Shut(p))

-----------------------------------------------------------------------------
(* Properties.                                                             *)

IsModelCall(rec) ==
  /\ rec.shape = "log"
  /\ \/ rec.name = "api_request"
     \/ rec.name = "" /\ stringAttr(rec.attrs, "event.name") = "api_request"

\* n is d without its fraction.
IsWholePart(n, d) ==
  IF d.halves < 0 THEN d.halves <= 2 * n /\ 2 * n < d.halves + 2 /\ n <= 0
                  ELSE d.halves - 2 < 2 * n /\ 2 * n <= d.halves /\ n >= 0

InWord(d) == d.finite /\ d.halves \in 2 * MinInt .. 2 * MaxInt

Numeric(v) == v.form \in {"int", "double"} \/ v.literal # "none"

\* ConsumeLog, intAttr, floatAttr: what an event counts, costs and lasts is
\* what its record reports, and an event that is no model call has none of it.
\* A count is the integer reported, in any of the three forms, and a text that
\* is no integer of the word's width is none; a cost is the number reported; a
\* duration is its milliseconds, scaled and then cut to whole units, and zero
\* if there are none.  The comment of intAttr accepts only doubles that are
\* whole numbers and its code any: a double with a fraction counts its whole
\* part or nothing.  A double count or a duration that no word can hold, which
\* Go leaves to the processor, is left open.
NothingInventedNothingDropped ==
  \A c \in Calls : pc[c] # "idle" =>
    LET rec        == record[c]
        value(key) == attr(rec.attrs, key)
        Exact(v)   == {n \in MinInt .. MaxInt : Exactly(n) = v.number}
        CountIs(got, v) ==
          IF ~IsModelCall(rec) \/ ~(v.form \in {"int", "double"} \/ v.literal = "integer")
            THEN got = {}
            ELSE \/ got = Exact(v)
                 \/ /\ v.form = "double" /\ Exact(v) = {}
                    /\ InWord(v.number) => \A n \in got : IsWholePart(n, v.number)
        LastsFor(ns, ms) ==
          LET scaled == ms.number.halves * Millisecond
          IN  IF ~IsModelCall(rec) \/ ~Numeric(ms)
                THEN ns = 0
                ELSE ms.number.finite /\ scaled \in 2 * MinInt .. 2 * MaxInt
                       => IsWholePart(ns, Double(scaled))
    IN  /\ CountIs(event[c].input, value("input_tokens"))
        /\ CountIs(event[c].output, value("output_tokens"))
        /\ event[c].cost = IF IsModelCall(rec) /\ Numeric(value("cost_usd"))
                             THEN {value("cost_usd").number} ELSE {}
        /\ LastsFor(event[c].duration, value("duration_ms"))

\* timeFromUnixNano, logTime: a log record carries its sender's time, else the
\* time of its observation, modulo the word; a record without either carries
\* the zero time, and no other one does.  And the sink's span ends before it
\* starts only if the agent reported a duration that is negative or beyond the
\* word, or no time at all.
TimesAreTheSenders ==
  /\ \A l \in logs :
       LET rec == record[l.call]
           ns  == IF rec.time = 0 THEN rec.observed ELSE rec.time
       IN  IF ns = 0 THEN l.time = ZeroTime
           ELSE l.time \in MinInt .. MaxInt /\ (l.time - ns) % (2 * HalfWord) = 0
  /\ \A s \in spans : s.end < s.start =>
       LET rec == record[s.call]
           ms  == attr(rec.attrs, "duration_ms").number
       IN  \/ rec.time = 0 /\ rec.observed = 0
           \/ ~ms.finite \/ ms.halves < 0 \/ ms.halves * Millisecond > 2 * MaxInt

\* The three signals of one event tell one story: the span's attributes are
\* the log record's, they repeat every dimension and every count and cost that
\* was measured, and the span is as long as the duration measured, unless the
\* record has no time.  Under a key that the agent's own attributes use too,
\* span and log record say what the agent said; a measurement's instance is
\* the record's all the same.
SignalsAgree ==
  \A s \in spans :
    LET c == s.call
        own == event[c].attrs
        Says(key, x) == /\ key \in DOMAIN s.attrs
                        /\ IF key \in DOMAIN own THEN s.attrs[key] = own[key]
                                                 ELSE s.attrs[key].number = x
    IN  /\ \A l \in logs : l.call = c => l.attrs = s.attrs /\ l.body = s.name
        /\ \A m \in measured : m.call = c =>
             /\ \A key \in DOMAIN m.series \ {AttrTokenType} :
                  /\ key \in DOMAIN s.attrs
                  /\ s.attrs[key] = IF key \in DOMAIN own THEN own[key] ELSE m.series[key]
             /\ AttrInstance \in DOMAIN m.series =>
                  m.series[AttrInstance] = Text(record[c].instance)
             /\ m.account = "input"  => Says(AttrUsageInput, m.amount)
             /\ m.account = "output" => Says(AttrUsageOutput, m.amount)
             /\ m.account = "cost"   => Says(AttrCostUSD, m.amount)
             /\ m.account = "duration" =>
                  event[c].time = ZeroTime \/ Exactly(s.end - s.start) = m.amount

\* Instance and model determine the series of an account, whatever else the
\* records carry: no session or request multiplies the series.
SeriesAreBounded ==
  \A m, n \in measured :
    /\ m.account = n.account
    /\ record[m.call].instance = record[n.call].instance
    /\ stringAttr(record[m.call].attrs, "model") = stringAttr(record[n.call].attrs, "model")
    => m.series = n.series

\* scrubbedAttrs, end to end: nothing that identifies a person is in any of
\* the three signals.
NoIdentityIsExported ==
  ~forwardIdentity =>
    /\ \A x \in spans \cup logs : DOMAIN x.attrs \cap identityAttrs = {}
    /\ \A m \in measured : DOMAIN m.series \cap identityAttrs = {}

\* An event whose call has ended has left its signal with every provider that
\* is still open: what is lost is lost to the flush, and only by calls that
\* the flush overtook.
Left(c, p) ==
  CASE p = "traces"  -> \E s \in spans : s.call = c
    [] p = "logs"    -> \E l \in logs : l.call = c
    [] p = "metrics" -> \A account \in Accounts : amounts(event[c])[account] # {} =>
                          \E m \in measured : m.call = c /\ m.account = account

LostOnlyToTheFlush ==
  \A c \in Calls, p \in Providers : pc[c] = "returned" /\ provider[p] = "open" => Left(c, p)

\* Providers.Shutdown: one failure does not skip the others.
FlushReachesEveryProvider ==
  main = "flushing" ~> \A p \in Providers : provider[p] = "shut"

\* What a call is to charge, from its event alone.
Due(e) == [input |-> {Exactly(n) : n \in e.input}, output |-> {Exactly(n) : n \in e.output},
           duration |-> IF e.duration > 0 THEN {Exactly(e.duration)} ELSE {},
           cost |-> e.cost]

Nothing == [account \in {} |-> {}]

Books == INSTANCE Metering WITH
  Deliveries <- Calls,
  Reports    <- {Due(e) : e \in UNION {eventsOf(rec) : rec \in Records}},
  Blank      <- Nothing,
  report     <- [c \in Calls |-> IF pc[c] = "idle" THEN Nothing ELSE Due(event[c])],
  book       <- {[delivery |-> m.call, account |-> m.account, amount |-> m.amount] : m \in measured},
  settled    <- {c \in Calls : pc[c] = "returned"},
  closed     <- provider["metrics"] = "shut"

\* The metrics keep the promise of Metering: each delivery is charged once for
\* what it reported, and wholly unless the flush overtook it.
KeepsBooks == Books!Spec
=============================================================================
