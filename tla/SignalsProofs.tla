--------------------------- MODULE SignalsProofs ----------------------------
(***************************************************************************)
(* What the three signals guarantee for every set of calls and of records  *)
(* and every width of the word: the metrics implement the contract of      *)
(* module Metering, only the flush loses anything, identity stays out,     *)
(* series do not multiply, numbers and times are the agent's, and the      *)
(* signals agree with one another.                                         *)
(***************************************************************************)
EXTENDS Signals, SetTheorems

-----------------------------------------------------------------------------
(* What the adapter makes of a record.                                     *)

Optional(S) == S = {} \/ \E x : S = {x}

\* An event carries one amount for each account, or none, and amounts only as
\* a model call.
EventFits(e, rec) ==
  /\ Optional(e.input) /\ Optional(e.output) /\ Optional(e.cost)
  /\ e.instance = rec.instance
  /\ rec.shape = "log" => e.attrs = scrubbedAttrs(rec.attrs)
  /\ \/ e.operation = "chat" /\ e.model = stringAttr(rec.attrs, "model")
     \/ e.input = {} /\ e.output = {} /\ e.cost = {} /\ e.duration = 0

\* A conversion yields one number or none.
LEMMA ConversionsAreOptional ==
  ASSUME NEW attrs, NEW key
  PROVE  /\ Optional(floatAttr(attrs, key))
         /\ \A S \in intAttr(attrs, key) : Optional(S)
BY DEF Optional, floatAttr, intAttr

LEMMA EventsFit ==
  ASSUME NEW rec, NEW e \in eventsOf(rec)
  PROVE  EventFits(e, rec)
<1> DEFINE bare == newEvent(rec.instance, logEventName(rec), timeFromUnixNano(logTime(rec)),
                            scrubbedAttrs(rec.attrs))
<1>1. CASE rec.shape = "log" /\ logEventName(rec) = "api_request"
  <2>1. PICK in \in intAttr(rec.attrs, "input_tokens"),
             out \in intAttr(rec.attrs, "output_tokens"),
             ns \in durations(rec.attrs) :
          e = [time |-> bare.time, instance |-> bare.instance, operation |-> "chat",
               model |-> stringAttr(rec.attrs, "model"), input |-> in, output |-> out,
               cost |-> floatAttr(rec.attrs, "cost_usd"), duration |-> ns, attrs |-> bare.attrs]
    BY <1>1 DEF eventsOf, logEvents
  <2>2. /\ e.input = in /\ e.output = out /\ e.cost = floatAttr(rec.attrs, "cost_usd")
        /\ e.instance = rec.instance /\ e.operation = "chat"
        /\ e.model = stringAttr(rec.attrs, "model") /\ e.attrs = scrubbedAttrs(rec.attrs)
    BY <2>1 DEF newEvent
  <2> HIDE DEF bare
  <2> QED BY <2>2, ConversionsAreOptional DEF EventFits
<1>2. CASE rec.shape = "log" /\ logEventName(rec) # "api_request"
  <2>1. e = bare
    BY <1>2 DEF eventsOf, logEvents
  <2> QED BY <2>1 DEF EventFits, newEvent, Optional
<1>3. CASE rec.shape # "log"
  <2>1. e = pointEvent(rec)
    BY <1>3 DEF eventsOf
  <2> QED BY <1>3, <2>1 DEF EventFits, pointEvent, newEvent, Optional
<1> QED BY <1>1, <1>2, <1>3

-----------------------------------------------------------------------------
(* The inductive invariant.                                                *)

\* Calls find providers that were built.
BuiltFirst ==
  /\ provider \in [Providers -> {"none", "open", "shut"}]
  /\ main = "build" => /\ \A c \in Calls : pc[c] = "idle"
                       /\ \A p \in Providers : provider[p] = "none"
  /\ main \in {"wire", "serving", "flushing"} => \A p \in Providers : provider[p] # "none"
  /\ \A c \in Calls : pc[c] # "idle" => \A p \in Providers : provider[p] # "none"

CallsFit ==
  /\ pc \in [Calls -> CallSteps] /\ DOMAIN record = Calls /\ DOMAIN event = Calls
  /\ \A c \in Calls : pc[c] # "idle" =>
       /\ record[c] \in Records
       /\ event[c] \in eventsOf(record[c])

\* The accounts a call has been past.
Passed(place) ==
  IF place \in {"emit", "returned"} THEN Accounts
  ELSE IF place = "cost" THEN {"input", "output", "duration"}
  ELSE IF place = "duration" THEN {"input", "output"}
  ELSE IF place = "output" THEN {"input"} ELSE {}

\* What was measured is what calls have been past, and all of it unless the
\* provider was shut.
MeasuredFits ==
  /\ \A m \in measured :
       /\ m.call \in Calls /\ m.account \in Passed(pc[m.call])
       /\ m.amount \in amounts(event[m.call])[m.account]
       /\ m.series = series(event[m.call], m.account)
  /\ \A c \in Calls : \A account \in Passed(pc[c]) :
       \/ amounts(event[c])[account] = {}
       \/ provider["metrics"] = "shut"
       \/ \E m \in measured : m.call = c /\ m.account = account

\* The span and the log record of a call.
SpanOf(c, e) == [call |-> c, name |-> SpanName(e), start |-> Stamped(e.time),
                 end |-> Stamped(e.time + e.duration), attrs |-> pairs(e)]
LogOf(c, e)  == [call |-> c, time |-> e.time, body |-> SpanName(e), attrs |-> pairs(e)]

\* The same for spans and log records.
TracedFits ==
  /\ \A x \in spans : /\ x.call \in Calls /\ pc[x.call] \notin {"idle", "span"}
                      /\ x = SpanOf(x.call, event[x.call])
  /\ \A c \in Calls : \/ pc[c] \in {"idle", "span"}
                       \/ provider["traces"] = "shut"
                       \/ \E x \in spans : x.call = c

LoggedFits ==
  /\ \A x \in logs : /\ x.call \in Calls /\ pc[x.call] = "returned"
                     /\ x = LogOf(x.call, event[x.call])
  /\ \A c \in Calls : \/ pc[c] # "returned"
                       \/ provider["logs"] = "shut"
                       \/ \E x \in logs : x.call = c

SInv == BuiltFirst /\ CallsFit /\ MeasuredFits /\ TracedFits /\ LoggedFits

LEMMA InitSInv == Init => SInv
<1> SUFFICES ASSUME Init PROVE SInv
  OBVIOUS
<1>1. BuiltFirst
  BY DEF Init, BuiltFirst
<1>2. CallsFit
  BY DEF Init, CallsFit, CallSteps
<1>3. MeasuredFits
  BY DEF Init, MeasuredFits, Passed
<1>4. TracedFits /\ LoggedFits
  BY DEF Init, TracedFits, LoggedFits
<1> QED BY <1>1, <1>2, <1>3, <1>4 DEF SInv

\* The main goroutine only builds and shuts providers.
LEMMA MainKeepsSInv ==
  ASSUME SInv,
         \/ Build \/ BuildFails \/ Wire \/ Leave \/ End
         \/ \E p \in Providers : Shut(p)
  PROVE  SInv'
<1>1. UNCHANGED <<pc, record, event, spans, measured, logs>>
  BY DEF Build, BuildFails, Wire, Leave, End, Shut, callVars, outputs
<1>2. \A p \in Providers : provider[p] = "shut" => provider'[p] = "shut"
  BY DEF Build, BuildFails, Wire, Leave, End, Shut, SInv, BuiltFirst
<1>3. BuiltFirst'
  BY <1>1 DEF SInv, BuiltFirst, Build, BuildFails, Wire, Leave, End, Shut
<1>4. CallsFit'
  BY <1>1 DEF SInv, CallsFit
<1>5. MeasuredFits'
  BY <1>1, <1>2 DEF SInv, MeasuredFits, Providers
<1>6. TracedFits' /\ LoggedFits'
  BY <1>1, <1>2 DEF SInv, TracedFits, LoggedFits, Providers
<1> QED BY <1>3, <1>4, <1>5, <1>6 DEF SInv

LEMMA BeginKeepsSInv ==
  ASSUME SInv, NEW c \in Calls, NEW rec \in Records, Begin(c, rec)
  PROVE  SInv'
<1>1. PICK e \in eventsOf(rec) : event' = [event EXCEPT ![c] = e]
  BY DEF Begin
<1>2. /\ pc[c] = "idle" /\ main \in {"serving", "flushing"}
      /\ pc' = [pc EXCEPT ![c] = "span"] /\ record' = [record EXCEPT ![c] = rec]
      /\ UNCHANGED <<main, provider, spans, measured, logs>>
  BY DEF Begin, Goto, mainVars, outputs
<1>3. \A d \in Calls \ {c} : pc'[d] = pc[d] /\ event'[d] = event[d] /\ record'[d] = record[d]
  BY <1>1, <1>2 DEF SInv, CallsFit
<1>4. pc'[c] = "span" /\ event'[c] = e /\ record'[c] = rec
  BY <1>1, <1>2 DEF SInv, CallsFit
<1>5. BuiltFirst'
  BY <1>2, <1>3 DEF SInv, BuiltFirst
<1>6. CallsFit'
  BY <1>1, <1>2, <1>3, <1>4 DEF SInv, CallsFit, CallSteps
<1>7. MeasuredFits'
  <2>1. \A m \in measured : m.call # c
    BY <1>2 DEF SInv, MeasuredFits, Passed
  <2>2. Passed(pc'[c]) = {}
    BY <1>4 DEF Passed
  <2> QED BY <1>2, <1>3, <2>1, <2>2 DEF SInv, MeasuredFits
<1>8. TracedFits' /\ LoggedFits'
  BY <1>2, <1>3, <1>4 DEF SInv, TracedFits, LoggedFits
<1> QED BY <1>5, <1>6, <1>7, <1>8 DEF SInv

\* A step of the sink moves one call on and leaves what it was given.
LEMMA MovesOn ==
  ASSUME SInv, NEW c \in Calls, NEW here, NEW next \in CallSteps \ {"idle"},
         At(c, here), here # "idle", Goto(c, next), UNCHANGED <<mainVars, record, event>>
  PROVE  /\ BuiltFirst' /\ CallsFit'
         /\ pc[c] = here /\ pc'[c] = next
         /\ \A d \in Calls \ {c} : pc'[d] = pc[d]
         /\ \A p \in Providers : provider[p] # "open" => provider[p] = "shut"
<1>1. pc[c] = here /\ pc' = [pc EXCEPT ![c] = next]
  BY DEF At, Goto
<1>2. pc'[c] = next /\ \A d \in Calls \ {c} : pc'[d] = pc[d]
  BY <1>1 DEF SInv, CallsFit
<1>3. \A p \in Providers : provider[p] # "none" /\ provider[p] \in {"none", "open", "shut"}
  BY <1>1 DEF SInv, BuiltFirst
<1>4. BuiltFirst'
  BY <1>1, <1>2, <1>3 DEF SInv, BuiltFirst, mainVars
<1>5. CallsFit'
  BY <1>1, <1>2 DEF SInv, CallsFit
<1> QED BY <1>1, <1>2, <1>3, <1>4, <1>5

LEMMA SinkKeepsSInv ==
  ASSUME SInv, NEW c \in Calls, Sink(c) PROVE SInv'
<1>1. CASE Trace(c)
  <2>1. /\ At(c, "span") /\ Goto(c, "input")
        /\ UNCHANGED <<mainVars, provider, record, event, measured, logs>>
        /\ spans' = IF provider["traces"] = "open" THEN spans \cup {Span(c)} ELSE spans
    BY <1>1 DEF Trace, mainVars
  <2>2. /\ BuiltFirst' /\ CallsFit' /\ pc[c] = "span" /\ pc'[c] = "input"
        /\ \A d \in Calls \ {c} : pc'[d] = pc[d]
        /\ provider["traces"] # "open" => provider["traces"] = "shut"
    BY <2>1, MovesOn DEF CallSteps, Providers
  <2>3. MeasuredFits'
    BY <2>1, <2>2 DEF SInv, MeasuredFits, Passed
  <2>4. Span(c).call = c /\ Span(c) = SpanOf(c, event[c])
    BY DEF Span, SpanOf
  <2>5. TracedFits'
    BY <2>1, <2>2, <2>4 DEF SInv, TracedFits
  <2>6. LoggedFits'
    BY <2>1, <2>2 DEF SInv, LoggedFits
  <2> QED BY <2>2, <2>3, <2>5, <2>6 DEF SInv
<1>2. ASSUME NEW account \in Accounts, Measure(c, account) PROVE SInv'
  <2> DEFINE entries ==
        {[call |-> c, account |-> account, amount |-> x, series |-> series(event[c], account)] :
           x \in amounts(event[c])[account]}
  <2>1. /\ At(c, account) /\ Goto(c, RecordOrder[account])
        /\ UNCHANGED <<mainVars, provider, record, event, spans, logs>>
        /\ measured' = IF provider["metrics"] = "open" THEN measured \cup entries ELSE measured
    BY <1>2 DEF Measure, mainVars
  <2>2. /\ account \in CallSteps \ {"idle", "span", "returned"}
        /\ RecordOrder[account] \in CallSteps \ {"idle", "span", "returned"}
        /\ Passed(RecordOrder[account]) = Passed(account) \cup {account}
    BY DEF CallSteps, Accounts, RecordOrder, Passed
  <2>3. /\ BuiltFirst' /\ CallsFit' /\ pc[c] = account /\ pc'[c] = RecordOrder[account]
        /\ \A d \in Calls \ {c} : pc'[d] = pc[d]
        /\ provider["metrics"] # "open" => provider["metrics"] = "shut"
    BY <2>1, <2>2, MovesOn DEF Providers
  <2>4. \A d \in Calls : Passed(pc[d]) \subseteq Passed(pc'[d])
    BY <2>2, <2>3
  <2>5. MeasuredFits'
    <3>1. \A m \in measured' :
            /\ m.call \in Calls /\ m.account \in Passed(pc'[m.call])
            /\ m.amount \in amounts(event'[m.call])[m.account]
            /\ m.series = series(event'[m.call], m.account)
      <4>1. \A m \in entries : /\ m.call = c /\ m.account = account
                               /\ m.amount \in amounts(event[c])[account]
                               /\ m.series = series(event[c], account)
        OBVIOUS
      <4>2. \A m \in measured : m.call \in Calls /\ m.account \in Passed(pc'[m.call])
        BY <2>4 DEF SInv, MeasuredFits
      <4> HIDE DEF entries
      <4> QED BY <2>1, <2>2, <2>3, <4>1, <4>2 DEF SInv, MeasuredFits
    <3>2. ASSUME NEW d \in Calls, NEW b \in Passed(pc'[d]),
                 amounts(event'[d])[b] # {}, provider'["metrics"] # "shut"
          PROVE  \E m \in measured' : m.call = d /\ m.account = b
      <4>1. CASE b \in Passed(pc[d])
        BY <2>1, <3>2, <4>1 DEF SInv, MeasuredFits
      <4>2. CASE b \notin Passed(pc[d])
        <5>1. d = c /\ b = account
          BY <2>2, <2>3, <3>2, <4>2
        <5>2. PICK x : x \in amounts(event[c])[account]
          BY <2>1, <3>2, <5>1
        <5>3. [call |-> c, account |-> account, amount |-> x,
               series |-> series(event[c], account)] \in entries
          BY <5>2
        <5> HIDE DEF entries
        <5> QED BY <2>1, <2>3, <3>2, <5>1, <5>3
      <4> QED BY <4>1, <4>2
    <3> HIDE DEF entries
    <3> QED BY <3>1, <3>2 DEF MeasuredFits
  <2>6. TracedFits' /\ LoggedFits'
    BY <2>1, <2>2, <2>3 DEF SInv, TracedFits, LoggedFits
  <2> QED BY <2>3, <2>5, <2>6 DEF SInv
<1>3. CASE Emit(c)
  <2> DEFINE entry == [call |-> c, time |-> event[c].time, body |-> SpanName(event[c]),
                       attrs |-> pairs(event[c])]
  <2>1. /\ At(c, "emit") /\ Goto(c, "returned")
        /\ UNCHANGED <<mainVars, provider, record, event, spans, measured>>
        /\ logs' = IF provider["logs"] = "open" THEN logs \cup {entry} ELSE logs
    BY <1>3 DEF Emit, mainVars
  <2>2. /\ BuiltFirst' /\ CallsFit' /\ pc[c] = "emit" /\ pc'[c] = "returned"
        /\ \A d \in Calls \ {c} : pc'[d] = pc[d]
        /\ provider["logs"] # "open" => provider["logs"] = "shut"
    BY <2>1, MovesOn DEF CallSteps, Providers
  <2>3. \A d \in Calls : Passed(pc'[d]) = Passed(pc[d])
    BY <2>2 DEF Passed
  <2>4. MeasuredFits'
    BY <2>1, <2>3 DEF SInv, MeasuredFits
  <2>5. TracedFits'
    BY <2>1, <2>2 DEF SInv, TracedFits
  <2>6. entry.call = c /\ entry = LogOf(c, event[c])
    BY DEF LogOf
  <2> HIDE DEF entry
  <2>7. LoggedFits'
    BY <2>1, <2>2, <2>6 DEF SInv, LoggedFits
  <2> QED BY <2>2, <2>4, <2>5, <2>7 DEF SInv
<1> QED BY <1>1, <1>2, <1>3 DEF Sink

LEMMA SInvHolds == Spec => []SInv
<1>1. SInv /\ [Next]_vars => SInv'
  <2> SUFFICES ASSUME SInv, [Next]_vars PROVE SInv'
    OBVIOUS
  <2>1. CASE UNCHANGED vars
    BY <2>1 DEF vars, mainVars, outputs, SInv, BuiltFirst, CallsFit, MeasuredFits, TracedFits,
                LoggedFits
  <2> QED BY <2>1, MainKeepsSInv, BeginKeepsSInv, SinkKeepsSInv DEF Next
<1> QED BY <1>1, InitSInv, PTL DEF Spec

-----------------------------------------------------------------------------
(* The theorems.                                                           *)

\* Only the flush loses anything.
THEOREM LostOnlyToTheFlushHolds == Spec => []LostOnlyToTheFlush
<1>1. SInv => LostOnlyToTheFlush
  <2> SUFFICES ASSUME SInv, NEW c \in Calls, NEW p \in Providers,
                      pc[c] = "returned", provider[p] = "open"
               PROVE  Left(c, p)
    BY DEF LostOnlyToTheFlush
  <2>1. CASE p = "traces"
    BY <2>1 DEF SInv, TracedFits, Left
  <2>2. CASE p = "logs"
    BY <2>2 DEF SInv, LoggedFits, Left
  <2>3. CASE p = "metrics"
    <3>1. \A account \in Accounts : amounts(event[c])[account] # {} =>
            \E m \in measured : m.call = c /\ m.account = account
      BY <2>3 DEF SInv, MeasuredFits, Passed
    <3> QED BY <2>3, <3>1 DEF Left
  <2> QED BY <2>1, <2>2, <2>3 DEF Providers
<1> QED BY <1>1, SInvHolds, PTL

\* What fits an event fits its measurements.
LEMMA MeasuredAreCalls ==
  ASSUME SInv, NEW m \in measured
  PROVE  /\ m.call \in Calls /\ m.account \in Accounts
         /\ m.series = series(event[m.call], m.account)
         /\ event[m.call].instance = record[m.call].instance
         /\ event[m.call].operation = "chat"
         /\ event[m.call].model = stringAttr(record[m.call].attrs, "model")
<1> DEFINE c == m.call
           e == event[c]
<1>1. /\ c \in Calls /\ m.account \in Passed(pc[c]) /\ m.amount \in amounts(e)[m.account]
      /\ m.series = series(e, m.account)
  BY DEF SInv, MeasuredFits
<1>2. pc[c] # "idle" /\ m.account \in Accounts
  BY <1>1 DEF Passed, Accounts
<1>3. EventFits(e, record[c])
  BY <1>1, <1>2, EventsFit DEF SInv, CallsFit
<1>4. ~(e.input = {} /\ e.output = {} /\ e.cost = {} /\ e.duration = 0)
  BY <1>1, <1>2 DEF amounts, Accounts
<1> QED BY <1>1, <1>2, <1>3, <1>4 DEF EventFits

\* Instance and model determine the series of an account.
THEOREM SeriesAreBoundedHolds == Spec => []SeriesAreBounded
<1>1. ASSUME NEW e, NEW f, e.instance = f.instance, e.model = f.model, e.operation = f.operation,
             NEW account
      PROVE  series(e, account) = series(f, account)
  BY <1>1 DEF series, dimensionPairs
<1>2. SInv => SeriesAreBounded
  <2> SUFFICES ASSUME SInv, NEW m \in measured, NEW n \in measured, m.account = n.account,
                      record[m.call].instance = record[n.call].instance,
                      stringAttr(record[m.call].attrs, "model")
                        = stringAttr(record[n.call].attrs, "model")
               PROVE  m.series = n.series
    BY DEF SeriesAreBounded
  <2>1. /\ event[m.call].instance = event[n.call].instance
        /\ event[m.call].operation = event[n.call].operation
        /\ event[m.call].model = event[n.call].model
    BY MeasuredAreCalls
  <2>2. series(event[m.call], m.account) = series(event[n.call], m.account)
    BY <1>1, <2>1
  <2> QED BY <2>2, MeasuredAreCalls
<1> QED BY <1>2, SInvHolds, PTL

\* What the adapter attaches to an event identifies nobody.
LEMMA EventsAreScrubbed ==
  ASSUME ~forwardIdentity, NEW rec \in Records, NEW e \in eventsOf(rec)
  PROVE  DOMAIN e.attrs \cap identityAttrs = {}
<1>1. DOMAIN scrubbedAttrs(rec.attrs) \cap identityAttrs = {}
  BY IdentityAssumption DEF scrubbedAttrs, isKept, renamed
<1>2. CASE rec.shape = "log"
  BY <1>1, <1>2, EventsFit DEF EventFits
<1>3. CASE rec.shape # "log"
  <2> DEFINE kept  == scrubbedAttrs(rec.attrs)
             value == IF rec.shape = "histogram"
                        THEN IF rec.value = Unset THEN DoubleValue(Exactly(0)) ELSE rec.value
                        ELSE numberValue(rec.value)
             attrs == [k \in DOMAIN kept \cup {rec.name} |->
                         IF k = rec.name THEN value ELSE kept[k]]
  <2>1. e = newEvent(rec.instance, rec.name, timeFromUnixNano(rec.time), attrs)
    BY <1>3 DEF eventsOf, pointEvent
  <2> HIDE DEF value, kept
  <2>2. e.attrs = attrs
    BY <2>1 DEF newEvent
  <2>3. DOMAIN e.attrs = DOMAIN kept \cup {rec.name}
    BY <2>2
  <2> QED BY <1>1, <2>3, RecordAssumption DEF kept
<1> QED BY <1>2, <1>3

\* With forwarding off, nothing that identifies a person is in any signal.
THEOREM NoIdentityIsExportedHolds == Spec => []NoIdentityIsExported
<1>1. \A e : DOMAIN dimensionPairs(e) \subseteq Dimensions
  BY DEF dimensionPairs
<1>2. \A e : DOMAIN pairs(e) \subseteq DOMAIN e.attrs \cup Dimensions \cup Usage
  BY <1>1 DEF pairs, merged, usagePairs
<1>3. \A e, account : DOMAIN series(e, account) \subseteq Dimensions \cup {AttrTokenType}
  BY <1>1 DEF series, merged
<1>4. SInv => NoIdentityIsExported
  <2> SUFFICES ASSUME SInv, ~forwardIdentity PROVE NoIdentityIsExported
    BY DEF NoIdentityIsExported
  <2>1. \A x \in spans \cup logs : /\ x.call \in Calls /\ pc[x.call] # "idle"
                                 /\ x.attrs = pairs(event[x.call])
    BY DEF SInv, TracedFits, LoggedFits, SpanOf, LogOf
  <2>2. \A c \in Calls : pc[c] # "idle" => DOMAIN event[c].attrs \cap identityAttrs = {}
    BY EventsAreScrubbed DEF SInv, CallsFit
  <2>3. \A x \in spans \cup logs : DOMAIN x.attrs \cap identityAttrs = {}
    BY <1>2, <2>1, <2>2, IdentityAssumption
  <2>4. \A m \in measured : DOMAIN m.series \cap identityAttrs = {}
    BY <1>3, MeasuredAreCalls, IdentityAssumption
  <2> QED BY <2>3, <2>4 DEF NoIdentityIsExported
<1> QED BY <1>4, SInvHolds, PTL

-----------------------------------------------------------------------------
(* The refinement: Signals implements Metering.                            *)

Report == [c \in Calls |-> IF pc[c] = "idle" THEN Nothing ELSE Due(event[c])]
Book   == {[delivery |-> m.call, account |-> m.account, amount |-> m.amount] : m \in measured}
Settled == {c \in Calls : pc[c] = "returned"}
Closed == provider["metrics"] = "shut"

\* The instruments charge what is due, and a report is never a blank.
LEMMA AmountsAreDue ==
  ASSUME NEW e
  PROVE  /\ Due(e) # Nothing
         /\ \A account \in Accounts : amounts(e)[account] = Due(e)[account]
<1>1. DOMAIN Due(e) # DOMAIN Nothing
  BY DEF Due, Nothing
<1>2. {Exactly(n) : n \in {n \in {e.duration} : n > 0}}
        = IF e.duration > 0 THEN {Exactly(e.duration)} ELSE {}
  OBVIOUS
<1>3. \A account \in Accounts : amounts(e)[account] = Due(e)[account]
  BY <1>2 DEF Accounts, amounts, Due
<1> QED BY <1>1, <1>3

\* An account has one amount at most.
LEMMA OneAmount ==
  ASSUME NEW rec, NEW e \in eventsOf(rec), NEW account \in Accounts
  PROVE  Optional(amounts(e)[account])
<1>1. /\ Optional(e.input) /\ Optional(e.output) /\ Optional(e.cost)
  BY EventsFit DEF EventFits
<1> QED BY <1>1 DEF Optional, amounts, Accounts

\* The entry a measurement is.
EntryOf(m) == [delivery |-> m.call, account |-> m.account, amount |-> m.amount]

\* An account is charged when it is measured.
LEMMA ChargedMeansMeasured ==
  ASSUME NEW c, NEW account
  PROVE  Books!Charged(c, account) <=> \E m \in measured : m.call = c /\ m.account = account
<1>1. \A m : EntryOf(m).delivery = m.call /\ EntryOf(m).account = m.account
  BY DEF EntryOf
<1>2. Books!Charged(c, account)
        <=> \E entry \in {EntryOf(m) : m \in measured} : entry.delivery = c /\ entry.account = account
  BY Zenon DEF Books!Charged, EntryOf
<1> HIDE DEF EntryOf
<1> QED BY <1>1, <1>2

LEMMA MainKeepsBooks ==
  ASSUME SInv,
         \/ Build \/ BuildFails \/ Wire \/ Leave \/ End
         \/ \E p \in Providers : Shut(p)
  PROVE  [Books!Next]_(Books!vars)
<1>1. UNCHANGED <<pc, event, measured>>
  BY DEF Build, BuildFails, Wire, Leave, End, Shut, callVars, outputs
<1>2. UNCHANGED <<Report, Book, Settled>>
  BY <1>1 DEF Report, Book, Settled
<1>3. Closed => Closed'
  BY DEF Build, BuildFails, Wire, Leave, End, Shut, SInv, BuiltFirst, Closed, Providers
<1>4. CASE UNCHANGED Closed
  BY <1>2, <1>4 DEF Books!vars, Report, Book, Settled, Closed
<1>5. CASE ~Closed /\ Closed'
  <2>1. Books!Close
    BY <1>2, <1>5 DEF Books!Close, Report, Book, Settled, Closed
  <2> QED BY <2>1 DEF Books!Next
<1> QED BY <1>3, <1>4, <1>5 DEF Closed

LEMMA BeginKeepsBooks ==
  ASSUME SInv, NEW c \in Calls, NEW rec \in Records, Begin(c, rec)
  PROVE  [Books!Next]_(Books!vars)
<1>1. PICK e \in eventsOf(rec) : event' = [event EXCEPT ![c] = e]
  BY DEF Begin
<1>2. /\ pc[c] = "idle" /\ pc' = [pc EXCEPT ![c] = "span"]
      /\ UNCHANGED <<provider, measured>>
  BY DEF Begin, Goto, mainVars, outputs
<1>3. UNCHANGED <<Book, Closed>>
  BY <1>2 DEF Book, Closed
<1>4. Settled' = Settled
  BY <1>2 DEF Settled, SInv, CallsFit
<1>5. Report[c] = Nothing /\ Report' = [Report EXCEPT ![c] = Due(e)]
  BY <1>1, <1>2 DEF Report, SInv, CallsFit
<1>6. Due(e) \in {Due(f) : f \in UNION {eventsOf(r) : r \in Records}}
  OBVIOUS
<1>7. Books!Deliver(c)
  BY <1>3, <1>4, <1>5, <1>6 DEF Books!Deliver, Report, Book, Settled, Closed
<1> QED BY <1>7 DEF Books!Next

LEMMA SinkKeepsBooks ==
  ASSUME SInv, NEW c \in Calls, Sink(c)
  PROVE  [Books!Next]_(Books!vars)
<1>1. UNCHANGED <<provider, event>> /\ Closed' = Closed
  BY DEF Sink, Trace, Measure, Emit, mainVars, Closed
<1>2. /\ pc[c] \notin {"idle", "returned"}
      /\ Report[c] = Due(event[c]) /\ Report[c] # Nothing /\ c \notin Settled
  <2>1. pc[c] \notin {"idle", "returned"}
    BY DEF Sink, Trace, Measure, Emit, At, Accounts
  <2> QED BY <2>1, AmountsAreDue DEF Report, Settled
<1>3. \A place \in CallSteps \ {"idle"} : Goto(c, place) => Report' = Report
  BY <1>1, <1>2 DEF Report, Goto, SInv, CallsFit
<1>4. \A place \in CallSteps \ {"idle", "returned"} : Goto(c, place) => Settled' = Settled
  BY <1>2 DEF Settled, Goto, SInv, CallsFit
<1>5. CASE Trace(c)
  <2>1. Goto(c, "input") /\ UNCHANGED measured
    BY <1>5 DEF Trace
  <2>2. UNCHANGED <<Report, Book, Settled, Closed>>
    BY <1>1, <1>3, <1>4, <2>1 DEF CallSteps, Book
  <2> QED BY <2>2 DEF Books!vars, Report, Book, Settled, Closed
<1>6. ASSUME NEW account \in Accounts, Measure(c, account)
      PROVE  [Books!Next]_(Books!vars)
  <2>1. UNCHANGED <<Report, Settled>> /\ pc[c] = account
    <3>1. Goto(c, RecordOrder[account]) /\ RecordOrder[account] \in CallSteps \ {"idle", "returned"}
      BY <1>6 DEF Measure, RecordOrder, Accounts, CallSteps
    <3> QED BY <1>3, <1>4, <1>6, <3>1 DEF Measure, At
  <2>2. CASE provider["metrics"] = "open" /\ amounts(event[c])[account] # {}
    <3>1. Optional(amounts(event[c])[account])
      BY <1>2, OneAmount DEF SInv, CallsFit
    <3>2. PICK x : amounts(event[c])[account] = {x}
      BY <2>2, <3>1 DEF Optional
    <3> DEFINE entry == [call |-> c, account |-> account, amount |-> x,
                         series |-> series(event[c], account)]
    <3>3. measured' = measured \cup {entry}
      BY <1>6, <2>2, <3>2 DEF Measure
    <3>4. Book' = Book \cup {[delivery |-> c, account |-> account, amount |-> x]}
      <4>1. Book = {EntryOf(m) : m \in measured} /\ Book' = {EntryOf(m) : m \in measured'}
        BY Zenon DEF Book, EntryOf
      <4>2. EntryOf(entry) = [delivery |-> c, account |-> account, amount |-> x]
        BY DEF EntryOf
      <4> HIDE DEF entry, EntryOf
      <4> QED BY <3>3, <4>1, <4>2
    <3>5. ~Books!Charged(c, account)
      BY <2>1, ChargedMeansMeasured DEF SInv, MeasuredFits, Passed, Accounts
    <3>6. x \in Report[c][account]
      BY <1>2, <3>2, AmountsAreDue
    <3>7. ~Closed
      BY <2>2 DEF Closed
    <3>8. Books!Charge(c, account)
      BY <1>1, <1>2, <2>1, <3>4, <3>5, <3>6, <3>7
         DEF Books!Charge, Report, Book, Settled, Closed
    <3> QED BY <3>8 DEF Books!Next
  <2>3. CASE ~(provider["metrics"] = "open" /\ amounts(event[c])[account] # {})
    <3>1. measured' = measured
      BY <1>6, <2>3 DEF Measure
    <3>2. Book' = Book
      BY <3>1 DEF Book
    <3> QED BY <1>1, <2>1, <3>2 DEF Books!vars, Report, Book, Settled, Closed
  <2> QED BY <2>2, <2>3
<1>7. CASE Emit(c)
  <2>1. pc[c] = "emit" /\ Goto(c, "returned") /\ UNCHANGED measured
    BY <1>7 DEF Emit, At
  <2>2. UNCHANGED <<Report, Book>>
    BY <1>3, <2>1 DEF CallSteps, Book
  <2>3. Settled' = Settled \cup {c}
    BY <2>1 DEF Settled, Goto, SInv, CallsFit
  <2>4. \/ Closed
        \/ \A account \in Accounts : Report[c][account] # {} => Books!Charged(c, account)
    BY <1>2, <2>1, AmountsAreDue, ChargedMeansMeasured DEF SInv, MeasuredFits, Passed, Closed
  <2>5. Books!Settle(c)
    BY <1>1, <1>2, <2>2, <2>3, <2>4 DEF Books!Settle, Report, Book, Settled, Closed
  <2> QED BY <2>5 DEF Books!Next
<1> QED BY <1>5, <1>6, <1>7 DEF Sink

\* The metrics implement the contract of Metering: each delivery is charged
\* once for what it reported, and wholly unless the flush overtook it.
THEOREM SignalsKeepsBooks == Spec => KeepsBooks
<1>1. Init => Books!Init
  BY DEF Init, Books!Init, Providers
<1>2. ASSUME SInv, [Next]_vars PROVE [Books!Next]_(Books!vars)
  <2>1. CASE UNCHANGED vars
    BY <2>1 DEF vars, mainVars, outputs, Books!vars
  <2> QED BY <1>2, <2>1, MainKeepsBooks, BeginKeepsBooks, SinkKeepsBooks DEF Next
<1> QED BY <1>1, <1>2, SInvHolds, PTL DEF Spec, KeepsBooks, Books!Spec


\* What the contract comes to, for the instruments: an entry is for an amount
\* its event reports, no account of a call is charged two amounts, and a call
\* that ended while the meter provider was open is charged in full.
THEOREM BooksBalance == Spec => []Books!Balanced
<1>1. SInv => Books!Balanced
  <2> SUFFICES ASSUME SInv PROVE Books!Balanced
    OBVIOUS
  <2>1. ASSUME NEW x \in Book
        PROVE  /\ Report[x.delivery] # Nothing
               /\ x.amount \in Report[x.delivery][x.account]
               /\ Optional(Report[x.delivery][x.account])
    <3>1. PICK m \in measured : x = EntryOf(m)
      BY Zenon DEF Book, EntryOf
    <3>2. x.delivery = m.call /\ x.account = m.account /\ x.amount = m.amount
      BY <3>1 DEF EntryOf
    <3>3. /\ m.call \in Calls /\ m.account \in Passed(pc[m.call])
          /\ m.amount \in amounts(event[m.call])[m.account]
      BY DEF SInv, MeasuredFits
    <3>4. pc[m.call] # "idle" /\ m.account \in Accounts
      BY <3>3 DEF Passed, Accounts
    <3>5. event[m.call] \in eventsOf(record[m.call])
      BY <3>3, <3>4 DEF SInv, CallsFit
    <3>6. Report[m.call] = Due(event[m.call])
      BY <3>3, <3>4 DEF Report
    <3> QED BY <3>2, <3>3, <3>4, <3>5, <3>6, AmountsAreDue, OneAmount
  <2>2. \A x, y \in Book : x.delivery = y.delivery /\ x.account = y.account => x.amount = y.amount
    BY <2>1 DEF Optional
  <2>3. ASSUME NEW c \in Settled, ~Closed, NEW account \in Accounts, Report[c][account] # {}
        PROVE  Books!Charged(c, account)
    <3>1. c \in Calls /\ pc[c] = "returned" /\ Report[c] = Due(event[c])
      BY DEF Settled, Report
    <3>2. amounts(event[c])[account] # {} /\ account \in Passed(pc[c])
      BY <2>3, <3>1, AmountsAreDue DEF Passed
    <3>3. \E m \in measured : m.call = c /\ m.account = account
      BY <2>3, <3>1, <3>2 DEF SInv, MeasuredFits, Closed
    <3> QED BY <3>3, ChargedMeansMeasured
  <2> QED BY <2>1, <2>2, <2>3, Zenon DEF Books!Balanced, Report, Book, Settled, Closed
<1> QED BY <1>1, SInvHolds, PTL

-----------------------------------------------------------------------------
(* The conversions.                                                        *)

\* What an attribute holds, set or not.
LEMMA AttrIsValue ==
  ASSUME NEW rec, IsRecord(rec), NEW key
  PROVE  IsValue(attr(rec.attrs, key))
<1> DEFINE found == {i \in DOMAIN rec.attrs : rec.attrs[i].key = key}
<1>1. CASE found = {}
  BY <1>1 DEF attr, IsValue, Unset, NaN
<1>2. CASE found # {}
  <2>1. Min(found) \in found
    BY <1>2, MinIsLeast DEF IsRecord
  <2> QED BY <1>2, <2>1 DEF attr, IsRecord
<1> QED BY <1>1, <1>2

IsNumber(d) == d \in [finite : BOOLEAN, halves : Int]

\* Conversion to an integer drops the fraction, on either side of zero.
LEMMA TruncatedIsWholePart ==
  ASSUME NEW d, IsNumber(d)
  PROVE  Truncated(d) \in Int /\ IsWholePart(Truncated(d), d)
<1>1. d.halves \in Int
  BY DEF IsNumber
<1>2. CASE d.halves >= 0
  BY <1>1, <1>2 DEF Truncated, IsWholePart
<1>3. CASE d.halves < 0
  BY <1>1, <1>3 DEF Truncated, IsWholePart
<1> QED BY <1>1, <1>2, <1>3

\* What toInt yields is a word, and the whole part of what fits one.
LEMMA IntsFit ==
  ASSUME NEW d, IsNumber(d), NEW n \in toInt(d)
  PROVE  /\ n \in MinInt .. MaxInt
         /\ Fits(d) => n = Truncated(d)
         /\ n < 0 => ~d.finite \/ d.halves < 0 \/ d.halves > 2 * MaxInt
<1>1. 0 \in MinInt .. MaxInt /\ MinInt \in MinInt .. MaxInt /\ MaxInt \in MinInt .. MaxInt
      /\ MinInt \in Int /\ MaxInt \in Nat
  BY WordAssumption DEF MinInt, MaxInt
<1>2. CASE Fits(d)
  <2>1. n = Truncated(d) /\ n \in MinInt .. MaxInt /\ IsWholePart(n, d) /\ d.halves \in Int
    BY <1>2, TruncatedIsWholePart DEF toInt, Fits, IsNumber
  <2>2. n < 0 => d.halves < 0
    BY <1>1, <2>1 DEF IsWholePart
  <2> QED BY <2>1, <2>2
<1>3. CASE ~Fits(d)
  <2>1. n \in {MinInt, IF d = NaN THEN 0 ELSE IF d.halves > 0 THEN MaxInt ELSE MinInt}
    BY <1>3 DEF toInt
  <2>2. n \in MinInt .. MaxInt
    BY <1>1, <2>1
  <2>3. d.finite => d.halves < 0 \/ d.halves > 2 * MaxInt
    <3>1. SUFFICES ASSUME d.finite, ~(d.halves < 0), ~(d.halves > 2 * MaxInt) PROVE FALSE
      OBVIOUS
    <3>2. Truncated(d) \in Int /\ IsWholePart(Truncated(d), d) /\ d.halves \in Int
      BY TruncatedIsWholePart DEF IsNumber
    <3>3. Truncated(d) \in MinInt .. MaxInt
      BY <1>1, <3>1, <3>2, WordAssumption DEF IsWholePart, MinInt, MaxInt
    <3> QED BY <1>3, <3>1, <3>3 DEF Fits
  <2> QED BY <1>3, <2>2, <2>3
<1> QED BY <1>2, <1>3

\* A duration is a word, the whole part of the scaled milliseconds if that fits
\* one, and negative only if what was reported was, or was beyond a word.
LEMMA DurationsFit ==
  ASSUME NEW rec, IsRecord(rec), NEW ns \in durations(rec.attrs)
  PROVE  LET v == attr(rec.attrs, "duration_ms")
             scaled == v.number.halves * Millisecond
         IN  /\ ns \in MinInt .. MaxInt
             /\ ~Numeric(v) => ns = 0
             /\ Numeric(v) /\ v.number.finite /\ scaled \in 2 * MinInt .. 2 * MaxInt
                  => IsWholePart(ns, Double(scaled))
             /\ ns < 0 => \/ ~v.number.finite \/ v.number.halves < 0
                          \/ scaled > 2 * MaxInt
<1> DEFINE v == attr(rec.attrs, "duration_ms")
           d == v.number
           scaled == d.halves * Millisecond
           e == [d EXCEPT !.halves = IF d.finite THEN @ * Millisecond ELSE @]
<1>1. IsNumber(d)
  BY AttrIsValue DEF IsValue, IsNumber
<1>2. 0 \in MinInt .. MaxInt /\ Millisecond \in Nat \ {0}
  BY WordAssumption DEF MinInt, MaxInt
<1>3. CASE ~Numeric(v)
  BY <1>2, <1>3 DEF durations, floatAttr, Numeric
<1>4. CASE Numeric(v)
  <2>1. ns \in toInt(e)
    BY <1>4 DEF durations, floatAttr, Numeric
  <2>2. /\ IsNumber(e) /\ e.finite = d.finite
        /\ d.finite => e.halves = scaled
    BY <1>1, <1>2 DEF IsNumber
  <2>3. /\ ns \in MinInt .. MaxInt
        /\ Fits(e) => ns = Truncated(e)
        /\ ns < 0 => ~e.finite \/ e.halves < 0 \/ e.halves > 2 * MaxInt
    BY <2>1, <2>2, IntsFit
  <2>4. d.finite /\ e.halves < 0 => d.halves < 0
    <3>1. \A x \in Int, y \in Nat : x >= 0 => x * y >= 0
      OBVIOUS
    <3> QED BY <1>1, <1>2, <2>2, <3>1 DEF IsNumber
  <2>5. ASSUME d.finite, scaled \in 2 * MinInt .. 2 * MaxInt
        PROVE  IsWholePart(ns, Double(scaled))
    <3>1. IsWholePart(Truncated(e), e) /\ Truncated(e) \in Int
      BY <2>2, TruncatedIsWholePart
    <3>2. e.finite /\ e.halves = scaled /\ Double(scaled).halves = scaled
      BY <2>2, <2>5 DEF Double
    <3> HIDE DEF v, e, scaled
    <3>3. Truncated(e) \in MinInt .. MaxInt
      BY <2>5, <3>1, <3>2, WordAssumption DEF IsWholePart, MinInt, MaxInt
    <3>4. ns = Truncated(e)
      BY <2>3, <3>2, <3>3 DEF Fits
    <3> QED BY <3>1, <3>2, <3>4 DEF IsWholePart
  <2> HIDE DEF v, e
  <2> QED BY <1>4, <2>2, <2>3, <2>4, <2>5 DEF v
<1> QED BY <1>3, <1>4

LEMMA WholePartFits ==
  ASSUME NEW d, IsNumber(d), InWord(d)
  PROVE  Fits(d) /\ IsWholePart(Truncated(d), d)
<1>1. Truncated(d) \in Int /\ IsWholePart(Truncated(d), d)
  BY TruncatedIsWholePart
<1>2. Truncated(d) \in MinInt .. MaxInt
  BY <1>1, WordAssumption DEF InWord, IsWholePart, IsNumber, MinInt, MaxInt
<1> QED BY <1>1, <1>2 DEF Fits, InWord

\* The integers a number is: one or none.
ExactInts(v) == {n \in MinInt .. MaxInt : Exactly(n) = v.number}

LEMMA ExactAreTruncated ==
  ASSUME NEW v, IsValue(v), NEW n \in Int, Exactly(n) = v.number
  PROVE  n = Truncated(v.number)
<1>1. v.number.halves = 2 * n
  BY DEF Exactly, Double
<1> QED BY <1>1 DEF Truncated

LEMMA ExactOrNone ==
  ASSUME NEW v, IsValue(v), v.number.finite, v.number.halves % 2 = 0
  PROVE  /\ Exactly(Truncated(v.number)) = v.number
         /\ ExactInts(v) = IF Fits(v.number) THEN {Truncated(v.number)} ELSE {}
<1> DEFINE d == v.number
           n == Truncated(d)
<1>1. d \in [finite : BOOLEAN, halves : Int] /\ d.finite = TRUE /\ d.halves % 2 = 0
  BY DEF IsValue
<1>2. n \in Int /\ 2 * n = d.halves
  <2>1. n \in Int /\ IsWholePart(n, d)
    BY <1>1, TruncatedIsWholePart DEF IsNumber
  <2> HIDE DEF n
  <2> QED BY <1>1, <2>1 DEF IsWholePart
<1> HIDE DEF n
<1>3. Exactly(n) = d
  BY <1>1, <1>2 DEF Exactly, Double
<1>4. ASSUME NEW m \in MinInt .. MaxInt, Exactly(m) = d PROVE m = n
  <2>1. MinInt \in Int /\ MaxInt \in Int
    BY WordAssumption DEF MinInt, MaxInt
  <2> QED BY <1>4, <2>1, ExactAreTruncated DEF n
<1>5. Fits(d) <=> n \in MinInt .. MaxInt
  BY <1>1 DEF Fits, n
<1> QED BY <1>3, <1>4, <1>5 DEF ExactInts, n

\* A count is the integer that was reported, the whole part of a fraction, or
\* none.
LEMMA CountsFit ==
  ASSUME NEW rec, IsRecord(rec), NEW key, NEW S \in intAttr(rec.attrs, key)
  PROVE  LET v == attr(rec.attrs, key)
         IN  IF ~(v.form \in {"int", "double"} \/ v.literal = "integer")
               THEN S = {}
               ELSE \/ S = ExactInts(v)
                    \/ /\ v.form = "double" /\ ExactInts(v) = {}
                       /\ InWord(v.number) => \A n \in S : IsWholePart(n, v.number)
<1> DEFINE v == attr(rec.attrs, key)
<1>1. IsValue(v)
  BY AttrIsValue
<1>2. CASE v.form = "double"
  <2>1. PICK n \in toInt(v.number) : S = {n}
    BY <1>2 DEF intAttr
  <2>2. CASE ExactInts(v) # {}
    <3>1. PICK m \in MinInt .. MaxInt : Exactly(m) = v.number
      BY <2>2 DEF ExactInts
    <3>2. MinInt \in Int /\ MaxInt \in Int
      BY WordAssumption DEF MinInt, MaxInt
    <3>3. v.number.finite /\ v.number.halves % 2 = 0
      BY <3>1, <3>2 DEF Exactly, Double
    <3>4. Fits(v.number)
      BY <1>1, <2>2, <3>3, ExactOrNone
    <3>5. n = Truncated(v.number)
      BY <1>1, <3>4, IntsFit DEF IsValue, IsNumber
    <3> QED BY <1>1, <1>2, <2>1, <3>3, <3>4, <3>5, ExactOrNone
  <2>3. InWord(v.number) => IsWholePart(n, v.number)
    BY <1>1, WholePartFits, IntsFit DEF IsValue, IsNumber
  <2> HIDE DEF v
  <2> QED BY <1>2, <2>1, <2>2, <2>3 DEF v
<1>3. CASE v.form = "int"
  <2>1. S = {Truncated(v.number)} /\ v.number.finite /\ v.number.halves \in 2 * MinInt .. 2 * MaxInt
    BY <1>1, <1>3 DEF intAttr, IsValue
  <2>2. v.number.halves % 2 = 0
    BY <1>1, <1>3 DEF IsValue
  <2>3. Fits(v.number)
    BY <1>1, <2>1, WholePartFits DEF IsValue, IsNumber, InWord
  <2> QED BY <1>1, <1>3, <2>1, <2>2, <2>3, ExactOrNone
<1>4. CASE v.form \notin {"int", "double"} /\ v.literal = "integer"
  <2>1. S = IF Fits(v.number) THEN {Truncated(v.number)} ELSE {}
    BY <1>4 DEF intAttr
  <2>2. v.number.finite /\ v.number.halves % 2 = 0
    BY <1>1, <1>4 DEF IsValue
  <2> QED BY <1>1, <1>4, <2>1, <2>2, ExactOrNone
<1>5. CASE v.form \notin {"int", "double"} /\ v.literal # "integer"
  BY <1>5 DEF intAttr
<1> QED BY <1>2, <1>3, <1>4, <1>5

\* A time is its sender's, modulo the word, and far from the unknown one.
LEMMA TimesFit ==
  ASSUME NEW ns \in Word
  PROVE  /\ timeFromUnixNano(ns) \in Int
         /\ ns = 0 => timeFromUnixNano(ns) = ZeroTime
         /\ ns # 0 => /\ timeFromUnixNano(ns) \in MinInt .. MaxInt
                      /\ (timeFromUnixNano(ns) - ns) % (2 * HalfWord) = 0
                      /\ timeFromUnixNano(ns) # ZeroTime
                      /\ \A d \in MinInt .. MaxInt : timeFromUnixNano(ns) + d # ZeroTime
<1>1. HalfWord \in Nat \ {0} /\ ZeroTime \in Int /\ ZeroTime < MinInt + MinInt /\ ns \in Nat
      /\ ns <= 2 * HalfWord - 1
  BY WordAssumption DEF Word
<1>2. CASE ns = 0
  BY <1>1, <1>2 DEF timeFromUnixNano
<1>3. CASE ns # 0
  <2>1. timeFromUnixNano(ns) \in {ns, ns - 2 * HalfWord}
    BY <1>3 DEF timeFromUnixNano
  <2>2. timeFromUnixNano(ns) \in MinInt .. MaxInt
    BY <1>1, <1>3 DEF timeFromUnixNano, MinInt, MaxInt
  <2>3. (ns - ns) % (2 * HalfWord) = 0 /\ ((ns - 2 * HalfWord) - ns) % (2 * HalfWord) = 0
    BY <1>1
  <2>4. (timeFromUnixNano(ns) - ns) % (2 * HalfWord) = 0
    BY <2>1, <2>3
  <2>5. ZeroTime < MinInt /\ MinInt \in Int
    BY <1>1 DEF MinInt
  <2>6. \A d \in MinInt .. MaxInt : timeFromUnixNano(ns) + d # ZeroTime
    BY <1>1, <2>2, <2>5
  <2> QED BY <1>3, <2>2, <2>4, <2>5, <2>6
<1> QED BY <1>2, <1>3

-----------------------------------------------------------------------------
(* What an event reads of its record.                                      *)

ReadFrom(e, rec) ==
  /\ e.time = timeFromUnixNano(IF rec.shape = "log" THEN logTime(rec) ELSE rec.time)
  /\ IF IsModelCall(rec)
       THEN /\ e.input \in intAttr(rec.attrs, "input_tokens")
            /\ e.output \in intAttr(rec.attrs, "output_tokens")
            /\ e.cost = floatAttr(rec.attrs, "cost_usd")
            /\ e.duration \in durations(rec.attrs)
       ELSE e.input = {} /\ e.output = {} /\ e.cost = {} /\ e.duration = 0

LEMMA EventsAreRead ==
  ASSUME NEW rec, NEW e \in eventsOf(rec)
  PROVE  ReadFrom(e, rec)
<1> DEFINE bare == newEvent(rec.instance, logEventName(rec), timeFromUnixNano(logTime(rec)),
                            scrubbedAttrs(rec.attrs))
<1>1. CASE rec.shape = "log" /\ logEventName(rec) = "api_request"
  <2>1. PICK in \in intAttr(rec.attrs, "input_tokens"),
             out \in intAttr(rec.attrs, "output_tokens"),
             ns \in durations(rec.attrs) :
          e = [time |-> bare.time, instance |-> bare.instance, operation |-> "chat",
               model |-> stringAttr(rec.attrs, "model"), input |-> in, output |-> out,
               cost |-> floatAttr(rec.attrs, "cost_usd"), duration |-> ns, attrs |-> bare.attrs]
    BY <1>1 DEF eventsOf, logEvents
  <2>2. /\ e.input = in /\ e.output = out /\ e.cost = floatAttr(rec.attrs, "cost_usd")
        /\ e.duration = ns /\ e.time = timeFromUnixNano(logTime(rec))
    BY <2>1 DEF newEvent
  <2>3. IsModelCall(rec)
    BY <1>1 DEF IsModelCall, logEventName
  <2> HIDE DEF bare
  <2> QED BY <1>1, <2>2, <2>3 DEF ReadFrom
<1>2. CASE rec.shape = "log" /\ logEventName(rec) # "api_request"
  <2>1. e = bare
    BY <1>2 DEF eventsOf, logEvents
  <2>2. ~IsModelCall(rec)
    BY <1>2 DEF IsModelCall, logEventName
  <2> QED BY <1>2, <2>1, <2>2 DEF ReadFrom, newEvent
<1>3. CASE rec.shape # "log"
  <2>1. e = pointEvent(rec) /\ ~IsModelCall(rec)
    BY <1>3 DEF eventsOf, IsModelCall
  <2> QED BY <1>3, <2>1 DEF ReadFrom, pointEvent, newEvent
<1> QED BY <1>1, <1>2, <1>3

\* What an event counts, costs and lasts is what its record reports, value for
\* value, and an event that is no model call has none of it.
THEOREM NothingInventedNothingDroppedHolds == Spec => []NothingInventedNothingDropped
<1>1. SInv => NothingInventedNothingDropped
  <2> SUFFICES ASSUME SInv, NEW c \in Calls, pc[c] # "idle"
               PROVE  LET rec        == record[c]
                          value(key) == attr(rec.attrs, key)
                          Exact(v)   == {n \in MinInt .. MaxInt : Exactly(n) = v.number}
                          CountIs(got, v) ==
                            IF ~IsModelCall(rec) \/ ~(v.form \in {"int", "double"} \/ v.literal = "integer")
                              THEN got = {}
                              ELSE \/ got = Exact(v)
                                   \/ /\ v.form = "double" /\ Exact(v) = {}
                                      /\ InWord(v.number) => \A n \in got : IsWholePart(n, v.number)
                          LastsFor(ns, ms) ==
                            LET scaled == ms.number.halves * Millisecond
                            IN  IF ~IsModelCall(rec) \/ ~Numeric(ms)
                                  THEN ns = 0
                                  ELSE ms.number.finite /\ scaled \in 2 * MinInt .. 2 * MaxInt
                                         => IsWholePart(ns, Double(scaled))
                      IN  /\ CountIs(event[c].input, value("input_tokens"))
                          /\ CountIs(event[c].output, value("output_tokens"))
                          /\ event[c].cost = IF IsModelCall(rec) /\ Numeric(value("cost_usd"))
                                               THEN {value("cost_usd").number} ELSE {}
                          /\ LastsFor(event[c].duration, value("duration_ms"))
    BY DEF NothingInventedNothingDropped
  <2> DEFINE rec == record[c]
             e == event[c]
  <2>1. IsRecord(rec) /\ ReadFrom(e, rec)
    BY EventsAreRead, RecordAssumption DEF SInv, CallsFit
  <2>2. CASE IsModelCall(rec)
    <3>1. /\ e.input \in intAttr(rec.attrs, "input_tokens")
          /\ e.output \in intAttr(rec.attrs, "output_tokens")
          /\ e.cost = floatAttr(rec.attrs, "cost_usd")
          /\ e.duration \in durations(rec.attrs)
      BY <2>1, <2>2 DEF ReadFrom
    <3>2. e.cost = IF Numeric(attr(rec.attrs, "cost_usd"))
                     THEN {attr(rec.attrs, "cost_usd").number} ELSE {}
      BY <3>1 DEF floatAttr, Numeric
    <3> HIDE DEF rec, e
    <3>3. LET ms == attr(rec.attrs, "duration_ms")
              scaled == ms.number.halves * Millisecond
          IN  IF ~Numeric(ms) THEN e.duration = 0
              ELSE ms.number.finite /\ scaled \in 2 * MinInt .. 2 * MaxInt
                     => IsWholePart(e.duration, Double(scaled))
      BY <2>1, <3>1, DurationsFit
    <3>4. \A key, S : S \in intAttr(rec.attrs, key) =>
            LET v == attr(rec.attrs, key)
            IN  IF ~(v.form \in {"int", "double"} \/ v.literal = "integer")
                  THEN S = {}
                  ELSE \/ S = ExactInts(v)
                       \/ /\ v.form = "double" /\ ExactInts(v) = {}
                          /\ InWord(v.number) => \A n \in S : IsWholePart(n, v.number)
      BY <2>1, CountsFit
    <3> QED BY <2>2, <3>1, <3>2, <3>3, <3>4 DEF rec, e, ExactInts
  <2>3. CASE ~IsModelCall(rec)
    BY <2>1, <2>3 DEF ReadFrom
  <2> QED BY <2>2, <2>3
<1> QED BY <1>1, SInvHolds, PTL

\* The time of an event: a word or unknown, the record's own or its
\* observation's, and unknown only if the record has neither.
LEMMA EventTimes ==
  ASSUME NEW rec, IsRecord(rec), NEW e \in eventsOf(rec)
  PROVE  LET ns == IF rec.time = 0 THEN rec.observed ELSE rec.time
         IN  ns \in Word /\ e.time = timeFromUnixNano(ns)
<1>1. e.time = timeFromUnixNano(IF rec.shape = "log" THEN logTime(rec) ELSE rec.time)
  BY EventsAreRead DEF ReadFrom
<1>2. /\ rec.time \in Word /\ rec.observed \in Word
      /\ rec.shape # "log" => rec.observed = 0
  BY DEF IsRecord
<1> QED BY <1>1, <1>2 DEF logTime

LEMMA EventDurations ==
  ASSUME NEW rec, IsRecord(rec), NEW e \in eventsOf(rec)
  PROVE  LET ms == attr(rec.attrs, "duration_ms").number
         IN  /\ e.duration \in MinInt .. MaxInt
             /\ e.duration < 0 => \/ ~ms.finite \/ ms.halves < 0
                                  \/ ms.halves * Millisecond > 2 * MaxInt
<1>1. CASE IsModelCall(rec)
  <2>1. e.duration \in durations(rec.attrs)
    BY <1>1, EventsAreRead DEF ReadFrom
  <2> QED BY <2>1, DurationsFit
<1>2. CASE ~IsModelCall(rec)
  <2>1. e.duration = 0
    BY <1>2, EventsAreRead DEF ReadFrom
  <2>2. 0 \in MinInt .. MaxInt
    BY WordAssumption DEF MinInt, MaxInt
  <2> QED BY <2>1, <2>2
<1> QED BY <1>1, <1>2

\* The span of an event whose time is known starts with it and is as long as
\* its duration.
LEMMA SpansFit ==
  ASSUME NEW c, NEW rec, IsRecord(rec), NEW e \in eventsOf(rec)
  PROVE  /\ SpanOf(c, e).call = c /\ SpanOf(c, e).name = SpanName(e)
         /\ SpanOf(c, e).attrs = pairs(e)
         /\ SpanOf(c, e).start \in Int /\ SpanOf(c, e).end \in Int
         /\ e.time = ZeroTime <=> rec.time = 0 /\ rec.observed = 0
         /\ e.time # ZeroTime => SpanOf(c, e).end - SpanOf(c, e).start = e.duration
<1> DEFINE ns == IF rec.time = 0 THEN rec.observed ELSE rec.time
<1>1. ns \in Word /\ e.time = timeFromUnixNano(ns)
  BY EventTimes
<1>2. e.duration \in MinInt .. MaxInt
  BY EventDurations
<1>3. e.time = ZeroTime <=> ns = 0
  BY <1>1, TimesFit
<1>4. e.time \in Int /\ e.duration \in Int /\ ZeroTime \in Int /\ Now \in Int
  BY <1>1, <1>2, TimesFit, WordAssumption, NowAssumption DEF MinInt, MaxInt
<1>5. e.time # ZeroTime => e.time + e.duration # ZeroTime
  BY <1>1, <1>2, <1>3, TimesFit
<1>6. /\ SpanOf(c, e).call = c /\ SpanOf(c, e).name = SpanName(e)
      /\ SpanOf(c, e).attrs = pairs(e)
      /\ SpanOf(c, e).start = Stamped(e.time)
      /\ SpanOf(c, e).end = Stamped(e.time + e.duration)
  BY DEF SpanOf
<1>7. Stamped(e.time) \in Int /\ Stamped(e.time + e.duration) \in Int
  BY <1>4 DEF Stamped
<1>8. e.time # ZeroTime => Stamped(e.time + e.duration) - Stamped(e.time) = e.duration
  BY <1>4, <1>5 DEF Stamped
<1>9. ns = 0 <=> rec.time = 0 /\ rec.observed = 0
  OBVIOUS
<1> QED BY <1>3, <1>6, <1>7, <1>8, <1>9

\* Log records carry their senders' times, modulo the word, and a span ends
\* before it starts only for what was reported.
THEOREM TimesAreTheSendersHolds == Spec => []TimesAreTheSenders
<1>1. SInv => TimesAreTheSenders
  <2> SUFFICES ASSUME SInv PROVE TimesAreTheSenders
    OBVIOUS
  <2>1. \A c \in Calls : pc[c] # "idle" => IsRecord(record[c]) /\ event[c] \in eventsOf(record[c])
    BY RecordAssumption DEF SInv, CallsFit
  <2>2. ASSUME NEW l \in logs
        PROVE  LET rec == record[l.call]
                   ns  == IF rec.time = 0 THEN rec.observed ELSE rec.time
               IN  IF ns = 0 THEN l.time = ZeroTime
                   ELSE l.time \in MinInt .. MaxInt /\ (l.time - ns) % (2 * HalfWord) = 0
    <3> DEFINE rec == record[l.call]
               ns  == IF rec.time = 0 THEN rec.observed ELSE rec.time
    <3>1. IsRecord(rec) /\ event[l.call] \in eventsOf(rec)
      BY <2>1 DEF SInv, LoggedFits
    <3>2. l.time = event[l.call].time
      BY DEF SInv, LoggedFits, LogOf
    <3>3. ns \in Word /\ l.time = timeFromUnixNano(ns)
      BY <3>1, <3>2, EventTimes
    <3> HIDE DEF ns
    <3>4. IF ns = 0 THEN l.time = ZeroTime
          ELSE l.time \in MinInt .. MaxInt /\ (l.time - ns) % (2 * HalfWord) = 0
      BY <3>3, TimesFit
    <3> QED BY <3>4 DEF ns
  <2>3. ASSUME NEW s \in spans, s.end < s.start
        PROVE  LET rec == record[s.call]
                   ms  == attr(rec.attrs, "duration_ms").number
               IN  \/ rec.time = 0 /\ rec.observed = 0
                   \/ ~ms.finite \/ ms.halves < 0 \/ ms.halves * Millisecond > 2 * MaxInt
    <3> DEFINE rec == record[s.call]
               e   == event[s.call]
    <3>1. IsRecord(rec) /\ e \in eventsOf(rec) /\ s = SpanOf(s.call, e)
      BY <2>1 DEF SInv, TracedFits
    <3>2. /\ s.start \in Int /\ s.end \in Int
          /\ e.time = ZeroTime <=> rec.time = 0 /\ rec.observed = 0
          /\ e.time # ZeroTime => s.end - s.start = e.duration
      <4> HIDE DEF rec, e
      <4> QED BY <3>1, SpansFit
    <3>3. e.time # ZeroTime => e.duration < 0
      BY <2>3, <3>2
    <3>4. e.duration < 0 => LET ms == attr(rec.attrs, "duration_ms").number
                            IN  ~ms.finite \/ ms.halves < 0 \/ ms.halves * Millisecond > 2 * MaxInt
      <4> HIDE DEF rec, e
      <4> QED BY <3>1, EventDurations
    <3> QED BY <3>2, <3>3, <3>4
  <2> QED BY <2>2, <2>3 DEF TimesAreTheSenders
<1> QED BY <1>1, SInvHolds, PTL

-----------------------------------------------------------------------------
(* The attributes of a span and the series of a measurement.               *)

\* The attributes of an event's span: the adapter's own first, then what it
\* reported, then its dimensions.
LEMMA PairsRead ==
  ASSUME NEW e, NEW key
  PROVE  /\ key \in DOMAIN e.attrs => key \in DOMAIN pairs(e) /\ pairs(e)[key] = e.attrs[key]
         /\ key \notin DOMAIN e.attrs /\ key \in Dimensions /\ key \in DOMAIN dimensionPairs(e)
              => key \in DOMAIN pairs(e) /\ pairs(e)[key] = dimensionPairs(e)[key]
         /\ key \notin DOMAIN e.attrs /\ key \in DOMAIN usagePairs(e)
              => key \in DOMAIN pairs(e) /\ pairs(e)[key] = usagePairs(e)[key]
<1> DEFINE u == usagePairs(e)
           d == dimensionPairs(e)
<1>1. DOMAIN u \subseteq Usage /\ Usage \cap Dimensions = {}
  BY DEF usagePairs, Usage, Dimensions, AttrUsageInput, AttrUsageOutput, AttrCostUSD, AttrAgent,
         AttrInstance, AttrSystem, AttrOperationName, AttrRequestModel, AttrResponseModel
<1>2. pairs(e) = merged(e.attrs, merged(u, d))
  BY DEF pairs
<1> HIDE DEF u, d
<1> QED BY <1>1, <1>2 DEF merged, u, d

LEMMA ReportedRead ==
  ASSUME NEW e
  PROVE  /\ reported(e)[AttrUsageInput] = e.input
         /\ reported(e)[AttrUsageOutput] = e.output
         /\ reported(e)[AttrCostUSD] = e.cost
BY DEF reported, Usage, AttrUsageInput, AttrUsageOutput, AttrCostUSD

\* What was reported is among the attributes, under its key.
LEMMA UsageRead ==
  ASSUME NEW e
  PROVE  /\ \A x : e.input = {x} => /\ AttrUsageInput \in DOMAIN usagePairs(e)
                                    /\ usagePairs(e)[AttrUsageInput] = IntValue(x)
         /\ \A x : e.output = {x} => /\ AttrUsageOutput \in DOMAIN usagePairs(e)
                                     /\ usagePairs(e)[AttrUsageOutput] = IntValue(x)
         /\ \A x : e.cost = {x} => /\ AttrCostUSD \in DOMAIN usagePairs(e)
                                   /\ usagePairs(e)[AttrCostUSD] = DoubleValue(x)
<1> DEFINE K == {k \in Usage : reported(e)[k] # {}}
<1>1. ASSUME NEW key \in Usage, NEW x, reported(e)[key] = {x}
      PROVE  /\ key \in DOMAIN usagePairs(e)
             /\ usagePairs(e)[key] = IF key = AttrCostUSD THEN DoubleValue(x) ELSE IntValue(x)
  <2>1. (CHOOSE y \in reported(e)[key] : TRUE) = x
    BY <1>1
  <2>2. key \in K
    BY <1>1
  <2>3. usagePairs(e) = [k \in K |->
                           LET y == CHOOSE y \in reported(e)[k] : TRUE
                           IN  IF k = AttrCostUSD THEN DoubleValue(y) ELSE IntValue(y)]
    BY DEF usagePairs
  <2> HIDE DEF K
  <2> QED BY <2>1, <2>2, <2>3
<1>2. /\ {AttrUsageInput, AttrUsageOutput, AttrCostUSD} \subseteq Usage
      /\ AttrUsageInput # AttrCostUSD /\ AttrUsageOutput # AttrCostUSD
  BY DEF Usage, AttrUsageInput, AttrUsageOutput, AttrCostUSD
<1> QED BY <1>1, <1>2, ReportedRead

\* What a measurement says, its event says: the amount is the account's.
LEMMA AmountsRead ==
  ASSUME NEW rec, NEW e \in eventsOf(rec), NEW account \in Accounts,
         NEW a \in amounts(e)[account]
  PROVE  /\ account = "input"    => \E x : e.input = {x} /\ a = Exactly(x)
         /\ account = "output"   => \E x : e.output = {x} /\ a = Exactly(x)
         /\ account = "cost"     => e.cost = {a}
         /\ account = "duration" => a = Exactly(e.duration)
<1>1. Optional(e.input) /\ Optional(e.output) /\ Optional(e.cost)
  BY EventsFit DEF EventFits
<1>2. CASE account = "input"
  BY <1>1, <1>2 DEF amounts, Optional
<1>3. CASE account = "output"
  BY <1>1, <1>3 DEF amounts, Optional
<1>4. CASE account = "cost"
  BY <1>1, <1>4 DEF amounts, Optional
<1>5. CASE account = "duration"
  BY <1>5 DEF amounts
<1> QED BY <1>2, <1>3, <1>4, <1>5 DEF Accounts

\* The series of a measurement adds nothing to the dimensions but a direction.
LEMMA SeriesRead ==
  ASSUME NEW e, NEW account, NEW key \in DOMAIN series(e, account) \ {AttrTokenType}
  PROVE  /\ key \in Dimensions /\ key \in DOMAIN dimensionPairs(e)
         /\ series(e, account)[key] = dimensionPairs(e)[key]
<1> DEFINE d == dimensionPairs(e)
           t == [k \in {AttrTokenType} |-> Text(account)]
<1>1. DOMAIN d \subseteq Dimensions
  BY DEF dimensionPairs
<1>2. series(e, account) = IF account \in {"input", "output"} THEN merged(t, d) ELSE d
  BY DEF series
<1>3. DOMAIN t = {AttrTokenType}
  OBVIOUS
<1> HIDE DEF d, t
<1> QED BY <1>1, <1>2, <1>3 DEF merged, d

\* The instance of a series is its event's.
LEMMA InstanceRead ==
  ASSUME NEW e, NEW account, AttrInstance \in DOMAIN series(e, account)
  PROVE  series(e, account)[AttrInstance] = Text(e.instance)
<1>1. /\ AttrInstance # AttrTokenType /\ AttrInstance # AttrAgent /\ AttrInstance \in Dimensions
  BY DEF AttrInstance, AttrTokenType, AttrAgent, Dimensions
<1>2. /\ AttrInstance \in DOMAIN dimensionPairs(e)
      /\ series(e, account)[AttrInstance] = dimensionPairs(e)[AttrInstance]
  BY <1>1, SeriesRead
<1>3. descriptive(e.instance, e.operation, e.model)[AttrInstance] = e.instance
  <2>1. /\ AttrInstance # AttrAgent /\ AttrInstance # AttrSystem
        /\ AttrInstance # AttrOperationName /\ AttrInstance # AttrRequestModel
        /\ AttrInstance # AttrResponseModel
    BY DEF AttrInstance, AttrAgent, AttrSystem, AttrOperationName, AttrRequestModel,
           AttrResponseModel
  <2> QED BY <1>1, <2>1 DEF descriptive
<1>4. dimensionPairs(e)[AttrInstance]
        = Text(descriptive(e.instance, e.operation, e.model)[AttrInstance])
  BY <1>2 DEF dimensionPairs
<1> QED BY <1>2, <1>3, <1>4

\* The three signals of one event tell one story.
THEOREM SignalsAgreeHolds == Spec => []SignalsAgree
<1>1. SInv => SignalsAgree
  <2> SUFFICES ASSUME SInv, NEW s \in spans
               PROVE  LET c == s.call
                          own == event[c].attrs
                          Says(key, x) == /\ key \in DOMAIN s.attrs
                                          /\ IF key \in DOMAIN own THEN s.attrs[key] = own[key]
                                                                   ELSE s.attrs[key].number = x
                      IN  /\ \A l \in logs : l.call = c => l.attrs = s.attrs /\ l.body = s.name
                          /\ \A m \in measured : m.call = c =>
                               /\ \A key \in DOMAIN m.series \ {AttrTokenType} :
                                    /\ key \in DOMAIN s.attrs
                                    /\ s.attrs[key] = IF key \in DOMAIN own THEN own[key] ELSE m.series[key]
                               /\ AttrInstance \in DOMAIN m.series =>
                                    m.series[AttrInstance] = Text(record[c].instance)
                               /\ m.account = "input"  => Says(AttrUsageInput, m.amount)
                               /\ m.account = "output" => Says(AttrUsageOutput, m.amount)
                               /\ m.account = "cost"   => Says(AttrCostUSD, m.amount)
                               /\ m.account = "duration" =>
                                    event[c].time = ZeroTime \/ Exactly(s.end - s.start) = m.amount
    BY DEF SignalsAgree
  <2> DEFINE c == s.call
             e == event[c]
             rec == record[c]
  <2>1. s = SpanOf(c, e) /\ IsRecord(rec) /\ e \in eventsOf(rec)
    BY RecordAssumption DEF SInv, TracedFits, CallsFit
  <2>2. /\ s.name = SpanName(e) /\ s.attrs = pairs(e)
        /\ e.time # ZeroTime => s.end - s.start = e.duration
    <3> HIDE DEF c, e, rec
    <3> QED BY <2>1, SpansFit
  <2>3. \A l \in logs : l.call = c => l.attrs = pairs(e) /\ l.body = SpanName(e)
    BY DEF SInv, LoggedFits, LogOf
  <2>4. ASSUME NEW m \in measured, m.call = c
        PROVE  /\ m.account \in Accounts /\ m.amount \in amounts(e)[m.account]
               /\ m.series = series(e, m.account)
    BY <2>4, MeasuredAreCalls DEF SInv, MeasuredFits
  <2>5. ASSUME NEW m \in measured, m.call = c,
               NEW key \in DOMAIN m.series \ {AttrTokenType}
        PROVE  /\ key \in DOMAIN s.attrs
               /\ s.attrs[key] = IF key \in DOMAIN e.attrs THEN e.attrs[key] ELSE m.series[key]
    <3>1. m.series = series(e, m.account)
      BY <2>4, <2>5
    <3> HIDE DEF c, e, rec
    <3>2. /\ key \in Dimensions /\ key \in DOMAIN dimensionPairs(e)
          /\ m.series[key] = dimensionPairs(e)[key]
      BY <2>5, <3>1, SeriesRead
    <3> QED BY <2>2, <2>5, <3>2, PairsRead
  <2>7. ASSUME NEW m \in measured, m.call = c, AttrInstance \in DOMAIN m.series
        PROVE  m.series[AttrInstance] = Text(rec.instance)
    <3>1. m.series = series(e, m.account) /\ e.instance = rec.instance
      BY <2>7, MeasuredAreCalls
    <3> HIDE DEF c, e, rec
    <3> QED BY <2>7, <3>1, InstanceRead
  <2> HIDE DEF c, e, rec
  <2> DEFINE Says(key, x) == /\ key \in DOMAIN s.attrs
                             /\ IF key \in DOMAIN e.attrs THEN s.attrs[key] = e.attrs[key]
                                                          ELSE s.attrs[key].number = x
  <2>6. ASSUME NEW m \in measured, m.call = c
        PROVE  /\ m.account = "input"  => Says(AttrUsageInput, m.amount)
               /\ m.account = "output" => Says(AttrUsageOutput, m.amount)
               /\ m.account = "cost"   => Says(AttrCostUSD, m.amount)
               /\ m.account = "duration" => e.time = ZeroTime \/ Exactly(s.end - s.start) = m.amount
    <3>1. m.account \in Accounts /\ m.amount \in amounts(e)[m.account]
      BY <2>4, <2>6
    <3>2. /\ \A x : IntValue(x).number = Exactly(x)
          /\ \A x : DoubleValue(x).number = x
      BY DEF IntValue, DoubleValue
    <3>3. CASE m.account = "input"
      <4>1. PICK x : e.input = {x} /\ m.amount = Exactly(x)
        BY <2>1, <3>1, <3>3, AmountsRead
      <4>2. AttrUsageInput \in DOMAIN usagePairs(e) /\ usagePairs(e)[AttrUsageInput] = IntValue(x)
        BY <4>1, UsageRead
      <4> QED BY <2>2, <3>2, <3>3, <4>1, <4>2, PairsRead
    <3>4. CASE m.account = "output"
      <4>1. PICK x : e.output = {x} /\ m.amount = Exactly(x)
        BY <2>1, <3>1, <3>4, AmountsRead
      <4>2. AttrUsageOutput \in DOMAIN usagePairs(e) /\ usagePairs(e)[AttrUsageOutput] = IntValue(x)
        BY <4>1, UsageRead
      <4> QED BY <2>2, <3>2, <3>4, <4>1, <4>2, PairsRead
    <3>5. CASE m.account = "cost"
      <4>1. e.cost = {m.amount}
        BY <2>1, <3>1, <3>5, AmountsRead
      <4>2. AttrCostUSD \in DOMAIN usagePairs(e) /\ usagePairs(e)[AttrCostUSD] = DoubleValue(m.amount)
        BY <4>1, UsageRead
      <4> QED BY <2>2, <3>2, <3>5, <4>2, PairsRead
    <3>6. CASE m.account = "duration"
      <4>1. m.amount = Exactly(e.duration)
        BY <2>1, <3>1, <3>6, AmountsRead
      <4> QED BY <2>2, <3>6, <4>1
    <3> QED BY <3>1, <3>3, <3>4, <3>5, <3>6 DEF Accounts
  <2> QED BY <2>2, <2>3, <2>5, <2>6, <2>7 DEF c, e, rec
<1> QED BY <1>1, SInvHolds, PTL

-----------------------------------------------------------------------------
(* Types.                                                                  *)

TypeInv ==
  /\ main \in {"build", "wire", "serving", "flushing", "ended"}
  /\ failed \in BOOLEAN
  /\ record \in [Calls -> Records \cup {NoRecord}]
  /\ \A c \in Calls : event[c] \in eventsOf(record[c])

LEMMA TypeInvHolds == Spec => []TypeInv
<1>1. Init => TypeInv
  BY DEF Init, TypeInv
<1>2. SInv /\ TypeInv /\ [Next]_vars => TypeInv'
  <2> SUFFICES ASSUME SInv, TypeInv, [Next]_vars PROVE TypeInv'
    OBVIOUS
  <2>1. CASE UNCHANGED vars
    BY <2>1 DEF vars, mainVars, TypeInv
  <2>2. CASE Build \/ BuildFails \/ Wire \/ Leave \/ End
    BY <2>2 DEF TypeInv, Build, BuildFails, Wire, Leave, End, callVars
  <2>3. ASSUME NEW p \in Providers, Shut(p) PROVE TypeInv'
    BY <2>3 DEF TypeInv, Shut, callVars
  <2>4. ASSUME NEW c \in Calls, Sink(c) PROVE TypeInv'
    BY <2>4 DEF TypeInv, Sink, Trace, Measure, Emit, mainVars
  <2>5. ASSUME NEW c \in Calls, NEW rec \in Records, Begin(c, rec) PROVE TypeInv'
    <3>1. PICK e \in eventsOf(rec) : event' = [event EXCEPT ![c] = e]
      BY <2>5 DEF Begin
    <3>2. record' = [record EXCEPT ![c] = rec] /\ UNCHANGED <<main, failed>>
      BY <2>5 DEF Begin, mainVars
    <3>3. \A d \in Calls : event'[d] \in eventsOf(record'[d])
      BY <3>1, <3>2 DEF TypeInv, SInv, CallsFit
    <3> QED BY <3>2, <3>3 DEF TypeInv
  <2> QED BY <2>1, <2>2, <2>3, <2>4, <2>5 DEF Next
<1> QED BY <1>1, <1>2, SInvHolds, PTL DEF Spec

\* The variables keep their types: an event is one its record yields, and
\* every time is a number.
THEOREM TypeCorrect == Spec => []TypeOK
<1>1. SInv /\ TypeInv => TypeOK
  <2> SUFFICES ASSUME SInv, TypeInv PROVE TypeOK
    OBVIOUS
  <2>1. \A c \in Calls : pc[c] # "idle" => IsRecord(record[c]) /\ event[c] \in eventsOf(record[c])
    BY RecordAssumption DEF SInv, CallsFit
  <2>2. ASSUME NEW s \in spans PROVE s.call \in Calls /\ s.start \in Int /\ s.end \in Int
    <3>1. /\ s.call \in Calls /\ IsRecord(record[s.call]) /\ event[s.call] \in eventsOf(record[s.call])
          /\ s = SpanOf(s.call, event[s.call])
      BY <2>1 DEF SInv, TracedFits
    <3>2. SpanOf(s.call, event[s.call]).start \in Int /\ SpanOf(s.call, event[s.call]).end \in Int
      BY <3>1, SpansFit
    <3> QED BY <3>1, <3>2
  <2>3. ASSUME NEW l \in logs PROVE l.call \in Calls /\ l.time \in Int
    <3>1. /\ l.call \in Calls /\ IsRecord(record[l.call]) /\ event[l.call] \in eventsOf(record[l.call])
      BY <2>1 DEF SInv, LoggedFits
    <3>2. l.time = event[l.call].time
      BY DEF SInv, LoggedFits, LogOf
    <3>3. event[l.call].time \in Int
      BY <3>1, EventTimes, TimesFit
    <3> QED BY <3>1, <3>2, <3>3
  <2>4. \A m \in measured : m.call \in Calls /\ m.account \in Accounts
    BY MeasuredAreCalls
  <2> QED BY <2>2, <2>3, <2>4 DEF TypeOK, TypeInv, SInv, BuiltFirst, CallsFit
<1> QED BY <1>1, SInvHolds, TypeInvHolds, PTL
=============================================================================
