------------------------------ MODULE Dispatch ------------------------------
(***************************************************************************)
(* What the receiver does with export requests (internal/receiver): New,   *)
(* the HTTP checks of serveSignal, and the dispatch of every record to the *)
(* adapter that claims it (dispatch.go, pkg/didebaan/claim.go).  Handlers  *)
(* run concurrently; each atomic counter update, and each call of an       *)
(* adapter, is a step of its own.                                          *)
(*                                                                         *)
(* A body is the sequence of its records in the order the nested loops     *)
(* visit them: metrics, log records, or scopes with their number of spans. *)
(***************************************************************************)
EXTENDS Naturals, Sequences, FiniteSetsExt

CONSTANTS
  Requests,      \* export requests
  Posts,         \* HTTP requests: [post, protobuf : BOOLEAN, size : Nat, decodes : BOOLEAN]
  Bodies,        \* decoded bodies: [signal : Signals, records : Seq(record)]
  ConsumerLists, \* what New may be given: sequences of claims
  PrefixOf,      \* pairs <<p, s>> of non-empty names such that s starts with p
  maxBodyBytes   \* the cap on an HTTP body

Signals == {"metrics", "logs", "traces"}

\* Names are strings; "" is the empty one.
ASSUME NameAssumption == \A pair \in PrefixOf : pair[1] # "" /\ pair[2] # ""

IsList(s) == Len(s) \in Nat /\ DOMAIN s = 1 .. Len(s)

ASSUME ListAssumption ==
  /\ \A list \in ConsumerLists : IsList(list)
  /\ \A b \in Bodies : /\ b.signal \in Signals /\ IsList(b.records)
                       /\ \A i \in DOMAIN b.records : b.records[i].spans \in Nat

\* A process serves so many requests and no more.
ASSUME RequestsAssumption == IsFiniteSet(Requests)

ASSUME SizeAssumption == maxBodyBytes \in Nat /\ \A q \in Posts : q.size \in Nat

VARIABLES
  consumers,  \* the receiver's consumers
  stage,      \* "new", "refused" or "serving"
  pc,         \* where each request's handler is
  post,       \* the HTTP request it serves, NoPost for gRPC
  body,       \* its decoded body
  pos,        \* the record it is at
  answer,     \* what its sender was told: "none", "ok" or an HTTP status
  stats,      \* Receiver.stats
  unclaimed,  \* the exported counter didebaan.receiver.unclaimed, by signal
  consumed,   \* calls made: [request, pos, consumer]
  failed      \* calls that returned an error, and were reported on stderr

handlerVars == <<pc, post, body, pos, answer>>
vars == <<consumers, stage, handlerVars, stats, unclaimed, consumed, failed>>

NoPost == [post |-> FALSE, protobuf |-> FALSE, size |-> 0, decodes |-> FALSE]
NoBody == [signal |-> "traces", records |-> <<>>]
Counters == {"MetricsClaimed", "MetricsUnclaimed", "LogsClaimed", "LogsUnclaimed",
             "SpansIgnored"}

TypeOK ==
  /\ consumers \in ConsumerLists
  /\ stage \in {"new", "refused", "serving"}
  /\ pc \in [Requests -> {"idle", "route", "consume", "export", "answered"}]
  /\ post \in [Requests -> Posts \cup {NoPost}]
  /\ body \in [Requests -> Bodies \cup {NoBody}]
  /\ pos \in [Requests -> Nat \ {0}]
  /\ answer \in [Requests -> {"none", "ok", "405", "415", "400"}]
  /\ stats \in [Counters -> Nat]
  /\ unclaimed \in [Signals -> Nat]
  /\ failed \subseteq consumed
  /\ \A c \in consumed : /\ c.pos \in DOMAIN body[c.request].records
                         /\ c.consumer \in DOMAIN consumers

Init ==
  /\ consumers \in ConsumerLists
  /\ stage = "new"
  /\ pc = [r \in Requests |-> "idle"]
  /\ post = [r \in Requests |-> NoPost]
  /\ body = [r \in Requests |-> NoBody]
  /\ pos = [r \in Requests |-> 1]
  /\ answer = [r \in Requests |-> "none"]
  /\ stats = [c \in Counters |-> 0]
  /\ unclaimed = [s \in Signals |-> 0]
  /\ consumed = {}
  /\ failed = {}

-----------------------------------------------------------------------------
(* New refuses an empty list, and a consumer that declares no scope prefix. *)
(* It also fails without an address to serve, or without the exported      *)
(* counter, whatever the consumers are: Startup has those causes.          *)

Acceptable(list) == list # <<>> /\ \A i \in DOMAIN list : list[i].ScopePrefixes # {}

New ==
  /\ stage = "new"
  /\ stage' \in {"refused"} \cup {s \in {"serving"} : Acceptable(consumers)}
  /\ UNCHANGED <<consumers, handlerVars, stats, unclaimed, consumed, failed>>

-----------------------------------------------------------------------------
(* Arrival.                                                                *)

\* A slip: reading stops at the cap itself.
BytesReadToCap(q) == IF q.size > maxBodyBytes THEN maxBodyBytes ELSE q.size

\* readLimited reads one byte more than the cap, so that it can tell.
BytesRead(q) == IF q.size > maxBodyBytes + 1 THEN maxBodyBytes + 1 ELSE q.size

\* A slip: a wrong method is answered as an unknown path.
serveSignalAsNotFound(q) == IF q.post THEN "ok" ELSE "404"

\* The checks of serveSignal in their order; "ok" lets the request through.
serveSignal(q) ==
  IF ~q.post THEN "405"
  ELSE IF ~q.protobuf THEN "415"
  ELSE IF BytesRead(q) > maxBodyBytes \/ ~q.decodes THEN "400" ELSE "ok"

\* A handler starts on a decoded body.
Begin(r, b) ==
  /\ stage = "serving"
  /\ pc[r] = "idle"
  /\ pc' = [pc EXCEPT ![r] = "route"]
  /\ body' = [body EXCEPT ![r] = b]
  /\ UNCHANGED <<consumers, stage, pos, answer, stats, unclaimed, consumed, failed>>

\* gRPC decodes the message before Export is called.
ArriveGRPC(r) == post' = post /\ \E b \in Bodies : Begin(r, b)

ArriveHTTP(r, q) ==
  /\ serveSignal(q) = "ok"
  /\ post' = [post EXCEPT ![r] = q]
  /\ \E b \in Bodies : Begin(r, b)

RefuseHTTP(r, q) ==
  /\ stage = "serving"
  /\ pc[r] = "idle"
  /\ serveSignal(q) # "ok"
  /\ pc' = [pc EXCEPT ![r] = "answered"]
  /\ answer' = [answer EXCEPT ![r] = serveSignal(q)]
  /\ post' = [post EXCEPT ![r] = q]
  /\ UNCHANGED <<consumers, stage, body, pos, stats, unclaimed, consumed, failed>>

-----------------------------------------------------------------------------
(* Dispatch.                                                               *)

\* A slip: an empty prefix matches everything.
hasAnyPrefixOrEmpty(s, prefixes) ==
  s # "" /\ \E p \in prefixes : p = "" \/ p = s \/ <<p, s>> \in PrefixOf

hasAnyPrefix(s, prefixes) ==
  s # "" /\ \E p \in prefixes : p # "" /\ (p = s \/ <<p, s>> \in PrefixOf)

\* A log record's event name: the field, else the event.name attribute.
eventName(rec) == IF rec.name # "" THEN rec.name ELSE rec.attr

\* Whether a claim covers a record of this signal: claimMetric and claimEvent.
Claims(claim, signal, rec) ==
  \/ signal = "metrics" /\ hasAnyPrefix(rec.name, claim.MetricPrefixes)
  \/ signal = "logs" /\ hasAnyPrefix(eventName(rec), claim.EventPrefixes)
  \/ signal # "traces" /\ hasAnyPrefix(rec.scope, claim.ScopePrefixes)

Claimants(signal, rec) == {i \in DOMAIN consumers : Claims(consumers[i], signal, rec)}

Current(r) == body[r].records[pos[r]]

\* A slip: log records counted as metrics.
CounterOfMetrics(signal, claimed) ==
  IF signal = "traces" THEN "SpansIgnored"
  ELSE IF claimed THEN "MetricsClaimed" ELSE "MetricsUnclaimed"

Counter(signal, claimed) ==
  IF signal = "metrics" THEN IF claimed THEN "MetricsClaimed" ELSE "MetricsUnclaimed"
  ELSE IF signal = "logs" THEN IF claimed THEN "LogsClaimed" ELSE "LogsUnclaimed"
  ELSE "SpansIgnored"

\* What one visit adds: dispatchSpans counts a scope's spans at once.
Weight(signal, rec) == IF signal = "traces" THEN rec.spans ELSE 1

\* Route the record at hand and count it, before anything else happens to it.
Route(r) ==
  LET signal == body[r].signal
      owned  == Claimants(signal, Current(r)) # {}
  IN  /\ pc[r] = "route"
      /\ pos[r] <= Len(body[r].records)
      /\ Weight(signal, Current(r)) > 0
      /\ stats' = [stats EXCEPT ![Counter(signal, owned)] = @ + Weight(signal, Current(r))]
      /\ pc' = [pc EXCEPT ![r] = IF owned THEN "consume" ELSE "export"]
      /\ UNCHANGED <<consumers, stage, post, body, pos, answer, unclaimed, consumed, failed>>

\* A slip: the loop stays at the empty scope.
SkipInPlace(r) == pc[r] = "route" /\ UNCHANGED vars

\* A scope without spans is passed over.
SkipEmptyScope(r) ==
  /\ pc[r] = "route"
  /\ pos[r] <= Len(body[r].records)
  /\ Weight(body[r].signal, Current(r)) = 0
  /\ pos' = [pos EXCEPT ![r] = @ + 1]
  /\ UNCHANGED <<consumers, stage, post, pc, body, answer, stats, unclaimed, consumed, failed>>

\* The second half of countUnclaimed, and of dispatchSpans.
CountExported(r) ==
  /\ pc[r] = "export"
  /\ unclaimed' = [unclaimed EXCEPT ![body[r].signal] =
                     @ + Weight(body[r].signal, Current(r))]
  /\ pos' = [pos EXCEPT ![r] = @ + 1]
  /\ pc' = [pc EXCEPT ![r] = "route"]
  /\ UNCHANGED <<consumers, stage, post, body, answer, stats, consumed, failed>>

\* A slip: an error ends the whole request.
ConsumeOrAbort(r) ==
  /\ pc[r] = "consume"
  /\ pos' \in {[pos EXCEPT ![r] = @ + 1], [pos EXCEPT ![r] = Len(body[r].records) + 1]}
  /\ pc' = [pc EXCEPT ![r] = "route"]
  /\ consumed' = consumed \cup
       {[request |-> r, pos |-> pos[r], consumer |-> Min(Claimants(body[r].signal, Current(r)))]}
  /\ UNCHANGED <<consumers, stage, post, body, answer, stats, unclaimed, failed>>

\* ConsumeMetric or ConsumeLog of the first consumer that claims the record.
\* An error is reported, and the loop goes on.
Consume(r) ==
  LET call == [request |-> r, pos |-> pos[r],
               consumer |-> Min(Claimants(body[r].signal, Current(r)))]
  IN  /\ pc[r] = "consume"
      /\ consumed' = consumed \cup {call}
      /\ failed' \in {failed, failed \cup {call}}
      /\ pos' = [pos EXCEPT ![r] = @ + 1]
      /\ pc' = [pc EXCEPT ![r] = "route"]
      /\ UNCHANGED <<consumers, stage, post, body, answer, stats, unclaimed>>

\* The sender gets an empty success response, whatever the adapters returned.
Respond(r) ==
  /\ pc[r] = "route"
  /\ pos[r] > Len(body[r].records)
  /\ pc' = [pc EXCEPT ![r] = "answered"]
  /\ answer' = [answer EXCEPT ![r] = "ok"]
  /\ UNCHANGED <<consumers, stage, post, body, pos, stats, unclaimed, consumed, failed>>

Handler(r) == Route(r) \/ SkipEmptyScope(r) \/ CountExported(r) \/ Consume(r) \/ Respond(r)

Next ==
  \/ New
  \/ \E r \in Requests : Handler(r) \/ ArriveGRPC(r)
  \/ \E r \in Requests, q \in Posts : ArriveHTTP(r, q) \/ RefuseHTTP(r, q)

Spec == Init /\ [][Next]_vars

\* A handler that has started runs to its end: adapters return from Consume.
FairSpec == Spec /\ \A r \in Requests : WF_vars(Handler(r))

-----------------------------------------------------------------------------
(* Properties.                                                             *)

\* Positions of r's records that have been counted.
Counted(r) ==
  {i \in DOMAIN body[r].records :
     i < pos[r] \/ (i = pos[r] /\ pc[r] \in {"consume", "export"})}

Weights(r) == [i \in DOMAIN body[r].records |-> Weight(body[r].signal, body[r].records[i])]

\* What each handler has counted of a signal, owned or not.
Contribution(signal, owned) ==
  [r \in Requests |->
     SumFunctionOnSet(Weights(r), {i \in Counted(r) : /\ body[r].signal = signal
                         /\ (Claimants(signal, body[r].records[i]) # {}) = owned})]

\* What each handler holds between the two updates.
Held(signal) ==
  [r \in Requests |->
     IF pc[r] = "export" /\ body[r].signal = signal THEN Weight(signal, Current(r)) ELSE 0]

\* At every instant each counter is the number of records that went its way,
\* over all handlers: none lost, none twice, none under the wrong heading.  The
\* exported counter trails by what handlers hold between the two updates.
StatsAccountForEveryRecord ==
  /\ \A signal \in Signals, owned \in BOOLEAN : (signal = "traces" => ~owned) =>
       stats[Counter(signal, owned)] = SumFunction(Contribution(signal, owned))
  /\ \A signal \in Signals :
       unclaimed[signal] + SumFunction(Held(signal)) = stats[Counter(signal, FALSE)]

\* Reference: s has one of the non-empty prefixes.
Covers(prefixes, s) == \E p \in prefixes \ {""} : p = s \/ <<p, s>> \in PrefixOf

\* A record reaches a consumer only by a name or a scope that it really has
\* and the consumer really declared, and no earlier consumer declared too.
NoGuessedOwner ==
  \A c \in consumed :
    LET signal == body[c.request].signal
        rec    == body[c.request].records[c.pos]
        May(i) == \/ Covers(consumers[i].ScopePrefixes, rec.scope)
                  \/ signal = "metrics" /\ Covers(consumers[i].MetricPrefixes, rec.name)
                  \/ /\ signal = "logs"
                     /\ \/ Covers(consumers[i].EventPrefixes, rec.name)
                        \/ rec.name = "" /\ Covers(consumers[i].EventPrefixes, rec.attr)
    IN  signal # "traces" /\ May(c.consumer) /\ \A i \in 1 .. c.consumer - 1 : ~May(i)

\* A bad record costs only itself: once the sender has its answer, every
\* record anybody claims was handed to one consumer, once.
EveryClaimedRecordIsHandled ==
  \A r \in Requests : answer[r] = "ok" =>
    \A i \in DOMAIN body[r].records :
      Claimants(body[r].signal, body[r].records[i]) # {} =>
        Cardinality({c \in consumed : c.request = r /\ c.pos = i}) = 1

\* An HTTP request that reached an adapter was read to its last byte: a body
\* above the cap is refused, never cut.
NoTruncatedBody ==
  \A r \in Requests : post[r] # NoPost /\ answer[r] \in {"none", "ok"} =>
    /\ BytesRead(post[r]) = post[r].size
    /\ post[r].decodes

\* Every request a handler has taken is answered.
EveryRequestIsAnswered == \A r \in Requests : pc[r] # "idle" ~> pc[r] = "answered"
=============================================================================
