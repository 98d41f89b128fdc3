--------------------------- MODULE DispatchProofs ----------------------------
(***************************************************************************)
(* What the dispatch of records guarantees for every list of adapters, all *)
(* claims and all bodies: nobody's records are guessed at, each claimed    *)
(* record is handled once, no body is cut, and the counters are the sums   *)
(* of what was counted.                                                    *)
(***************************************************************************)
EXTENDS Dispatch, SetTheorems

-----------------------------------------------------------------------------
(* Lemmas.                                                                 *)

\* What passes the checks of serveSignal was read to its end.
LEMMA ServedIsWhole ==
  ASSUME NEW q \in Posts, serveSignal(q) = "ok"
  PROVE  BytesRead(q) = q.size /\ q.decodes
<1>1. q.post /\ q.protobuf /\ ~(BytesRead(q) > maxBodyBytes \/ ~q.decodes)
  BY DEF serveSignal
<1> QED BY <1>1, SizeAssumption DEF BytesRead

\* The matching of prefixes is what a claim declares.
LEMMA PrefixesCover ==
  ASSUME NEW prefixes, NEW s
  PROVE  hasAnyPrefix(s, prefixes) <=> Covers(prefixes, s)
<1>1. \A p : <<p, s>> \in PrefixOf => s # ""
  BY NameAssumption
<1> QED BY <1>1 DEF hasAnyPrefix, Covers

-----------------------------------------------------------------------------
(* The inductive invariant.                                                *)

Records(r) == body[r].records
Owners(r, i) == Claimants(body[r].signal, Records(r)[i])
CallFor(r, i) == [request |-> r, pos |-> i, consumer |-> Min(Owners(r, i))]

\* Bodies are lists of records.
BodiesFit ==
  /\ consumers \in ConsumerLists
  /\ body \in [Requests -> Bodies \cup {NoBody}]
  /\ pos \in [Requests -> Nat \ {0}]
  /\ pc \in [Requests -> {"idle", "route", "consume", "export", "answered"}]
  /\ answer \in [Requests -> {"none", "ok", "405", "415", "400"}]

\* Where a handler is in its body, and what it has answered.
HandlersFit ==
  \A r \in Requests :
    /\ pc[r] = "idle" => body[r] = NoBody /\ pos[r] = 1 /\ post[r] = NoPost
    /\ pc[r] # "answered" => answer[r] = "none"
    /\ pc[r] \in {"consume", "export"} => pos[r] \in DOMAIN Records(r)
    /\ pc[r] = "consume" => Owners(r, pos[r]) # {}
    /\ pc[r] = "export" => Owners(r, pos[r]) = {}
    /\ answer[r] = "ok" => pc[r] = "answered" /\ pos[r] > Len(Records(r))

\* Only what serveSignal let through is handled.
PostsFit ==
  /\ post \in [Requests -> Posts \cup {NoPost}]
  /\ \A r \in Requests : answer[r] \in {"none", "ok"} =>
       post[r] = NoPost \/ (post[r] \in Posts /\ serveSignal(post[r]) = "ok")

\* The calls made are those for the claimed records a handler is past.
CallsFit ==
  /\ \A c \in consumed :
       /\ c.request \in Requests
       /\ c.pos \in DOMAIN Records(c.request) /\ c.pos < pos[c.request]
       /\ Owners(c.request, c.pos) # {}
       /\ c = CallFor(c.request, c.pos)
  /\ \A r \in Requests : \A i \in DOMAIN Records(r) :
       i < pos[r] /\ Owners(r, i) # {} => CallFor(r, i) \in consumed
  /\ failed \subseteq consumed

DInv == BodiesFit /\ HandlersFit /\ PostsFit /\ CallsFit

\* Bodies and lists are what the assumptions say.
LEMMA BodyIsList ==
  ASSUME BodiesFit, NEW r \in Requests
  PROVE  /\ IsList(Records(r)) /\ body[r].signal \in Signals
         /\ \A i \in DOMAIN Records(r) : Records(r)[i].spans \in Nat
<1>1. CASE body[r] \in Bodies
  BY <1>1, ListAssumption DEF Records
<1>2. CASE body[r] = NoBody
  <2>1. NoBody.records = <<>> /\ NoBody.signal = "traces"
    BY DEF NoBody
  <2>2. IsList(<<>>) /\ DOMAIN <<>> = {}
    <3>1. <<>> \in Seq({}) /\ Len(<<>>) = 0
      OBVIOUS
    <3>2. DOMAIN <<>> = 1 .. Len(<<>>)
      BY <3>1
    <3> QED BY <3>1, <3>2 DEF IsList
  <2> QED BY <1>2, <2>1, <2>2 DEF Records, Signals
<1> QED BY <1>1, <1>2 DEF BodiesFit

\* The first owner is an owner, and a consumer.
LEMMA OwnerIsFirst ==
  ASSUME BodiesFit, NEW signal, NEW rec, Claimants(signal, rec) # {}
  PROVE  /\ Min(Claimants(signal, rec)) \in Claimants(signal, rec)
         /\ Min(Claimants(signal, rec)) \in DOMAIN consumers
         /\ \A i \in Claimants(signal, rec) : Min(Claimants(signal, rec)) <= i
         /\ DOMAIN consumers \subseteq Nat
<1>1. DOMAIN consumers \subseteq Nat
  BY ListAssumption DEF BodiesFit, IsList
<1>2. Claimants(signal, rec) \subseteq DOMAIN consumers
  BY DEF Claimants
<1> QED BY <1>1, <1>2, MinIsLeast

LEMMA InitDInv == Init => DInv
<1> SUFFICES ASSUME Init PROVE DInv
  OBVIOUS
<1>1. BodiesFit /\ PostsFit
  BY DEF Init, BodiesFit, PostsFit
<1>2. HandlersFit
  BY DEF Init, HandlersFit
<1>3. \A r \in Requests : pos[r] = 1 /\ DOMAIN Records(r) = {}
  <2>1. NoBody.records = <<>>
    BY DEF NoBody
  <2> QED BY <2>1 DEF Init, Records
<1>4. CallsFit
  BY <1>3 DEF Init, CallsFit
<1> QED BY <1>1, <1>2, <1>4 DEF DInv

-----------------------------------------------------------------------------
(* Every step keeps it.                                                    *)

\* What no call is about to be made for.
LEMMA SpansAreUnowned == ASSUME NEW rec PROVE Claimants("traces", rec) = {}
BY DEF Claimants, Claims

\* Passing a record that nobody owns.
LEMMA PassingKeepsCalls ==
  ASSUME DInv, NEW r \in Requests, Owners(r, pos[r]) = {},
         pos' = [pos EXCEPT ![r] = @ + 1],
         UNCHANGED <<consumers, body, consumed, failed>>
  PROVE  CallsFit'
<1>1. \A q \in Requests : pos[q] \in Nat /\ pos'[q] = IF q = r THEN pos[r] + 1 ELSE pos[q]
  BY DEF DInv, BodiesFit
<1>2. /\ \A q : Records(q)' = Records(q)
      /\ \A q, i : Owners(q, i)' = Owners(q, i) /\ CallFor(q, i)' = CallFor(q, i)
  BY DEF Records, Owners, Claimants, CallFor
<1>3. \A c \in consumed' : /\ c.request \in Requests
                           /\ c.pos \in DOMAIN Records(c.request)' /\ c.pos < pos'[c.request]
                           /\ Owners(c.request, c.pos)' # {}
                           /\ c = CallFor(c.request, c.pos)'
  <2> SUFFICES ASSUME NEW c \in consumed
               PROVE  /\ c.request \in Requests
                      /\ c.pos \in DOMAIN Records(c.request)' /\ c.pos < pos'[c.request]
                      /\ Owners(c.request, c.pos)' # {}
                      /\ c = CallFor(c.request, c.pos)'
    OBVIOUS
  <2>1. /\ c.request \in Requests
        /\ c.pos \in DOMAIN Records(c.request) /\ c.pos < pos[c.request]
        /\ Owners(c.request, c.pos) # {}
        /\ c = CallFor(c.request, c.pos)
    BY DEF DInv, CallsFit
  <2>2. c.pos \in Nat
    BY <2>1, BodyIsList DEF DInv, IsList
  <2> QED BY <1>1, <1>2, <2>1, <2>2
<1>4. \A q \in Requests : \A i \in DOMAIN Records(q)' :
        i < pos'[q] /\ Owners(q, i)' # {} => CallFor(q, i)' \in consumed'
  <2> SUFFICES ASSUME NEW q \in Requests, NEW i \in DOMAIN Records(q),
                      i < pos'[q], Owners(q, i) # {}
               PROVE  CallFor(q, i) \in consumed
    BY <1>2
  <2>1. i \in Nat
    BY BodyIsList DEF DInv, IsList
  <2>2. q = r => i # pos[r]
    OBVIOUS
  <2>3. i < pos[q]
    BY <1>1, <2>1, <2>2
  <2> QED BY <2>3 DEF DInv, CallsFit
<1> QED BY <1>3, <1>4 DEF DInv, CallsFit

\* Nothing moves in any body.
LEMMA StillKeepsCalls ==
  ASSUME CallsFit, UNCHANGED <<consumers, body, pos, consumed, failed>>
  PROVE  CallsFit'
BY DEF CallsFit, Records, Owners, Claimants, CallFor

LEMMA NewKeepsDInv == ASSUME DInv, New PROVE DInv'
<1>1. UNCHANGED <<consumers, pc, post, body, pos, answer, consumed, failed>>
  BY DEF New, handlerVars
<1>2. BodiesFit' /\ HandlersFit' /\ PostsFit'
  BY <1>1 DEF DInv, BodiesFit, HandlersFit, PostsFit, Records, Owners, Claimants
<1> QED BY <1>1, <1>2, StillKeepsCalls DEF DInv

LEMMA BeginKeepsDInv ==
  ASSUME DInv, NEW r \in Requests, NEW b \in Bodies, Begin(r, b),
         \/ post' = post
         \/ \E q \in Posts : serveSignal(q) = "ok" /\ post' = [post EXCEPT ![r] = q]
  PROVE  DInv'
<1> USE DEF DInv, Begin
<1>1. BodiesFit'
  BY DEF BodiesFit
<1>2. /\ \A q \in Requests \ {r} : body'[q] = body[q] /\ pc'[q] = pc[q]
      /\ pc'[r] = "route" /\ body'[r] = b /\ answer[r] = "none"
      /\ pos[r] = 1 /\ Records(r) = <<>> /\ post[r] = NoPost
  BY DEF BodiesFit, HandlersFit, Records, NoBody
<1>3. \A q \in Requests \ {r} : /\ Records(q)' = Records(q)
                                /\ \A i : Owners(q, i)' = Owners(q, i) /\ CallFor(q, i)' = CallFor(q, i)
  BY <1>2 DEF Records, Owners, Claimants, CallFor
<1>4. \A q \in Requests \ {r} : post'[q] = post[q]
  BY DEF PostsFit
<1>5. HandlersFit'
  BY <1>2, <1>3, <1>4 DEF HandlersFit
<1>6. PostsFit'
  BY DEF PostsFit
<1>7. CallsFit'
  <2>1. \A c \in consumed : c.request \in Requests \ {r}
    <3>1. DOMAIN Records(r) = {}
      BY <1>2
    <3> QED BY <3>1 DEF CallsFit
  <2>2. \A i \in DOMAIN Records(r)' : i >= 1
    BY <1>1, BodyIsList, ListAssumption, <1>2 DEF IsList, Records
  <2>3. \A i \in DOMAIN Records(r)' : ~(i < pos'[r])
    BY <1>2, <2>2, ListAssumption DEF IsList, Records
  <2> QED BY <1>3, <2>1, <2>3 DEF CallsFit
<1> QED BY <1>1, <1>5, <1>6, <1>7

LEMMA RefuseKeepsDInv ==
  ASSUME DInv, NEW r \in Requests, NEW q \in Posts, RefuseHTTP(r, q)
  PROVE  DInv'
<1> USE DEF DInv, RefuseHTTP
<1>1. serveSignal(q) \in {"405", "415", "400"}
  BY DEF serveSignal
<1>2. BodiesFit'
  BY <1>1 DEF BodiesFit
<1>3. HandlersFit'
  BY <1>1 DEF HandlersFit, BodiesFit, PostsFit, Records, Owners, Claimants
<1>4. PostsFit'
  BY <1>1 DEF PostsFit, BodiesFit
<1> QED BY <1>2, <1>3, <1>4, StillKeepsCalls

LEMMA RouteKeepsDInv == ASSUME DInv, NEW r \in Requests, Route(r) PROVE DInv'
<1> USE DEF DInv
<1>1. /\ pc[r] = "route" /\ pos[r] <= Len(Records(r))
      /\ pc' = [pc EXCEPT ![r] = IF Owners(r, pos[r]) # {} THEN "consume" ELSE "export"]
      /\ UNCHANGED <<consumers, post, body, pos, answer, consumed, failed>>
  BY DEF Route, Records, Owners, Current
<1>2. pos[r] \in DOMAIN Records(r)
  BY <1>1, BodyIsList DEF BodiesFit, IsList
<1>3. BodiesFit'
  BY <1>1 DEF BodiesFit
<1>4. \A q : Records(q)' = Records(q) /\ \A i : Owners(q, i)' = Owners(q, i)
  BY <1>1 DEF Records, Owners, Claimants
<1>5. HandlersFit'
  BY <1>1, <1>2, <1>4 DEF HandlersFit, BodiesFit
<1>6. PostsFit'
  BY <1>1 DEF PostsFit
<1> QED BY <1>1, <1>3, <1>5, <1>6, StillKeepsCalls

\* An empty scope, or a record that nobody claims, is passed.
LEMMA PassingKeepsDInv ==
  ASSUME DInv, NEW r \in Requests, SkipEmptyScope(r) \/ CountExported(r)
  PROVE  DInv'
<1> USE DEF DInv
<1>1. /\ pc[r] \in {"route", "export"} /\ pc' = [pc EXCEPT ![r] = "route"]
      /\ pos' = [pos EXCEPT ![r] = @ + 1]
      /\ UNCHANGED <<consumers, post, body, answer, consumed, failed>>
  BY DEF SkipEmptyScope, CountExported, BodiesFit
<1>2. Owners(r, pos[r]) = {}
  <2>1. CASE SkipEmptyScope(r)
    <3>1. body[r].signal = "traces"
      BY <2>1 DEF SkipEmptyScope, Weight
    <3> QED BY <3>1, SpansAreUnowned DEF Owners
  <2>2. CASE CountExported(r)
    BY <2>2 DEF CountExported, HandlersFit
  <2> QED BY <2>1, <2>2
<1>3. CallsFit'
  BY <1>1, <1>2, PassingKeepsCalls
<1>4. BodiesFit'
  BY <1>1 DEF BodiesFit
<1>5. \A q : Records(q)' = Records(q) /\ \A i : Owners(q, i)' = Owners(q, i)
  BY <1>1 DEF Records, Owners, Claimants
<1>6. HandlersFit'
  BY <1>1, <1>5 DEF HandlersFit, BodiesFit
<1>7. PostsFit'
  BY <1>1 DEF PostsFit
<1> QED BY <1>3, <1>4, <1>6, <1>7

LEMMA ConsumeKeepsDInv == ASSUME DInv, NEW r \in Requests, Consume(r) PROVE DInv'
<1> USE DEF DInv
<1> DEFINE call == CallFor(r, pos[r])
<1>1. /\ pc[r] = "consume" /\ pc' = [pc EXCEPT ![r] = "route"]
      /\ pos' = [pos EXCEPT ![r] = @ + 1]
      /\ consumed' = consumed \cup {call} /\ failed' \in {failed, failed \cup {call}}
      /\ UNCHANGED <<consumers, post, body, answer>>
  BY DEF Consume, CallFor, Owners, Records, Current
<1>2. pos[r] \in DOMAIN Records(r) /\ Owners(r, pos[r]) # {}
  BY <1>1 DEF HandlersFit
<1>3. BodiesFit'
  BY <1>1 DEF BodiesFit
<1>4. /\ \A q : Records(q)' = Records(q)
      /\ \A q, i : Owners(q, i)' = Owners(q, i) /\ CallFor(q, i)' = CallFor(q, i)
  BY <1>1 DEF Records, Owners, Claimants, CallFor
<1>5. HandlersFit'
  BY <1>1, <1>4 DEF HandlersFit, BodiesFit
<1>6. PostsFit'
  BY <1>1 DEF PostsFit
<1>7. \A q \in Requests : pos[q] \in Nat /\ pos'[q] = IF q = r THEN pos[r] + 1 ELSE pos[q]
  BY <1>1 DEF BodiesFit
<1>8. call.request = r /\ call.pos = pos[r]
  BY DEF CallFor
<1> HIDE DEF call
<1>9. \A c \in consumed' : /\ c.request \in Requests
                           /\ c.pos \in DOMAIN Records(c.request) /\ c.pos < pos'[c.request]
                           /\ Owners(c.request, c.pos) # {}
                           /\ c = CallFor(c.request, c.pos)
  <2>1. ASSUME NEW c \in consumed
        PROVE  /\ c.request \in Requests
               /\ c.pos \in DOMAIN Records(c.request) /\ c.pos < pos'[c.request]
               /\ Owners(c.request, c.pos) # {}
               /\ c = CallFor(c.request, c.pos)
    <3>1. /\ c.request \in Requests
          /\ c.pos \in DOMAIN Records(c.request) /\ c.pos < pos[c.request]
          /\ Owners(c.request, c.pos) # {}
          /\ c = CallFor(c.request, c.pos)
      BY DEF CallsFit
    <3>2. c.pos \in Nat
      BY <3>1, BodyIsList DEF IsList
    <3> QED BY <1>7, <3>1, <3>2
  <2>2. /\ call.request \in Requests
        /\ call.pos \in DOMAIN Records(call.request) /\ call.pos < pos'[call.request]
        /\ Owners(call.request, call.pos) # {}
        /\ call = CallFor(call.request, call.pos)
    BY <1>2, <1>7, <1>8 DEF call
  <2> QED BY <1>1, <2>1, <2>2
<1>10. \A q \in Requests : \A i \in DOMAIN Records(q) :
         i < pos'[q] /\ Owners(q, i) # {} => CallFor(q, i) \in consumed'
  <2> SUFFICES ASSUME NEW q \in Requests, NEW i \in DOMAIN Records(q),
                      i < pos'[q], Owners(q, i) # {}
               PROVE  CallFor(q, i) \in consumed'
    OBVIOUS
  <2>1. i \in Nat
    BY BodyIsList DEF IsList
  <2>2. CASE i < pos[q]
    BY <1>1, <2>2 DEF CallsFit
  <2>3. CASE q = r /\ i = pos[r]
    BY <1>1, <2>3 DEF call
  <2> QED BY <1>7, <2>1, <2>2, <2>3
<1>11. CallsFit'
  <2>1. failed' \subseteq consumed'
    BY <1>1 DEF CallsFit
  <2> QED BY <1>4, <1>9, <1>10, <2>1 DEF CallsFit
<1> QED BY <1>3, <1>5, <1>6, <1>11

LEMMA RespondKeepsDInv == ASSUME DInv, NEW r \in Requests, Respond(r) PROVE DInv'
<1> USE DEF DInv
<1>1. /\ pc[r] = "route" /\ pos[r] > Len(Records(r))
      /\ pc' = [pc EXCEPT ![r] = "answered"] /\ answer' = [answer EXCEPT ![r] = "ok"]
      /\ UNCHANGED <<consumers, post, body, pos, consumed, failed>>
  BY DEF Respond, Records
<1>2. BodiesFit'
  BY <1>1 DEF BodiesFit
<1>3. \A q : Records(q)' = Records(q) /\ \A i : Owners(q, i)' = Owners(q, i)
  BY <1>1 DEF Records, Owners, Claimants
<1>4. HandlersFit'
  BY <1>1, <1>3 DEF HandlersFit, BodiesFit
<1>5. PostsFit'
  <2>1. answer[r] \in {"none", "ok"}
    BY <1>1 DEF HandlersFit, BodiesFit
  <2> QED BY <1>1, <2>1 DEF PostsFit, BodiesFit
<1> QED BY <1>1, <1>2, <1>4, <1>5, StillKeepsCalls

THEOREM DInvHolds == Spec => []DInv
<1>1. DInv /\ [Next]_vars => DInv'
  <2> SUFFICES ASSUME DInv, [Next]_vars PROVE DInv'
    OBVIOUS
  <2>1. CASE UNCHANGED vars
    <3>1. UNCHANGED <<consumers, pc, post, body, pos, answer, consumed, failed>>
      BY <2>1 DEF vars, handlerVars
    <3>2. BodiesFit' /\ HandlersFit' /\ PostsFit'
      BY <3>1 DEF DInv, BodiesFit, HandlersFit, PostsFit, Records, Owners, Claimants
    <3> QED BY <3>1, <3>2, StillKeepsCalls DEF DInv
  <2>2. ASSUME NEW r \in Requests, ArriveGRPC(r) PROVE DInv'
    BY <2>2, BeginKeepsDInv DEF ArriveGRPC
  <2>3. ASSUME NEW r \in Requests, NEW q \in Posts, ArriveHTTP(r, q) PROVE DInv'
    BY <2>3, BeginKeepsDInv DEF ArriveHTTP
  <2>4. ASSUME NEW r \in Requests, Handler(r) PROVE DInv'
    BY <2>4, RouteKeepsDInv, PassingKeepsDInv, ConsumeKeepsDInv, RespondKeepsDInv DEF Handler
  <2> QED BY <2>1, <2>2, <2>3, <2>4, NewKeepsDInv, RefuseKeepsDInv DEF Next
<1> QED BY <1>1, InitDInv, PTL DEF Spec

-----------------------------------------------------------------------------
(* What follows.                                                           *)

\* A record reaches the first consumer that declared its name or its scope.
THEOREM NoGuessedOwnerHolds == Spec => []NoGuessedOwner
<1>1. DInv => NoGuessedOwner
  <2> SUFFICES ASSUME DInv PROVE NoGuessedOwner
    OBVIOUS
  <2> DEFINE May(signal, rec, i) ==
        \/ Covers(consumers[i].ScopePrefixes, rec.scope)
        \/ signal = "metrics" /\ Covers(consumers[i].MetricPrefixes, rec.name)
        \/ /\ signal = "logs"
           /\ \/ Covers(consumers[i].EventPrefixes, rec.name)
              \/ rec.name = "" /\ Covers(consumers[i].EventPrefixes, rec.attr)
  <2>1. \A prefixes : ~Covers(prefixes, "")
    BY PrefixesCover DEF hasAnyPrefix
  <2>2. ASSUME NEW signal \in Signals, NEW rec, NEW i, signal # "traces"
        PROVE  Claims(consumers[i], signal, rec) <=> May(signal, rec, i)
    <3>1. CASE signal = "metrics"
      BY <3>1, PrefixesCover DEF Claims
    <3>2. CASE signal = "logs"
      BY <2>1, <3>2, PrefixesCover DEF Claims, eventName
    <3> QED BY <2>2, <3>1, <3>2 DEF Signals
  <2>3. ASSUME NEW c \in consumed
        PROVE  LET signal == body[c.request].signal
                   rec    == body[c.request].records[c.pos]
               IN  /\ signal # "traces" /\ May(signal, rec, c.consumer)
                   /\ \A i \in 1 .. c.consumer - 1 : ~May(signal, rec, i)
    <3> DEFINE signal == body[c.request].signal
               rec == body[c.request].records[c.pos]
    <3>1. /\ c.request \in Requests /\ Claimants(signal, rec) # {}
          /\ c = CallFor(c.request, c.pos)
      BY DEF DInv, CallsFit, Owners, Records
    <3>2. c.consumer = Min(Claimants(signal, rec))
      BY <3>1 DEF CallFor, Owners, Records
    <3>3. signal \in Signals /\ signal # "traces"
      BY <3>1, BodyIsList, SpansAreUnowned DEF DInv
    <3>4. /\ c.consumer \in Claimants(signal, rec) /\ c.consumer \in DOMAIN consumers
          /\ \A i \in Claimants(signal, rec) : c.consumer <= i
          /\ IsList(consumers)
      BY <3>1, <3>2, OwnerIsFirst, ListAssumption DEF DInv, BodiesFit
    <3> HIDE DEF signal, rec, May
    <3>5. May(signal, rec, c.consumer)
      BY <2>2, <3>3, <3>4 DEF Claimants
    <3>6. ASSUME NEW i \in 1 .. c.consumer - 1 PROVE ~May(signal, rec, i)
      <4>1. i \in DOMAIN consumers /\ ~(c.consumer <= i)
        BY <3>4 DEF IsList
      <4> QED BY <2>2, <3>3, <3>4, <4>1 DEF Claimants
    <3> QED BY <3>3, <3>5, <3>6 DEF signal, rec
  <2> QED BY <2>3 DEF NoGuessedOwner
<1> QED BY <1>1, DInvHolds, PTL

\* A bad record costs only itself: each claimed record is handled once.
THEOREM EveryClaimedRecordIsHandledHolds == Spec => []EveryClaimedRecordIsHandled
<1>1. DInv => EveryClaimedRecordIsHandled
  <2> SUFFICES ASSUME DInv, NEW r \in Requests, answer[r] = "ok",
                      NEW i \in DOMAIN Records(r), Owners(r, i) # {}
               PROVE  Cardinality({c \in consumed : c.request = r /\ c.pos = i}) = 1
    BY DEF EveryClaimedRecordIsHandled, Records, Owners
  <2>1. i < pos[r]
    BY BodyIsList DEF DInv, HandlersFit, BodiesFit, IsList
  <2>2. CallFor(r, i) \in consumed
    BY <2>1 DEF DInv, CallsFit
  <2>3. CallFor(r, i).request = r /\ CallFor(r, i).pos = i
    BY DEF CallFor
  <2>4. \A c \in consumed : c.request = r /\ c.pos = i => c = CallFor(r, i)
    BY DEF DInv, CallsFit
  <2>5. {c \in consumed : c.request = r /\ c.pos = i} = {CallFor(r, i)}
    BY <2>2, <2>3, <2>4
  <2> QED BY <2>5, FS_Singleton
<1> QED BY <1>1, DInvHolds, PTL

\* A body that is handled was read to its end.
THEOREM NoTruncatedBodyHolds == Spec => []NoTruncatedBody
<1>1. DInv => NoTruncatedBody
  BY ServedIsWhole DEF DInv, PostsFit, NoTruncatedBody
<1> QED BY <1>1, DInvHolds, PTL

\* Type correctness.
THEOREM TypeCorrect == Spec => []TypeOK
<1> DEFINE CountersFit == /\ stage \in {"new", "refused", "serving"}
                          /\ stats \in [Counters -> Nat] /\ unclaimed \in [Signals -> Nat]
<1>1. Init => CountersFit
  BY DEF Init
<1>2. DInv /\ CountersFit /\ [Next]_vars => CountersFit'
  <2> SUFFICES ASSUME DInv, CountersFit, [Next]_vars PROVE CountersFit'
    OBVIOUS
  <2>1. ASSUME NEW r \in Requests, Route(r) PROVE CountersFit'
    <3> DEFINE w == Weight(body[r].signal, Current(r))
               counter == Counter(body[r].signal, Claimants(body[r].signal, Current(r)) # {})
    <3>1. pos[r] \in DOMAIN Records(r)
      BY <2>1, BodyIsList DEF Route, DInv, BodiesFit, IsList, Records
    <3>2. w \in Nat
      BY <3>1, BodyIsList DEF DInv, Weight, Current, Records
    <3>3. counter \in Counters
      BY DEF Counter, Counters
    <3>4. stats' = [stats EXCEPT ![counter] = @ + w] /\ UNCHANGED <<stage, unclaimed>>
      BY <2>1 DEF Route
    <3> HIDE DEF w, counter
    <3> QED BY <3>2, <3>3, <3>4
  <2>2. ASSUME NEW r \in Requests, CountExported(r) PROVE CountersFit'
    <3> DEFINE w == Weight(body[r].signal, Current(r))
    <3>1. pos[r] \in DOMAIN Records(r)
      BY <2>2 DEF CountExported, DInv, HandlersFit
    <3>2. w \in Nat /\ body[r].signal \in Signals
      BY <3>1, BodyIsList DEF DInv, Weight, Current, Records
    <3>3. unclaimed' = [unclaimed EXCEPT ![body[r].signal] = @ + w] /\ UNCHANGED <<stage, stats>>
      BY <2>2 DEF CountExported
    <3> HIDE DEF w
    <3> QED BY <3>2, <3>3
  <2>3. CASE UNCHANGED vars \/ New
    BY <2>3 DEF vars, New
  <2>4. ASSUME NEW r \in Requests,
               \/ SkipEmptyScope(r) \/ Consume(r) \/ Respond(r) \/ ArriveGRPC(r)
               \/ \E q \in Posts : ArriveHTTP(r, q) \/ RefuseHTTP(r, q)
        PROVE  CountersFit'
    <3>1. UNCHANGED <<stage, stats, unclaimed>>
      BY <2>4 DEF SkipEmptyScope, Consume, Respond, ArriveGRPC, ArriveHTTP, Begin, RefuseHTTP
    <3> QED BY <3>1
  <2> QED BY <2>1, <2>2, <2>3, <2>4 DEF Next, Handler
<1>3. DInv /\ CountersFit => TypeOK
  <2> SUFFICES ASSUME DInv, CountersFit PROVE TypeOK
    OBVIOUS
  <2>1. \A c \in consumed : /\ c.pos \in DOMAIN body[c.request].records
                            /\ c.consumer \in DOMAIN consumers
    <3> SUFFICES ASSUME NEW c \in consumed
                 PROVE  c.pos \in DOMAIN Records(c.request) /\ c.consumer \in DOMAIN consumers
      BY DEF Records
    <3>1. /\ c.pos \in DOMAIN Records(c.request) /\ Owners(c.request, c.pos) # {}
          /\ c = CallFor(c.request, c.pos)
      BY DEF DInv, CallsFit
    <3>2. c.consumer = Min(Owners(c.request, c.pos))
      BY <3>1 DEF CallFor
    <3> QED BY <3>1, <3>2, OwnerIsFirst DEF DInv, Owners
  <2> QED BY <2>1 DEF TypeOK, DInv, BodiesFit, PostsFit, CallsFit
<1> QED BY <1>1, <1>2, <1>3, DInvHolds, PTL DEF Spec

-----------------------------------------------------------------------------
(* The counters.                                                           *)

\* Positions of r that went this way.
Ways(r, signal, owned) ==
  {i \in Counted(r) : body[r].signal = signal
                      /\ (Claimants(signal, body[r].records[i]) # {}) = owned}

CountersFit == stats \in [Counters -> Nat] /\ unclaimed \in [Signals -> Nat]

\* The sums are over finite sets of integers.
LEMMA TermsFit ==
  ASSUME BodiesFit, NEW r \in Requests
  PROVE  /\ IsFiniteSet(DOMAIN Records(r)) /\ DOMAIN Records(r) \subseteq Nat
         /\ Counted(r) \subseteq DOMAIN Records(r) /\ IsFiniteSet(Counted(r))
         /\ \A i \in DOMAIN Records(r) :
              /\ Weights(r)[i] = Weight(body[r].signal, Records(r)[i])
              /\ Weights(r)[i] \in Nat
<1>1. /\ IsList(Records(r)) /\ body[r].signal \in Signals
      /\ \A i \in DOMAIN Records(r) : Records(r)[i].spans \in Nat
  BY BodyIsList
<1>2. DOMAIN Records(r) = 1 .. Len(Records(r)) /\ Len(Records(r)) \in Nat
  BY <1>1 DEF IsList
<1>3. IsFiniteSet(DOMAIN Records(r)) /\ DOMAIN Records(r) \subseteq Nat
  BY <1>2, FS_Interval
<1>4. Counted(r) \subseteq DOMAIN Records(r)
  BY DEF Counted, Records
<1>5. IsFiniteSet(Counted(r))
  BY <1>3, <1>4, FS_Subset
<1>6. \A i \in DOMAIN Records(r) : Weight(body[r].signal, Records(r)[i]) \in Nat
  BY <1>1 DEF Weight
<1> QED BY <1>3, <1>4, <1>5, <1>6 DEF Weights, Records

LEMMA ContributionsFit ==
  ASSUME BodiesFit, NEW signal, NEW owned
  PROVE  /\ Contribution(signal, owned) \in [Requests -> Int]
         /\ \A r \in Requests : Contribution(signal, owned)[r]
                                  = SumFunctionOnSet(Weights(r), Ways(r, signal, owned))
<1>1. ASSUME NEW r \in Requests
      PROVE  SumFunctionOnSet(Weights(r), Ways(r, signal, owned)) \in Int
  <2>1. Ways(r, signal, owned) \subseteq Counted(r)
    BY DEF Ways
  <2>2. IsFiniteSet(Ways(r, signal, owned))
    BY <2>1, TermsFit, FS_Subset
  <2>3. \A i \in Ways(r, signal, owned) : Weights(r)[i] \in Int
    BY <2>1, TermsFit
  <2> QED BY <2>2, <2>3, SumTakesOut
<1> QED BY <1>1 DEF Contribution, Ways

LEMMA HeldFits ==
  ASSUME BodiesFit, HandlersFit, NEW signal
  PROVE  Held(signal) \in [Requests -> Int]
<1>1. ASSUME NEW r \in Requests, pc[r] = "export", body[r].signal = signal
      PROVE  Weight(signal, Current(r)) \in Int
  <2>1. pos[r] \in DOMAIN Records(r)
    BY <1>1 DEF HandlersFit
  <2> QED BY <1>1, <2>1, TermsFit DEF Current, Records
<1> QED BY <1>1 DEF Held

\* A step of one handler leaves the others' terms alone.
LEMMA OthersStay ==
  ASSUME NEW r \in Requests, UNCHANGED consumers,
         \A q \in Requests \ {r} : pc'[q] = pc[q] /\ body'[q] = body[q] /\ pos'[q] = pos[q]
  PROVE  \A q \in Requests \ {r} :
           /\ \A signal, owned : Contribution(signal, owned)'[q] = Contribution(signal, owned)[q]
           /\ \A signal : Held(signal)'[q] = Held(signal)[q]
<1> SUFFICES ASSUME NEW q \in Requests \ {r}, NEW signal, NEW owned
             PROVE  /\ Contribution(signal, owned)'[q] = Contribution(signal, owned)[q]
                    /\ Held(signal)'[q] = Held(signal)[q]
  OBVIOUS
<1>1. pc'[q] = pc[q] /\ body'[q] = body[q] /\ pos'[q] = pos[q]
  OBVIOUS
<1>2. Weights(q)' = Weights(q) /\ Counted(q)' = Counted(q)
  BY <1>1 DEF Weights, Counted
<1>3. Contribution(signal, owned)'[q] = Contribution(signal, owned)[q]
  BY <1>1, <1>2 DEF Contribution, Claimants
<1>4. Held(signal)'[q] = Held(signal)[q]
  BY <1>1 DEF Held, Current
<1> QED BY <1>3, <1>4

\* Contributions and what is held are integers, at every moment.
TermsAreInt ==
  \A signal, owned : /\ Contribution(signal, owned) \in [Requests -> Int]
                     /\ Held(signal) \in [Requests -> Int]

LEMMA TermsAreIntegers == BodiesFit /\ HandlersFit => TermsAreInt
BY ContributionsFit, HeldFits DEF TermsAreInt

LEMMA TermsStayIntegers == (BodiesFit /\ HandlersFit)' => TermsAreInt'
BY TermsAreIntegers, PTL

\* The books stay right when counters and the terms of one handler move alike.
LEMMA StatsMove ==
  ASSUME TermsAreInt, TermsAreInt', CountersFit, CountersFit',
         StatsAccountForEveryRecord, NEW r \in Requests,
         \A q \in Requests \ {r} :
           /\ \A signal, owned : Contribution(signal, owned)'[q] = Contribution(signal, owned)[q]
           /\ \A signal : Held(signal)'[q] = Held(signal)[q],
         \A signal \in Signals, owned \in BOOLEAN : (signal = "traces" => ~owned) =>
           stats'[Counter(signal, owned)] - stats[Counter(signal, owned)]
             = Contribution(signal, owned)'[r] - Contribution(signal, owned)[r],
         \A signal \in Signals :
           (unclaimed'[signal] - unclaimed[signal]) + (Held(signal)'[r] - Held(signal)[r])
             = stats'[Counter(signal, FALSE)] - stats[Counter(signal, FALSE)]
  PROVE  StatsAccountForEveryRecord'
<1>1. /\ \A signal, owned : /\ stats[Counter(signal, owned)] \in Int
                              /\ stats'[Counter(signal, owned)] \in Int
      /\ \A signal \in Signals : unclaimed[signal] \in Int /\ unclaimed'[signal] \in Int
  <2>1. \A signal, owned : Counter(signal, owned) \in Counters
    BY DEF Counter, Counters
  <2>2. \A n \in Counters : stats[n] \in Int /\ stats'[n] \in Int
    BY DEF CountersFit
  <2>3. \A signal \in Signals : unclaimed[signal] \in Int /\ unclaimed'[signal] \in Int
    BY DEF CountersFit
  <2> QED BY <2>1, <2>2, <2>3
<1>2. ASSUME NEW signal \in Signals, NEW owned \in BOOLEAN, signal = "traces" => ~owned
      PROVE  stats'[Counter(signal, owned)] = SumFunction(Contribution(signal, owned))'
  <2> DEFINE f == Contribution(signal, owned)
             g == Contribution(signal, owned)'
             n == Counter(signal, owned)
  <2>1. /\ f \in [Requests -> Int] /\ g \in [Requests -> Int]
        /\ \A q \in Requests \ {r} : f[q] = g[q]
    BY DEF TermsAreInt
  <2>2. stats[n] = SumFunction(f) /\ stats'[n] - stats[n] = g[r] - f[r]
    BY <1>2 DEF StatsAccountForEveryRecord
  <2>3. stats[n] \in Int /\ stats'[n] \in Int
    BY <1>1
  <2>4. f[r] \in Int /\ g[r] \in Int
    BY <2>1
  <2> HIDE DEF f, g, n
  <2>5. SumFunction(g) = SumFunction(f) - f[r] + g[r] /\ SumFunction(f) \in Int /\ SumFunction(g) \in Int
    BY <2>1, RequestsAssumption, SumChanges
  <2>6. stats'[n] = SumFunction(g)
    <3>1. \A a, b, x, y, s, t \in Int : a = s /\ b - a = y - x /\ t = s - x + y => b = t
      OBVIOUS
    <3> QED BY <2>2, <2>3, <2>4, <2>5, <3>1
  <2> QED BY <2>6 DEF g, n
<1>3. ASSUME NEW signal \in Signals
      PROVE  unclaimed'[signal] + SumFunction(Held(signal))' = stats'[Counter(signal, FALSE)]
  <2> DEFINE f == Held(signal)
             g == Held(signal)'
             n == Counter(signal, FALSE)
  <2>1. /\ f \in [Requests -> Int] /\ g \in [Requests -> Int]
        /\ \A q \in Requests \ {r} : f[q] = g[q]
    BY DEF TermsAreInt
  <2>2. /\ unclaimed[signal] + SumFunction(f) = stats[n]
        /\ (unclaimed'[signal] - unclaimed[signal]) + (g[r] - f[r]) = stats'[n] - stats[n]
    BY DEF StatsAccountForEveryRecord
  <2>3. stats[n] \in Int /\ stats'[n] \in Int /\ unclaimed[signal] \in Int /\ unclaimed'[signal] \in Int
    BY <1>1
  <2>4. f[r] \in Int /\ g[r] \in Int
    BY <2>1
  <2> HIDE DEF f, g, n
  <2>5. SumFunction(g) = SumFunction(f) - f[r] + g[r] /\ SumFunction(f) \in Int /\ SumFunction(g) \in Int
    BY <2>1, RequestsAssumption, SumChanges
  <2>6. unclaimed'[signal] + SumFunction(g) = stats'[n]
    <3>1. PICK u \in Int, v \in Int, b \in Int, c \in Int, x \in Int, y \in Int, p \in Int, q \in Int :
            /\ u = unclaimed[signal] /\ v = unclaimed'[signal] /\ b = stats[n] /\ c = stats'[n]
            /\ x = f[r] /\ y = g[r] /\ p = SumFunction(f) /\ q = SumFunction(g)
      BY <2>3, <2>4, <2>5
    <3>2. u + p = b /\ (v - u) + (y - x) = c - b /\ q = p - x + y
      BY <2>2, <2>5, <3>1
    <3>3. v + q = c
      BY <3>2
    <3> QED BY <3>1, <3>3
  <2> QED BY <2>6 DEF g, n
<1> QED BY <1>2, <1>3 DEF StatsAccountForEveryRecord

\* The exported counter and what is held move by d and k, the counter by both.
LEMMA BooksMove ==
  ASSUME CountersFit, CountersFit', TermsAreInt, TermsAreInt', NEW r \in Requests,
         NEW s \in Signals, NEW d \in Int, NEW k \in Int,
         unclaimed'[s] - unclaimed[s] = d, Held(s)'[r] - Held(s)[r] = k,
         stats'[Counter(s, FALSE)] - stats[Counter(s, FALSE)] = d + k
  PROVE  (unclaimed'[s] - unclaimed[s]) + (Held(s)'[r] - Held(s)[r])
           = stats'[Counter(s, FALSE)] - stats[Counter(s, FALSE)]
<1>1. PICK x \in Int, y \in Int, z \in Int :
        /\ x = unclaimed'[s] - unclaimed[s] /\ y = Held(s)'[r] - Held(s)[r]
        /\ z = stats'[Counter(s, FALSE)] - stats[Counter(s, FALSE)]
  <2>1. d + k \in Int
    OBVIOUS
  <2> QED BY <2>1
<1>2. x + y = z
  BY <1>1
<1> QED BY <1>1, <1>2

\* Nothing moves in the handler's body.
LEMMA ContributionStays ==
  ASSUME NEW r \in Requests, UNCHANGED <<consumers, body>>, Counted(r)' = Counted(r)
  PROVE  \A signal, owned : Contribution(signal, owned)'[r] = Contribution(signal, owned)[r]
<1>1. Weights(r)' = Weights(r)
  BY DEF Weights
<1> QED BY <1>1 DEF Contribution, Claimants

\* One more record is counted.
LEMMA ContributionGrows ==
  ASSUME BodiesFit, NEW r \in Requests, UNCHANGED <<consumers, body>>,
         NEW i \in DOMAIN Records(r), i \notin Counted(r), Counted(r)' = Counted(r) \cup {i}
  PROVE  \A signal, owned :
           Contribution(signal, owned)'[r] - Contribution(signal, owned)[r]
             = IF body[r].signal = signal /\ (Owners(r, i) # {}) = owned
                 THEN Weight(body[r].signal, Records(r)[i]) ELSE 0
<1> SUFFICES ASSUME NEW signal, NEW owned
             PROVE  Contribution(signal, owned)'[r] - Contribution(signal, owned)[r]
                      = IF body[r].signal = signal /\ (Owners(r, i) # {}) = owned
                          THEN Weight(body[r].signal, Records(r)[i]) ELSE 0
  OBVIOUS
<1> DEFINE W == Weights(r)
           here == Ways(r, signal, owned)
           there == {j \in Counted(r) \cup {i} : body[r].signal = signal
                        /\ (Claimants(signal, body[r].records[j]) # {}) = owned}
<1>1. /\ Contribution(signal, owned)[r] = SumFunctionOnSet(W, here)
      /\ Contribution(signal, owned)'[r] = SumFunctionOnSet(W, there)
  <2>1. Weights(r)' = W
    BY DEF Weights
  <2>2. Contribution(signal, owned)'[r] = SumFunctionOnSet(W, there)
    BY <2>1 DEF Contribution, Claimants
  <2> QED BY <2>2, ContributionsFit
<1>2. /\ here \subseteq Counted(r) /\ IsFiniteSet(here) /\ i \notin here
      /\ \A j \in here \cup {i} : W[j] \in Int
  <2>1. here \subseteq Counted(r)
    BY DEF Ways
  <2> HIDE DEF here, W
  <2>2. \A j \in DOMAIN Records(r) : W[j] \in Int
    BY TermsFit DEF W
  <2>3. Counted(r) \subseteq DOMAIN Records(r) /\ IsFiniteSet(Counted(r))
    BY TermsFit
  <2> QED BY <2>1, <2>2, <2>3, FS_Subset
<1>3. SumFunctionOnSet(W, here) \in Int
  <2> HIDE DEF here, W
  <2> QED BY <1>2, SumTakesOut
<1>4. CASE body[r].signal = signal /\ (Owners(r, i) # {}) = owned
  <2>1. there = here \cup {i}
    BY <1>4 DEF Ways, Owners, Records
  <2>2. W[i] = Weight(body[r].signal, Records(r)[i])
    BY TermsFit
  <2> HIDE DEF here, there, W
  <2>3. SumFunctionOnSet(W, there) = SumFunctionOnSet(W, here) + W[i]
    BY <1>2, <2>1, SumAdds
  <2>4. W[i] \in Int
    BY <1>2
  <2> QED BY <1>1, <1>3, <1>4, <2>2, <2>3, <2>4
<1>5. CASE ~(body[r].signal = signal /\ (Owners(r, i) # {}) = owned)
  <2>1. there = here
    BY <1>5 DEF Ways, Owners, Records
  <2> HIDE DEF here, there, W
  <2> QED BY <1>1, <1>3, <1>5, <2>1
<1> QED BY <1>4, <1>5

-----------------------------------------------------------------------------
(* Every step keeps the books.                                             *)

LEMMA RouteKeepsStats ==
  ASSUME DInv, CountersFit, CountersFit', TermsAreInt, TermsAreInt', StatsAccountForEveryRecord,
         NEW r \in Requests, Route(r)
  PROVE  StatsAccountForEveryRecord'
<1> DEFINE signal == body[r].signal
           owned == Owners(r, pos[r]) # {}
           w == Weight(signal, Records(r)[pos[r]])
<1>1. /\ pc[r] = "route" /\ pos[r] <= Len(Records(r)) /\ w > 0
      /\ stats' = [stats EXCEPT ![Counter(signal, owned)] = @ + w]
      /\ pc' = [pc EXCEPT ![r] = IF owned THEN "consume" ELSE "export"]
      /\ UNCHANGED <<consumers, body, pos, unclaimed>>
  BY DEF Route, Current, Owners, Records
<1>2. pos[r] \in DOMAIN Records(r) /\ signal \in Signals /\ DOMAIN Records(r) \subseteq Nat
  BY <1>1, BodyIsList, TermsFit DEF DInv, BodiesFit, IsList
<1>3. pos[r] \notin Counted(r) /\ Counted(r)' = Counted(r) \cup {pos[r]}
  <2>1. pc'[r] \in {"consume", "export"}
    BY <1>1 DEF DInv, BodiesFit
  <2> QED BY <1>1, <1>2, <2>1 DEF Counted, Records
<1>4. \A s, o : Contribution(s, o)'[r] - Contribution(s, o)[r]
                  = IF signal = s /\ owned = o THEN w ELSE 0
  BY <1>1, <1>2, <1>3, ContributionGrows DEF DInv
<1>5. signal = "traces" => ~owned
  BY SpansAreUnowned DEF Owners
<1>6. \A s : Held(s)[r] = 0 /\ Held(s)'[r] = IF signal = s /\ ~owned THEN w ELSE 0
  BY <1>1 DEF Held, Current, Records, DInv, BodiesFit
<1>7. w \in Nat
  BY <1>2, TermsFit DEF DInv
<1>8. \A q \in Requests \ {r} :
        /\ \A s, o : Contribution(s, o)'[q] = Contribution(s, o)[q]
        /\ \A s : Held(s)'[q] = Held(s)[q]
  BY <1>1, OthersStay DEF DInv, BodiesFit
<1> HIDE DEF w
<1>9. ASSUME NEW s \in Signals, NEW o \in BOOLEAN, s = "traces" => ~o
      PROVE  stats'[Counter(s, o)] - stats[Counter(s, o)] = IF signal = s /\ owned = o THEN w ELSE 0
  <2>1. Counter(s, o) \in Counters /\ stats[Counter(s, o)] \in Nat
    BY DEF Counter, Counters, CountersFit
  <2>2. CASE signal = s /\ owned = o
    <3>1. Counter(s, o) = Counter(signal, owned)
      BY <2>2
    <3> HIDE DEF signal, owned
    <3>2. stats'[Counter(s, o)] = stats[Counter(s, o)] + w
      BY <1>1, <2>1, <3>1 DEF CountersFit
    <3> QED BY <1>7, <2>1, <2>2, <3>2
  <2>3. CASE ~(signal = s /\ owned = o)
    <3>1. Counter(s, o) # Counter(signal, owned)
      BY <1>2, <1>5, <1>9, <2>3 DEF Counter, Signals
    <3> HIDE DEF signal, owned
    <3>2. stats'[Counter(s, o)] = stats[Counter(s, o)]
      BY <1>1, <2>1, <3>1 DEF CountersFit
    <3> QED BY <2>1, <2>3, <3>2
  <2> QED BY <2>2, <2>3
<1>10. ASSUME NEW s \in Signals
       PROVE  (unclaimed'[s] - unclaimed[s]) + (Held(s)'[r] - Held(s)[r])
                = stats'[Counter(s, FALSE)] - stats[Counter(s, FALSE)]
  <2>1. unclaimed'[s] = unclaimed[s] /\ unclaimed[s] \in Nat
    BY <1>1 DEF CountersFit
  <2>2. stats'[Counter(s, FALSE)] - stats[Counter(s, FALSE)] = IF signal = s /\ ~owned THEN w ELSE 0
    BY <1>9
  <2>3. Held(s)'[r] - Held(s)[r] = IF signal = s /\ ~owned THEN w ELSE 0
    BY <1>6, <1>7
  <2> HIDE DEF signal, owned
  <2>4. unclaimed'[s] - unclaimed[s] = 0
    BY <2>1
  <2>5. PICK k \in Int : k = IF signal = s /\ ~owned THEN w ELSE 0
    BY <1>7
  <2>6. Held(s)'[r] - Held(s)[r] = k /\ stats'[Counter(s, FALSE)] - stats[Counter(s, FALSE)] = k
    BY <2>2, <2>3, <2>5
  <2>7. 0 \in Int /\ 0 + k = k
    BY <2>5
  <2> QED BY <2>4, <2>5, <2>6, <2>7, BooksMove
<1>11. \A s \in Signals, o \in BOOLEAN : (s = "traces" => ~o) =>
          stats'[Counter(s, o)] - stats[Counter(s, o)] = Contribution(s, o)'[r] - Contribution(s, o)[r]
  BY <1>4, <1>9
<1> HIDE DEF signal, owned
<1> QED BY <1>8, <1>10, <1>11, StatsMove

\* An empty scope counts for nothing.
LEMMA SkipKeepsStats ==
  ASSUME DInv, CountersFit, CountersFit', TermsAreInt, TermsAreInt', StatsAccountForEveryRecord,
         NEW r \in Requests, SkipEmptyScope(r)
  PROVE  StatsAccountForEveryRecord'
<1>1. /\ pc[r] = "route" /\ pos[r] <= Len(Records(r))
      /\ Weight(body[r].signal, Records(r)[pos[r]]) = 0
      /\ pos' = [pos EXCEPT ![r] = @ + 1]
      /\ UNCHANGED <<consumers, pc, body, stats, unclaimed>>
  BY DEF SkipEmptyScope, Current, Records
<1>2. pos[r] \in DOMAIN Records(r) /\ pos'[r] = pos[r] + 1 /\ DOMAIN Records(r) \subseteq Nat
  BY <1>1, BodyIsList, TermsFit DEF DInv, BodiesFit, IsList
<1>3. pos[r] \notin Counted(r) /\ Counted(r)' = Counted(r) \cup {pos[r]}
  BY <1>1, <1>2 DEF Counted, Records
<1>4. \A s, o : Contribution(s, o)'[r] - Contribution(s, o)[r] = 0
  BY <1>1, <1>2, <1>3, ContributionGrows DEF DInv
<1>5. \A s : Held(s)'[r] - Held(s)[r] = 0
  BY <1>1 DEF Held
<1>6. \A q \in Requests \ {r} :
        /\ \A s, o : Contribution(s, o)'[q] = Contribution(s, o)[q]
        /\ \A s : Held(s)'[q] = Held(s)[q]
  BY <1>1, OthersStay DEF DInv, BodiesFit
<1>7. /\ \A s, o : stats'[Counter(s, o)] - stats[Counter(s, o)] = 0
      /\ \A s \in Signals : unclaimed'[s] - unclaimed[s] = 0
  BY <1>1 DEF CountersFit, Counter, Counters
<1>8. \A s \in Signals : (unclaimed'[s] - unclaimed[s]) + (Held(s)'[r] - Held(s)[r])
                            = stats'[Counter(s, FALSE)] - stats[Counter(s, FALSE)]
  <2>1. 0 \in Int /\ 0 + 0 = 0
    OBVIOUS
  <2> QED BY <1>5, <1>7, <2>1, BooksMove
<1>9. \A s, o : stats'[Counter(s, o)] - stats[Counter(s, o)]
                  = Contribution(s, o)'[r] - Contribution(s, o)[r]
  BY <1>4, <1>7
<1> QED BY <1>6, <1>8, <1>9, StatsMove

\* The exported counter takes what the handler held.
LEMMA ExportKeepsStats ==
  ASSUME DInv, CountersFit, CountersFit', TermsAreInt, TermsAreInt', StatsAccountForEveryRecord,
         NEW r \in Requests, CountExported(r)
  PROVE  StatsAccountForEveryRecord'
<1> DEFINE signal == body[r].signal
           w == Weight(signal, Records(r)[pos[r]])
<1>1. /\ pc[r] = "export" /\ pc' = [pc EXCEPT ![r] = "route"]
      /\ pos' = [pos EXCEPT ![r] = @ + 1]
      /\ unclaimed' = [unclaimed EXCEPT ![signal] = @ + w]
      /\ UNCHANGED <<consumers, body, stats>>
  BY DEF CountExported, Current, Records
<1>2. /\ pos[r] \in DOMAIN Records(r) /\ pos'[r] = pos[r] + 1 /\ pos[r] \in Nat
      /\ DOMAIN Records(r) \subseteq Nat
      /\ pc'[r] = "route" /\ signal \in Signals /\ w \in Nat
  BY <1>1, BodyIsList, TermsFit DEF DInv, BodiesFit, HandlersFit
<1>3. Counted(r)' = Counted(r)
  BY <1>1, <1>2 DEF Counted, Records
<1>4. \A s, o : Contribution(s, o)'[r] = Contribution(s, o)[r]
  BY <1>1, <1>3, ContributionStays
<1>5. \A s : Held(s)[r] = (IF signal = s THEN w ELSE 0) /\ Held(s)'[r] = 0
  BY <1>1, <1>2 DEF Held, Current, Records
<1>6. \A q \in Requests \ {r} :
        /\ \A s, o : Contribution(s, o)'[q] = Contribution(s, o)[q]
        /\ \A s : Held(s)'[q] = Held(s)[q]
  BY <1>1, OthersStay DEF DInv, BodiesFit
<1>7. \A s \in Signals : unclaimed'[s] - unclaimed[s] = IF signal = s THEN w ELSE 0
  <2> HIDE DEF signal, w
  <2> QED BY <1>1, <1>2 DEF CountersFit
<1>8. \A s, o : stats'[Counter(s, o)] - stats[Counter(s, o)] = 0
  BY <1>1 DEF CountersFit, Counter, Counters
<1>9. ASSUME NEW s \in Signals
      PROVE  (unclaimed'[s] - unclaimed[s]) + (Held(s)'[r] - Held(s)[r])
                = stats'[Counter(s, FALSE)] - stats[Counter(s, FALSE)]
  <2>1. PICK k \in Int : k = IF signal = s THEN w ELSE 0
    BY <1>2
  <2>2. Held(s)'[r] - Held(s)[r] = -k /\ unclaimed'[s] - unclaimed[s] = k
    BY <1>5, <1>7, <2>1
  <2>3. -k \in Int /\ stats'[Counter(s, FALSE)] - stats[Counter(s, FALSE)] = k + (-k)
    <3>1. -k \in Int /\ k + (-k) = 0
      BY <2>1
    <3> QED BY <1>8, <3>1
  <2> HIDE DEF signal, w
  <2> QED BY <2>1, <2>2, <2>3, BooksMove
<1>10. \A s, o : stats'[Counter(s, o)] - stats[Counter(s, o)]
                   = Contribution(s, o)'[r] - Contribution(s, o)[r]
  BY <1>4, <1>8 DEF TermsAreInt
<1> QED BY <1>6, <1>9, <1>10, StatsMove

\* A call, a response, an arrival and a refusal count nothing.
LEMMA OthersKeepStats ==
  ASSUME DInv, CountersFit, CountersFit', TermsAreInt, TermsAreInt', StatsAccountForEveryRecord,
         NEW r \in Requests,
         \/ Consume(r) \/ Respond(r)
         \/ \E b \in Bodies : Begin(r, b)
         \/ \E q \in Posts : RefuseHTTP(r, q)
  PROVE  StatsAccountForEveryRecord'
<1>1. /\ pc[r] # "export" /\ pc' = [pc EXCEPT ![r] = pc'[r]] /\ pc'[r] # "export"
      /\ body' = [body EXCEPT ![r] = body'[r]] /\ pos' = [pos EXCEPT ![r] = pos'[r]]
      /\ UNCHANGED <<consumers, stats, unclaimed>>
  BY DEF Consume, Respond, Begin, RefuseHTTP, DInv, BodiesFit
<1>2. \A s, o : Contribution(s, o)'[r] = Contribution(s, o)[r]
  <2>1. CASE Consume(r) \/ Respond(r) \/ \E q \in Posts : RefuseHTTP(r, q)
    <3>1. DOMAIN Records(r) \subseteq Nat /\ pos[r] \in Nat
      BY TermsFit DEF DInv, BodiesFit
    <3>2. Counted(r)' = Counted(r)
      <4>1. CASE Consume(r)
        <5>1. /\ pc[r] = "consume" /\ pc'[r] = "route" /\ pos'[r] = pos[r] + 1
              /\ UNCHANGED body /\ pos[r] \in DOMAIN Records(r)
          BY <4>1 DEF Consume, DInv, BodiesFit, HandlersFit
        <5> QED BY <3>1, <5>1 DEF Counted, Records
      <4>2. CASE Respond(r) \/ \E q \in Posts : RefuseHTTP(r, q)
        <5>1. /\ pc[r] \in {"route", "idle"} /\ pc'[r] = "answered"
              /\ UNCHANGED <<body, pos>>
          BY <4>2 DEF Respond, RefuseHTTP, DInv, BodiesFit
        <5> QED BY <5>1 DEF Counted
      <4> QED BY <2>1, <4>1, <4>2
    <3>3. UNCHANGED <<consumers, body>>
      BY <2>1 DEF Consume, Respond, RefuseHTTP
    <3> QED BY <3>2, <3>3, ContributionStays
  <2>2. CASE \E b \in Bodies : Begin(r, b)
    <3>1. /\ body[r].records = <<>> /\ body'[r] \in Bodies /\ pos[r] = 1 /\ pos'[r] = 1
          /\ pc'[r] = "route"
      BY <2>2 DEF Begin, DInv, BodiesFit, HandlersFit, NoBody
    <3>2. Counted(r) = {}
      BY <3>1 DEF Counted
    <3>3. Counted(r)' = {}
      <4>1. \A i \in DOMAIN body'[r].records : ~(i < 1)
        BY <3>1, ListAssumption DEF IsList
      <4> QED BY <3>1, <4>1 DEF Counted
    <3>4. \A f : SumFunctionOnSet(f, {}) = 0
      BY SumUnfolds, FS_EmptySet
    <3>5. ASSUME NEW s, NEW o PROVE Contribution(s, o)[r] = 0 /\ Contribution(s, o)'[r] = 0
      <4>1. Contribution(s, o)[r] = SumFunctionOnSet(Weights(r), {})
        BY <3>2 DEF Contribution
      <4>2. Contribution(s, o)'[r] = SumFunctionOnSet(Weights(r)', {})
        BY <3>3 DEF Contribution
      <4> QED BY <3>4, <4>1, <4>2
    <3> QED BY <3>5
  <2> QED BY <2>1, <2>2
<1>3. \A s : Held(s)'[r] - Held(s)[r] = 0
  BY <1>1 DEF Held
<1>4. \A q \in Requests \ {r} :
        /\ \A s, o : Contribution(s, o)'[q] = Contribution(s, o)[q]
        /\ \A s : Held(s)'[q] = Held(s)[q]
  <2>1. \A q \in Requests \ {r} : pc'[q] = pc[q] /\ body'[q] = body[q] /\ pos'[q] = pos[q]
    BY <1>1 DEF DInv, BodiesFit
  <2> QED BY <1>1, <2>1, OthersStay
<1>5. /\ \A s, o : stats'[Counter(s, o)] - stats[Counter(s, o)] = 0
      /\ \A s \in Signals : unclaimed'[s] - unclaimed[s] = 0
  BY <1>1 DEF CountersFit, Counter, Counters
<1>6. \A s, o : Contribution(s, o)'[r] - Contribution(s, o)[r] = 0
  BY <1>2 DEF TermsAreInt
<1>7. \A s \in Signals : (unclaimed'[s] - unclaimed[s]) + (Held(s)'[r] - Held(s)[r])
                            = stats'[Counter(s, FALSE)] - stats[Counter(s, FALSE)]
  <2>1. 0 \in Int /\ 0 + 0 = 0
    OBVIOUS
  <2>2. SUFFICES ASSUME NEW s \in Signals
                 PROVE  (unclaimed'[s] - unclaimed[s]) + (Held(s)'[r] - Held(s)[r])
                            = stats'[Counter(s, FALSE)] - stats[Counter(s, FALSE)]
    OBVIOUS
  <2>3. /\ unclaimed'[s] - unclaimed[s] = 0 /\ Held(s)'[r] - Held(s)[r] = 0
        /\ stats'[Counter(s, FALSE)] - stats[Counter(s, FALSE)] = 0 + 0
    BY <1>3, <1>5, <2>1
  <2> QED BY <2>1, <2>3, BooksMove
<1>8. \A s, o : stats'[Counter(s, o)] - stats[Counter(s, o)]
                  = Contribution(s, o)'[r] - Contribution(s, o)[r]
  BY <1>5, <1>6
<1> QED BY <1>4, <1>7, <1>8, StatsMove

\* The receiver has counted every record it visited once, under its heading.
THEOREM StatsAccountForEveryRecordHolds == Spec => []StatsAccountForEveryRecord
<1>1. Init => StatsAccountForEveryRecord
  <2> SUFFICES ASSUME Init PROVE StatsAccountForEveryRecord
    OBVIOUS
  <2>1. \A f : SumFunctionOnSet(f, {}) = 0
    BY SumUnfolds, FS_EmptySet
  <2>2. ASSUME NEW signal, NEW owned
        PROVE  /\ SumFunction(Contribution(signal, owned)) = 0
               /\ SumFunction(Held(signal)) = 0
    <3>1. \A r \in Requests : Counted(r) = {}
      BY DEF Init, Counted, NoBody
    <3>2. \A r \in Requests : Contribution(signal, owned)[r] = SumFunctionOnSet(Weights(r), {})
      BY <3>1 DEF Contribution
    <3>3. \A r \in Requests : Contribution(signal, owned)[r] = 0 /\ Held(signal)[r] = 0
      BY <2>1, <3>2 DEF Init, Held
    <3>4. DOMAIN Contribution(signal, owned) = Requests /\ DOMAIN Held(signal) = Requests
      BY DEF Contribution, Held
    <3> QED BY <3>3, <3>4, RequestsAssumption, SumOfZeros DEF SumFunction
  <2>3. \A signal, owned : stats[Counter(signal, owned)] = 0
    BY DEF Init, Counter, Counters
  <2>4. \A signal \in Signals : unclaimed[signal] = 0
    BY DEF Init
  <2>5. 0 + 0 = 0
    OBVIOUS
  <2>6. \A signal \in Signals :
          unclaimed[signal] + SumFunction(Held(signal)) = stats[Counter(signal, FALSE)]
    BY <2>2, <2>3, <2>4, <2>5
  <2> QED BY <2>2, <2>3, <2>6 DEF StatsAccountForEveryRecord
<1>2. DInv /\ DInv' /\ TypeOK /\ TypeOK' /\ StatsAccountForEveryRecord /\ [Next]_vars
        => StatsAccountForEveryRecord'
  <2> SUFFICES ASSUME DInv, DInv', TypeOK, TypeOK', StatsAccountForEveryRecord, [Next]_vars
               PROVE  StatsAccountForEveryRecord'
    OBVIOUS
  <2>1. CountersFit /\ CountersFit' /\ TermsAreInt /\ TermsAreInt'
    BY TermsAreIntegers, TermsStayIntegers DEF DInv, TypeOK, CountersFit
  <2>2. CASE UNCHANGED vars \/ New
    <3>1. UNCHANGED <<consumers, pc, body, pos, stats, unclaimed>>
      BY <2>2 DEF vars, handlerVars, New
    <3>2. \A signal, owned : /\ Contribution(signal, owned)' = Contribution(signal, owned)
                             /\ Held(signal)' = Held(signal)
      BY <3>1 DEF Contribution, Held, Weights, Counted, Current, Claimants
    <3> QED BY <3>1, <3>2 DEF StatsAccountForEveryRecord
  <2>3. ASSUME NEW r \in Requests, Handler(r) PROVE StatsAccountForEveryRecord'
    BY <2>1, <2>3, RouteKeepsStats, SkipKeepsStats, ExportKeepsStats, OthersKeepStats DEF Handler
  <2>4. ASSUME NEW r \in Requests, ArriveGRPC(r) PROVE StatsAccountForEveryRecord'
    BY <2>1, <2>4, OthersKeepStats DEF ArriveGRPC
  <2>5. ASSUME NEW r \in Requests, NEW q \in Posts, ArriveHTTP(r, q) \/ RefuseHTTP(r, q)
        PROVE  StatsAccountForEveryRecord'
    BY <2>1, <2>5, OthersKeepStats DEF ArriveHTTP
  <2> QED BY <2>2, <2>3, <2>4, <2>5 DEF Next
<1> QED BY <1>1, <1>2, DInvHolds, TypeCorrect, PTL DEF Spec

-----------------------------------------------------------------------------
(* The loops end.                                                          *)

\* What a handler has left to do: for each record it is not past to be routed
\* and to be handled, and then to answer.
Left(r) ==
  IF pc[r] = "answered" THEN 0
  ELSE 2 * (Len(Records(r)) + 1 - pos[r]) + IF pc[r] = "route" THEN 1 ELSE 0

\* Each step of a handler leaves it less to do, and no step of anybody else
\* changes what it has to do once it has started.
EveryStepLeavesLess ==
  \A r \in Requests : pc[r] # "idle" =>
    /\ Left(r) \in Nat
    /\ IF Handler(r) THEN Left(r)' < Left(r) ELSE Left(r)' = Left(r)

\* A handler is never beyond the end of its body.
PosFits == \A r \in Requests : pc[r] = "route" => pos[r] <= Len(Records(r)) + 1

\* What each step does to the place of the handler that takes it.
LEMMA HandlerMoves ==
  ASSUME DInv, PosFits, NEW r \in Requests, Handler(r)
  PROVE  /\ pc[r] \in {"route", "consume", "export"} /\ body' = body
         /\ pos[r] \in Nat /\ pos'[r] \in Nat /\ Len(Records(r)) \in Nat
         /\ \/ /\ pc[r] = "route" /\ pc'[r] \in {"consume", "export"}
               /\ pos'[r] = pos[r] /\ pos[r] <= Len(Records(r))
            \/ /\ pc'[r] = "route" /\ pos'[r] = pos[r] + 1 /\ pos[r] <= Len(Records(r))
            \/ /\ pc[r] = "route" /\ pc'[r] = "answered"
               /\ pos'[r] = pos[r] /\ pos[r] = Len(Records(r)) + 1
         /\ \A q \in Requests \ {r} : pc'[q] = pc[q] /\ pos'[q] = pos[q]
<1>1. pos[r] \in Nat /\ Len(Records(r)) \in Nat
      /\ (pc[r] \in {"consume", "export"} => pos[r] <= Len(Records(r)))
  BY BodyIsList DEF DInv, BodiesFit, HandlersFit, IsList
<1>2. CASE Route(r)
  BY <1>1, <1>2 DEF Route, Records, DInv, BodiesFit
<1>3. CASE SkipEmptyScope(r)
  BY <1>1, <1>3 DEF SkipEmptyScope, Records, DInv, BodiesFit
<1>4. CASE CountExported(r)
  BY <1>1, <1>4 DEF CountExported, Records, DInv, BodiesFit
<1>5. CASE Consume(r)
  BY <1>1, <1>5 DEF Consume, Records, DInv, BodiesFit
<1>6. CASE Respond(r)
  BY <1>1, <1>6 DEF Respond, Records, DInv, BodiesFit, PosFits
<1> QED BY <1>2, <1>3, <1>4, <1>5, <1>6 DEF Handler

\* A step that is no handler's leaves the handlers that have started alone.
LEMMA ArrivalsMove ==
  ASSUME DInv, NEW r \in Requests,
         (\E b \in Bodies : Begin(r, b)) \/ \E q \in Posts : RefuseHTTP(r, q)
  PROVE  /\ pc[r] = "idle" /\ pos'[r] = 1
         /\ \A q \in Requests \ {r} : pc'[q] = pc[q] /\ pos'[q] = pos[q] /\ body'[q] = body[q]
BY DEF Begin, RefuseHTTP, DInv, BodiesFit, HandlersFit

LEMMA PosFitsHolds == Spec => []PosFits
<1>1. Init => PosFits
  BY DEF Init, PosFits
<1>2. DInv /\ DInv' /\ PosFits /\ [Next]_vars => PosFits'
  <2> SUFFICES ASSUME DInv, DInv', PosFits, [Next]_vars PROVE PosFits'
    OBVIOUS
  <2>1. CASE UNCHANGED vars \/ New
    BY <2>1 DEF vars, handlerVars, New, PosFits, Records
  <2>2. ASSUME NEW r \in Requests, Handler(r) PROVE PosFits'
    BY <2>2, HandlerMoves DEF PosFits, Records
  <2>3. ASSUME NEW r \in Requests,
               (\E b \in Bodies : Begin(r, b)) \/ \E q \in Posts : RefuseHTTP(r, q)
        PROVE  PosFits'
    <3>1. Len(Records(r)') \in Nat
      BY BodyIsList DEF DInv, IsList
    <3> QED BY <2>3, <3>1, ArrivalsMove DEF PosFits, Records
  <2> QED BY <2>1, <2>2, <2>3 DEF Next, ArriveGRPC, ArriveHTTP
<1> QED BY <1>1, <1>2, DInvHolds, PTL DEF Spec

\* For every body the loops of a handler end: it has finitely many steps left,
\* whatever the others do.
THEOREM HandlersEnd == Spec => [][EveryStepLeavesLess]_vars
<1>1. DInv /\ PosFits /\ [Next]_vars => [EveryStepLeavesLess]_vars
  <2> SUFFICES ASSUME DInv, PosFits, Next, NEW r \in Requests, pc[r] # "idle"
               PROVE  /\ Left(r) \in Nat
                      /\ IF Handler(r) THEN Left(r)' < Left(r) ELSE Left(r)' = Left(r)
    BY DEF EveryStepLeavesLess
  <2>1. Left(r) \in Nat
    <3>1. pos[r] \in Nat /\ Len(Records(r)) \in Nat
          /\ (pc[r] \in {"consume", "export"} => pos[r] <= Len(Records(r)))
      BY BodyIsList DEF DInv, BodiesFit, HandlersFit, IsList
    <3> QED BY <3>1 DEF Left, PosFits, DInv, BodiesFit
  <2>2. ASSUME Handler(r) PROVE Left(r)' < Left(r)
    <3> DEFINE n == Len(Records(r))
    <3>1. /\ n \in Nat /\ pos[r] \in Nat /\ Records(r)' = Records(r) /\ pc[r] # "answered"
          /\ \/ pc[r] = "route" /\ pc'[r] \in {"consume", "export"} /\ pos'[r] = pos[r]
             \/ pc'[r] = "route" /\ pos'[r] = pos[r] + 1
             \/ pc[r] = "route" /\ pc'[r] = "answered" /\ pos[r] = n + 1
      BY <2>2, HandlerMoves DEF Records
    <3>2. Left(r) = 2 * (n + 1 - pos[r]) + IF pc[r] = "route" THEN 1 ELSE 0
      BY <3>1 DEF Left
    <3>3. Left(r)' = IF pc'[r] = "answered" THEN 0
                     ELSE 2 * (n + 1 - pos'[r]) + IF pc'[r] = "route" THEN 1 ELSE 0
      BY <3>1 DEF Left
    <3> HIDE DEF n
    <3> QED BY <3>1, <3>2, <3>3
  <2>3. ASSUME ~Handler(r) PROVE Left(r)' = Left(r)
    <3>1. \/ New
          \/ \E q \in Requests \ {r} : Handler(q)
          \/ \E q \in Requests : \/ \E b \in Bodies : Begin(q, b)
                                 \/ \E p \in Posts : RefuseHTTP(q, p)
      BY <2>3 DEF Next, ArriveGRPC, ArriveHTTP
    <3>2. pc'[r] = pc[r] /\ pos'[r] = pos[r] /\ body'[r] = body[r]
      BY <3>1, HandlerMoves, ArrivalsMove DEF New, handlerVars
    <3> QED BY <3>2 DEF Left, Records
  <2> QED BY <2>1, <2>2, <2>3
<1> QED BY <1>1, DInvHolds, PosFitsHolds, PTL DEF Spec
=============================================================================
