-------------------------- MODULE SelfExportProofs --------------------------
(***************************************************************************)
(* The self-export check is sound for every network, every name table and  *)
(* every configuration, up to the two exceptions its property names.       *)
(***************************************************************************)
EXTENDS SelfExport, TLAPS

\* A running collector passed the check, as names resolved at that time.
RanClean == stage = "running" => \A l \in ListenAddrs : Clean(l, checked)

\* The heart of it: an endpoint that reaches a listener collides with it,
\* unless it names an unspecified address.
LEMMA ReachingCollides ==
  ASSUME NEW l, NEW e, Reaches(e, l), dns[e.host] \cap Unspecified = {}
  PROVE  Collide(l, e, dns)
<1>1. PICK ip \in dns[e.host] : \E target \in Dialled(ip) : AcceptsOn(l, target)
  BY DEF Reaches
<1>2. AcceptsOn(l, ip)
  BY <1>1 DEF Dialled
<1>3. CASE dns[l.host] \cap Unspecified # {}
  BY <1>1, <1>2, <1>3 DEF Reaches, AcceptsOn, Local, Collide, anyIsLocal
<1>4. CASE dns[l.host] \cap Unspecified = {}
  BY <1>1, <1>2, <1>4 DEF Reaches, AcceptsOn, Collide
<1> QED BY <1>3, <1>4

\* Only Start leads to "running", and it has found every pair clean.
LEMMA RanCleanHolds == Spec => []RanClean
<1>1. Init => RanClean
  BY DEF Init, RanClean
<1>2. RanClean /\ [Next]_vars => RanClean'
  <2> SUFFICES ASSUME RanClean, [Next]_vars PROVE RanClean'
    OBVIOUS
  <2> USE DEF RanClean, ListenAddrs, Clean, Collide, CheckErrs, Parses,
              ResolveExportEndpoints, hostPort, anyIsLocal
  <2>1. CASE RefuseLoop BY <2>1 DEF RefuseLoop, EndCheck
  <2>2. CASE FailCheck BY <2>2 DEF FailCheck, EndCheck
  <2>3. CASE FailInterfaces BY <2>3 DEF FailInterfaces, EndCheck
  <2>4. CASE Start BY <2>4 DEF Start, EndCheck
  <2>5. ASSUME NEW s \in Signals, Connect(s) PROVE RanClean'
    BY <2>5 DEF Connect
  <2>6. CASE Rebind BY <2>6 DEF Rebind
  <2>7. CASE UNCHANGED vars BY <2>7 DEF vars
  <2> QED BY <2>1, <2>2, <2>3, <2>4, <2>5, <2>6, <2>7 DEF Next
<1> QED BY <1>1, <1>2, PTL DEF Spec

\* No signal is exported into the receiver while names resolve as they did
\* when the check ran, if its endpoint names no unspecified address.
THEOREM NoLoopWhileNamesHoldHolds == Spec => NoLoopWhileNamesHold
<1>1. ASSUME RanClean, [Next]_vars
      PROVE  [\A s \in looped' \ looped : NamesAnAddress(s) => dns # checked]_vars
  <2> SUFFICES ASSUME NEW s \in looped' \ looped, NamesAnAddress(s), dns = checked
               PROVE  FALSE
    OBVIOUS
  <2>1. s \in Signals /\ Connect(s)
    BY <1>1 DEF Next, RefuseLoop, FailCheck, FailInterfaces, Start, EndCheck,
                Connect, Rebind, vars
  <2> DEFINE e == ResolveExportEndpoints[s]
  <2>2. PICK l \in ListenAddrs : Reaches(e, l)
    BY <2>1 DEF Connect
  <2>3. dns[e.host] \cap Unspecified = {}
    BY <2>2 DEF NamesAnAddress, Reaches
  <2>4. Collide(l, e, dns)
    BY <2>2, <2>3, ReachingCollides
  <2>5. Clean(l, dns)
    BY <1>1, <2>1 DEF RanClean, Connect
  <2> QED BY <2>1, <2>4, <2>5 DEF Clean
<1> QED BY <1>1, RanCleanHolds, PTL DEF Spec, NoLoopWhileNamesHold

\* The converse, but for two loopback addresses: a collision is a real loop.
LEMMA CollidingReaches ==
  ASSUME NEW l, NEW e, Collide(l, e, dns)
  PROVE  \/ Reaches(e, l)
         \/ /\ Meet(e, l)
            /\ dns[l.host] \cap Loopback # {} /\ dns[e.host] \cap Loopback # {}
<1> DEFINE Shared == {ip \in dns[e.host] : ip \notin Unspecified /\ AcceptsOn(l, ip)}
<1>1. Shared # {} => Reaches(e, l)
  BY DEF Collide, Reaches, Dialled
<1>2. CASE dns[l.host] \cap Unspecified # {}
  <2>1. PICK ip \in dns[e.host] : ip \in Local
    BY <1>2 DEF Collide, anyIsLocal, Local
  <2>2. ip \notin Unspecified
    BY <2>1, AddressAssumption DEF Local
  <2>3. ip \in Shared
    BY <1>2, <2>1, <2>2 DEF AcceptsOn
  <2> QED BY <1>1, <2>3
<1>3. CASE dns[l.host] \cap Unspecified = {}
  <2>1. CASE dns[l.host] \cap dns[e.host] # {}
    <3>1. PICK ip \in dns[e.host] : ip \in dns[l.host]
      BY <2>1
    <3>2. ip \in Shared
      BY <1>3, <3>1 DEF AcceptsOn
    <3> QED BY <1>1, <3>2
  <2>2. CASE dns[l.host] \cap dns[e.host] = {}
    BY <1>3, <2>2 DEF Collide, Meet
  <2> QED BY <2>1, <2>2
<1> QED BY <1>2, <1>3

\* Every refusal is a loop or two loopback addresses, and every error of the
\* check is over a pair that could not be told apart otherwise.
THEOREM RefusalsAreJustifiedHolds == Spec => RefusalsAreJustified
<1> DEFINE Refused ==
      \E l \in ListenAddrs, s \in Signals :
        LET e == ResolveExportEndpoints[s] IN
        \/ Reaches(e, l)
        \/ /\ Meet(e, l)
           /\ dns[l.host] \cap Loopback # {} /\ dns[e.host] \cap Loopback # {}
    Failed ==
      \E l \in ListenAddrs, s \in Signals :
        l.port = NoValue \/ Meet(ResolveExportEndpoints[s], l)
    Justified == stage = "init" => /\ stage' = "refused" => Refused
                                   /\ stage' = "failed" => Failed
<1>1. RefuseLoop => Refused
  <2> SUFFICES ASSUME NEW t \in Entered, NEW s \in Signals,
                      Collide(listen[t], ResolveExportEndpoints[s], dns)
               PROVE  Refused
    BY DEF RefuseLoop
  <2>1. listen[t] \in ListenAddrs
    BY DEF Entered, ListenAddrs
  <2> QED BY <2>1, CollidingReaches
<1>2. FailCheck => Failed
  BY DEF FailCheck, CheckErrs, Meet, Entered, ListenAddrs
<1>3. FailInterfaces => Failed
  BY DEF FailInterfaces, NeedsInterfaces, Meet, Entered, ListenAddrs
<1>4. [Next]_vars => [Justified]_vars
  <2> SUFFICES ASSUME Next, stage = "init" PROVE Justified
    BY DEF vars
  <2>1. CASE RefuseLoop BY <1>1, <2>1 DEF RefuseLoop, EndCheck
  <2>2. CASE FailCheck BY <1>2, <2>2 DEF FailCheck, EndCheck
  <2>3. CASE FailInterfaces BY <1>3, <2>3 DEF FailInterfaces, EndCheck
  <2>4. CASE Start BY <2>4 DEF Start, EndCheck
  <2>5. CASE Rebind BY <2>5 DEF Rebind
  <2>6. ASSUME NEW s \in Signals, Connect(s) PROVE Justified
    BY <2>6 DEF Connect
  <2> QED BY <2>1, <2>2, <2>3, <2>4, <2>5, <2>6 DEF Next
<1> QED BY <1>4, PTL DEF Spec, RefusalsAreJustified

\* Type correctness.
THEOREM TypeCorrect == Spec => []TypeOK
<1>1. Init => TypeOK
  BY DEF Init, TypeOK
<1>2. TypeOK /\ [Next]_vars => TypeOK'
  <2> SUFFICES ASSUME TypeOK, [Next]_vars PROVE TypeOK'
    OBVIOUS
  <2> USE DEF TypeOK
  <2>1. ASSUME NEW verdict \in {"refused", "failed", "running"}, EndCheck(verdict) PROVE TypeOK'
    BY <2>1 DEF EndCheck
  <2>2. ASSUME NEW s \in Signals, Connect(s) PROVE TypeOK'
    BY <2>2 DEF Connect
  <2>3. CASE Rebind BY <2>3 DEF Rebind
  <2>4. CASE UNCHANGED vars BY <2>4 DEF vars
  <2> QED BY <2>1, <2>2, <2>3, <2>4 DEF Next, RefuseLoop, FailCheck, FailInterfaces, Start
<1> QED BY <1>1, <1>2, PTL DEF Spec
=============================================================================
