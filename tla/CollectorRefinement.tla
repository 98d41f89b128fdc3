------------------------- MODULE CollectorRefinement -------------------------
(***************************************************************************)
(* The collector implements the contract of module Intake, for every set   *)
(* of requests and of configurations.  To the invariant of CollectorProofs *)
(* it adds what a handler knows of its own record.                         *)
(***************************************************************************)
EXTENDS CollectorProofs

\* A record is counted on the way to the adapter, and has no fate before it
\* has been through it.
RecordOrder ==
  \A r \in Requests :
    /\ req[r] \in {"idle", "open", "decoded"} => r \notin counted /\ fate[r] = "none"
    /\ req[r] \in {"claimed", "holding"} => r \in counted /\ fate[r] = "none"

\* Only requests' own steps touch the request variables.
LEMMA RecordOrderHolds == Spec => []RecordOrder
<1>1. Init => RecordOrder
  BY DEF Init, RecordOrder
<1>2. ASSUME IInv, RecordOrder, [Next]_vars PROVE RecordOrder'
  <2> USE <1>2 DEF RecordOrder, IInv, TypeOK
  <2>1. CASE UNCHANGED requestVars
    BY <2>1 DEF requestVars
  <2>2. ASSUME NEW r \in Requests, Handler(r) PROVE RecordOrder'
    BY <2>2 DEF Handler, Count, ReadSink, Write, Answer
  <2>3. ASSUME NEW r \in Requests, Sender(r) PROVE RecordOrder'
    BY <2>3 DEF Sender, Open, Reject, Decode
  <2>4. UNCHANGED requestVars \/ \E r \in Requests : Handler(r) \/ Sender(r)
    BY DEF Next, Main, Watcher, Server, RefuseStart, AbortStart, Launch, Bind,
           BindFails, MakeServer, StartReturns, AdapterReturned, PrintStats, Flush,
           Exit, Signal, InstallSink, DropSink, StopHTTP, StopGRPC, BeginStop,
           Drained, GraceExpires, EnterServe, EnterStopped, LeaveServe, ServeFails,
           vars
  <2> QED BY <2>1, <2>2, <2>3, <2>4
<1> QED BY <1>1, <1>2, Inductive, PTL DEF Spec

-----------------------------------------------------------------------------
(* Steps that leave the requests alone.                                    *)

\* Steps of the signal, the adapter, the watcher and the Serve goroutines
\* decide nothing once Start has returned.
LEMMA BackgroundStutters ==
  ASSUME IInv, Signal \/ InstallSink \/ DropSink \/ Watcher
               \/ \E t \in Transports : Server(t)
  PROVE  UNCHANGED Promise!vars
<1>1. UNCHANGED <<main, pipeline, printed, exit, req, fate, counted, enabled>>
  BY DEF Signal, InstallSink, DropSink, Watcher, StopHTTP, StopGRPC, BeginStop,
         Drained, GraceExpires, Server, EnterServe, EnterStopped, LeaveServe,
         ServeFails, outcomeVars, requestVars
<1>2. CASE StartReturned
  <2>1. UNCHANGED serve
    BY <1>2 DEF IInv, StartWaitsForAll, Signal, InstallSink, DropSink, Watcher, StopHTTP,
         StopGRPC, BeginStop, Drained, GraceExpires, Server, EnterServe, EnterStopped,
         LeaveServe, ServeFails, serverVars
  <2>2. StoppedGracefully' => StoppedGracefully
    BY <1>2, GracefulIsDecided DEF Next
  <2>3. StoppedGracefully => StoppedGracefully'
    <3> SUFFICES ASSUME StoppedGracefully PROVE StoppedGracefully'
      OBVIOUS
    <3>1. watcher = "done"
      BY DEF IInv, ServeEndedByStop, StoppedGracefully
    <3>2. UNCHANGED <<stopping, graceExpired>>
      BY <3>1 DEF Signal, InstallSink, DropSink, Watcher, StopHTTP, StopGRPC, Drained,
         GraceExpires, Server, EnterServe, EnterStopped, LeaveServe, ServeFails,
         stopVars, DrainStep
    <3> QED BY <1>1, <2>1, <3>2 DEF StoppedGracefully
  <2>4. StoppedGracefully' = StoppedGracefully
    BY <2>2, <2>3 DEF StoppedGracefully
  <2> QED
    BY <1>1, <2>4 DEF Promise!vars, intakePhase, StartReturned, InFlight
<1>3. CASE ~StartReturned
  BY <1>1, <1>3 DEF Promise!vars, intakePhase, StartReturned, InFlight
<1> QED BY <1>2, <1>3

-----------------------------------------------------------------------------
(* Steps of the main goroutine.                                            *)

\* Nothing the main goroutine does touches a request.
LEMMA MainLeavesRequests ==
  ASSUME Main
  PROVE  UNCHANGED <<req, fate, counted, stopping, graceExpired, enabled>>
BY DEF Main, RefuseStart, AbortStart, Launch, Bind, BindFails, MakeServer,
       StartReturns, AdapterReturned, PrintStats, Flush, Exit, requestVars, stopVars

\* Start's end, or a failure before it, is the contract's Stop.
LEMMA StopIsStop ==
  ASSUME IInv, Main, ~StartReturned, StartReturned'
  PROVE  Promise!Stop
<1>1. UNCHANGED <<req, fate, counted, stopping, graceExpired, enabled>>
  BY MainLeavesRequests
<1>2. \/ RefuseStart \/ AbortStart \/ StartReturns
      \/ BindFails("grpc", "bindGRPC") \/ BindFails("http", "bindHTTP")
  BY DEF Main, Launch, Bind, MakeServer, AdapterReturned, PrintStats, Flush, Exit,
         StartReturned
<1>3. UNCHANGED <<serve, printed>> /\ exit' # "ok" /\ exit # "ok"
  BY <1>2 DEF RefuseStart, AbortStart, StartReturns, BindFails, serverVars, outcomeVars,
         StartReturned, IInv, StartWaitsForAll
<1>4. intakePhase = "open" /\ intakePhase' = "stopped"
  BY <1>2 DEF RefuseStart, AbortStart, StartReturns, BindFails, intakePhase,
         StartReturned, IInv, TypeOK, PipelineOrder
<1>5. StoppedGracefully => InFlight = {}
  BY IInvDrains DEF GracefulStopDrains
<1>6. StoppedGracefully' = StoppedGracefully
  BY <1>1, <1>3 DEF StoppedGracefully
<1>7. (StartReturned /\ StoppedGracefully)' \in {FALSE, InFlight = {}}
  BY <1>5, <1>6 DEF StoppedGracefully
<1> QED BY <1>1, <1>3, <1>4, <1>7 DEF Promise!Stop, InFlight

\* Every other step of the main goroutine is a step of the report, of the
\* flush or of the end, or none the contract sees.
LEMMA MainKeepsPromise ==
  ASSUME IInv, Main
  PROVE  [Promise!Next]_(Promise!vars)
<1>1. CASE ~StartReturned /\ StartReturned'
  BY <1>1, StopIsStop DEF Promise!Next
<1>2. CASE ~StartReturned /\ ~StartReturned'
  <2>1. UNCHANGED printed /\ exit' # "ok" /\ exit # "ok"
    BY <1>2 DEF IInv, StartWaitsForAll, Main, RefuseStart, AbortStart, Launch, Bind,
         BindFails, MakeServer, StartReturns, AdapterReturned, PrintStats, Flush, Exit, outcomeVars,
         StartReturned
  <2> QED
    BY <1>2, <2>1, MainLeavesRequests DEF Promise!vars, intakePhase, InFlight, StartReturned
<1>3. CASE StartReturned
  <2>3. AdapterReturned \/ PrintStats \/ Flush \/ Exit
    BY <1>3 DEF Main, RefuseStart, AbortStart, Launch, Bind, BindFails, MakeServer,
         StartReturns, StartReturned
  <2>1. StoppedGracefully' = StoppedGracefully
    BY <2>3, MainLeavesRequests DEF StoppedGracefully, AdapterReturned, PrintStats, Flush,
       Exit, serverVars
  <2>2. UNCHANGED <<InFlight, counted, {r \in Requests : fate[r] = "written"}>>
    BY MainLeavesRequests DEF InFlight
  <2>4. CASE AdapterReturned
    BY <2>1, <2>2, <2>4 DEF AdapterReturned, Promise!vars, intakePhase, StartReturned,
       outcomeVars
  <2>5. CASE PrintStats
    BY <2>1, <2>2, <2>5 DEF PrintStats, Promise!Next, Promise!Report, intakePhase,
       StartReturned, IInv, StartWaitsForAll
  <2>6. CASE Flush
    BY <2>1, <2>2, <2>6 DEF Flush, Promise!Next, Promise!Flush, intakePhase,
       StartReturned
  <2>7. CASE Exit
    BY <2>1, <2>2, <2>7 DEF Exit, Promise!Next, Promise!End, intakePhase,
       StartReturned, outcomeVars, IInv, PipelineOrder
  <2> QED BY <2>3, <2>4, <2>5, <2>6, <2>7
<1> QED BY <1>1, <1>2, <1>3

-----------------------------------------------------------------------------
(* Steps of the requests.                                                  *)

\* A request's own step happens while the contract still lets requests work:
\* after a graceful stop none is in flight and no server takes one.
LEMMA RequestStepsAreActive ==
  ASSUME IInv, NEW r \in Requests, Handler(r) \/ Sender(r)
  PROVE  /\ Promise!Active
         /\ UNCHANGED processVars /\ UNCHANGED intakePhase
         /\ UNCHANGED (StartReturned /\ StoppedGracefully)
<1>1. Alive /\ UNCHANGED processVars
  BY DEF Handler, Sender, Count, ReadSink, Write, Answer, Open, Reject, Decode
<1>2. UNCHANGED intakePhase /\ UNCHANGED (StartReturned /\ StoppedGracefully)
  BY <1>1 DEF processVars, outcomeVars, stopVars, serverVars, intakePhase, StartReturned,
         StoppedGracefully
<1>3. ASSUME StoppedGracefully PROVE FALSE
  <2>1. InFlight = {}
    BY <1>3, IInvDrains DEF GracefulStopDrains
  <2>2. PICK t \in Transports : Open(r, t)
    BY <2>1 DEF InFlight, Handler, Sender, Count, ReadSink, Write, Answer, Reject, Decode
  <2>3. t \in enabled
    BY <2>2 DEF Open, TakesRequests, IInv, OnlyEnabledServe
  <2>4. watcher = "done"
    BY <1>3 DEF IInv, ServeEndedByStop, StoppedGracefully
  <2> QED
    BY <1>3, <2>2, <2>3, <2>4 DEF StoppedGracefully, Open, TakesRequests, DrainStep
<1>4. intakePhase \in {"open", "stopped", "flushed"}
  BY <1>1 DEF Alive, intakePhase, StartReturned
<1>5. intakePhase # "open" => intakePhase \in {"stopped", "flushed"}
  BY <1>4
<1> QED BY <1>1, <1>2, <1>3, <1>5 DEF Promise!Active

\* Each of them is a step of the contract, or one it does not see.
LEMMA RequestsKeepPromise ==
  ASSUME IInv, RecordOrder, NEW r \in Requests, Handler(r) \/ Sender(r)
  PROVE  [Promise!Next]_(Promise!vars)
<1> DEFINE kept == {q \in Requests : fate[q] = "written"}
<1>0. /\ Promise!Active /\ UNCHANGED intakePhase
      /\ UNCHANGED (StartReturned /\ StoppedGracefully)
      /\ exit' = exit /\ printed' = printed
  BY RequestStepsAreActive DEF processVars, outcomeVars
<1> USE DEF IInv, TypeOK
<1>1. ASSUME NEW t \in Transports, Open(r, t) PROVE Promise!Take(r)
  <2>1. r \notin InFlight /\ InFlight' = InFlight \cup {r} /\ UNCHANGED <<counted, fate>>
    BY <1>1 DEF Open, InFlight
  <2> QED BY <1>0, <2>1 DEF Promise!Take
<1>2. CASE Count(r)
  <2>1. r \in InFlight \ counted /\ counted' = counted \cup {r} /\ UNCHANGED fate
    BY <1>2 DEF Count, InFlight, RecordOrder
  <2>2. UNCHANGED InFlight
    BY <1>2 DEF Count, InFlight
  <2> QED BY <1>0, <2>1, <2>2 DEF Promise!Count, Promise!Next
<1>3. CASE Write(r)
  <2>1. r \in (InFlight \cap counted) \ kept /\ UNCHANGED <<InFlight, counted>>
    BY <1>3 DEF Write, InFlight, RecordOrder
  <2>2. CASE pipeline = "up"
    <3>1. kept' = kept \cup {r}
      BY <1>3, <2>2 DEF Write
    <3>2. intakePhase # "flushed"
      BY <1>3, <2>2 DEF Write, Alive, intakePhase, StartReturned, PipelineOrder
    <3> QED BY <1>0, <2>1, <3>1, <3>2 DEF Promise!Keep, Promise!Next
  <2>3. CASE pipeline # "up"
    <3>1. UNCHANGED kept
      BY <1>3, <2>1, <2>3 DEF Write
    <3> QED BY <1>0, <2>1, <3>1 DEF Promise!vars
  <2> QED BY <2>2, <2>3
<1>4. CASE Decode(r) \/ ReadSink(r)
  <2>1. UNCHANGED <<InFlight, counted>>
    BY <1>4 DEF Decode, ReadSink, InFlight
  <2>2. UNCHANGED kept
    BY <1>4 DEF Decode, ReadSink, RecordOrder
  <2> QED BY <1>0, <2>1, <2>2 DEF Promise!vars
<1>5. CASE Answer(r) \/ Reject(r)
  <2>1. r \in InFlight /\ InFlight' = InFlight \ {r} /\ UNCHANGED counted
    BY <1>5 DEF Answer, Reject, InFlight
  <2>2. UNCHANGED kept
    BY <1>5 DEF Answer, Reject, RecordOrder
  <2> QED BY <1>0, <2>1, <2>2 DEF Promise!Settle, Promise!Next
<1> QED BY <1>1, <1>2, <1>3, <1>4, <1>5 DEF Handler, Sender, Promise!Next

-----------------------------------------------------------------------------
\* The collector implements the contract: every step of every goroutine is one
\* the contract allows, or one it does not see.
THEOREM CollectorKeepsPromise == Spec => KeepsPromise
<1>1. Init => Promise!Init
  BY DEF Init, Promise!Init, intakePhase, StartReturned, InFlight
<1>2. ASSUME IInv, RecordOrder, [Next]_vars PROVE [Promise!Next]_(Promise!vars)
  <2>1. CASE UNCHANGED vars
    BY <2>1 DEF vars, processVars, requestVars, outcomeVars, stopVars, serverVars,
       Promise!vars, intakePhase, StartReturned, StoppedGracefully, InFlight
  <2>2. CASE Main
    BY <1>2, <2>2, MainKeepsPromise
  <2>3. CASE Signal \/ InstallSink \/ DropSink \/ Watcher \/ \E t \in Transports : Server(t)
    BY <1>2, <2>3, BackgroundStutters
  <2>4. ASSUME NEW r \in Requests, Handler(r) \/ Sender(r)
        PROVE  [Promise!Next]_(Promise!vars)
    BY <1>2, <2>4, RequestsKeepPromise
  <2> QED BY <1>2, <2>1, <2>2, <2>3, <2>4 DEF Next
<1> QED
  BY <1>1, <1>2, Inductive, RecordOrderHolds, PTL DEF Spec, KeepsPromise, Promise!Spec

-----------------------------------------------------------------------------
(* What the contract comes to, for the collector.                          *)

\* A record that was decoded has a fate, and is in the closing line, only once
\* it was counted.
CountedFirst ==
  /\ \A r \in Requests : fate[r] \notin {"none", "rejected"} => r \in counted
  /\ printed \subseteq counted

LEMMA CountedFirstHolds == Spec => []CountedFirst
<1>1. Init => CountedFirst
  BY DEF Init, CountedFirst
<1>2. ASSUME IInv, RecordOrder, CountedFirst, [Next]_vars PROVE CountedFirst'
  <2> USE <1>2 DEF CountedFirst, RecordOrder, IInv, TypeOK
  <2>1. CASE UNCHANGED <<requestVars, printed>>
    BY <2>1 DEF requestVars
  <2>2. ASSUME NEW r \in Requests, Handler(r) \/ Sender(r) PROVE CountedFirst'
    BY <2>2 DEF Handler, Sender, Count, ReadSink, Write, Answer, Open, Reject, Decode,
       processVars, outcomeVars
  <2>3. CASE PrintStats
    BY <2>3 DEF PrintStats, requestVars
  <2>4. \/ UNCHANGED <<requestVars, printed>> \/ PrintStats
        \/ \E r \in Requests : Handler(r) \/ Sender(r)
    BY DEF Next, Main, Watcher, Server, RefuseStart, AbortStart, Launch, Bind,
           BindFails, MakeServer, StartReturns, AdapterReturned, Flush, Exit, Signal,
           InstallSink, DropSink, StopHTTP, StopGRPC, BeginStop, Drained, GraceExpires,
           EnterServe, EnterStopped, LeaveServe, ServeFails, outcomeVars, processVars, vars
  <2> QED BY <2>1, <2>2, <2>3, <2>4
<1> QED BY <1>1, <1>2, Inductive, RecordOrderHolds, PTL DEF Spec

\* After an orderly stop nothing is in hand, and the closing line has every
\* record that was counted, which are all that reached the pipeline.
THEOREM CollectorIsConclusive == Spec => []Promise!Conclusive
<1>1. ASSUME IInv, CountedFirst, ClosingLineIsFinal PROVE Promise!Conclusive
  <2> DEFINE kept == {r \in Requests : fate[r] = "written"}
             orderly == StartReturned /\ StoppedGracefully
  <2>1. kept \subseteq counted
    BY <1>1 DEF CountedFirst
  <2>2. StartReturned => intakePhase # "open"
    BY <1>1 DEF intakePhase, StartReturned, IInv, TypeOK
  <2>3. orderly => InFlight = {}
    BY <1>1, IInvDrains DEF GracefulStopDrains
  <2>4. exit = "ok" => StartReturned
    BY <1>1 DEF IInv, StartWaitsForAll, StartReturned
  <2>5. printed \subseteq counted
    BY <1>1 DEF CountedFirst
  <2>6. orderly /\ exit = "ok" => printed = counted
    BY <1>1 DEF ClosingLineIsFinal
  <2> QED BY <2>1, <2>2, <2>3, <2>4, <2>5, <2>6 DEF Promise!Conclusive
<1> QED BY <1>1, Inductive, CountedFirstHolds, ClosingLineIsFinalHolds, PTL
=============================================================================
