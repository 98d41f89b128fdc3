--------------------------- MODULE CollectorProofs ---------------------------
(***************************************************************************)
(* What TLAPS proves of Collector, for every set of requests and every set *)
(* of configurations.  IInv is the inductive invariant; its conjuncts say  *)
(* what the watcher's progress has already established.                    *)
(***************************************************************************)
EXTENDS Collector, Naturals, TLAPS

\* Start has not assigned the fields it has not come to yet.
FieldsInOrder ==
  /\ main \in {"build", "bindGRPC", "bindHTTP", "serveGRPC"}
        => serve["grpc"] = "none" /\ serve["http"] = "none"
  /\ main = "serveHTTP" => serve["http"] = "none"

\* A transport that is off has no server, and no request comes over it.
OnlyEnabledServe == \A t \in Transports : t \notin enabled => serve[t] = "none"
RequestsNeedAServer == \A r \in Requests : req[r] # "idle" => serve[via[r]] # "none"

\* Shutdown tells HTTP to stop before gRPC, and nobody before the signal.
StopOrder ==
  /\ main = "build" => watcher = "none"
  /\ watcher \in {"none", "wait"} => stopping = {}
  /\ watcher \in {"drainHTTP", "toGRPC"} => "grpc" \notin stopping
  /\ watcher \notin {"none", "wait"} => ctxDone

\* What each drain has established when the watcher has passed it.
HTTPDrained ==
  watcher \in {"toGRPC", "drainGRPC", "done"} /\ "http" \in stopping /\ ~graceExpired
     => InFlightOver("http") = {}
GRPCDrained == watcher = "done" /\ "grpc" \in stopping => InFlightOver("grpc") = {}

\* Serve returned without an accept error only because of Shutdown; gRPC's
\* only when Shutdown was over.
ServeEndedByStop ==
  /\ \A t \in Transports : serve[t] \in {"closed", "notServed"} => t \in stopping
  /\ serve["grpc"] = "closed" => watcher = "done"

\* Start returns when every Serve goroutine has, and reports their errors.
StartWaitsForAll ==
  /\ StartReturned => \A t \in Transports : serve[t] \notin {"ready", "serving"}
  /\ main \in {"adapter", "stats"} \/ exit = "ok"
        => \A t \in enabled : Returned(t) /\ ~ReturnedError(t)
  /\ main \notin {"build", "flush", "exiting", "exited"} => enabled # {}
  /\ exit = "ok" => main \in {"flush", "exiting", "exited"}

\* The pipeline is up from Launch to Flush.
PipelineOrder ==
  /\ pipeline = "up" => main \notin {"build", "exiting", "exited"}
  /\ pipeline = "none" => main \in {"build", "exited"}
  /\ pipeline = "down" => main \in {"exiting", "exited"}
  /\ \A r \in Requests : fate[r] = "late" => pipeline = "down"

\* A listener is open only while Start still has its Serve goroutine.
BoundBySomeone ==
  /\ bound \subseteq enabled
  /\ \A t \in bound :
       \/ main \in {"bindHTTP", "serveGRPC"}
       \/ main = "serveHTTP" /\ t = "http"
       \/ serve[t] = "ready"
       \/ serve[t] = "serving" /\ t \notin stopping

IInv ==
  /\ TypeOK
  /\ FieldsInOrder
  /\ OnlyEnabledServe
  /\ RequestsNeedAServer
  /\ StopOrder
  /\ HTTPDrained
  /\ GRPCDrained
  /\ ServeEndedByStop
  /\ StartWaitsForAll
  /\ PipelineOrder
  /\ BoundBySomeone

-----------------------------------------------------------------------------
\* A process that has not begun satisfies the invariant.
LEMMA InitIInv == ASSUME Init PROVE IInv
BY ConfigsAssumption
DEF Init, IInv, TypeOK, FieldsInOrder, OnlyEnabledServe, RequestsNeedAServer, StopOrder,
        HTTPDrained, GRPCDrained, ServeEndedByStop, StartWaitsForAll,
        PipelineOrder, BoundBySomeone, Transports, MainSteps,
    ServerStates, WatcherSteps, RequestSteps, Fates, InFlightOver, InFlight,
    StartReturned

\* The main goroutine.
LEMMA MainKeepsIInv ==
  ASSUME IInv, Main PROVE IInv'
<1> USE DEF IInv, TypeOK, FieldsInOrder, OnlyEnabledServe, RequestsNeedAServer, StopOrder,
        HTTPDrained, GRPCDrained, ServeEndedByStop, StartWaitsForAll,
        PipelineOrder, BoundBySomeone, Transports, MainSteps,
        ServerStates, WatcherSteps, RequestSteps, Fates, InFlightOver,
        InFlight, StartReturned, processVars,
        requestVars, outcomeVars, adapterVars, stopVars, serverVars
<1>1. CASE RefuseStart
  BY <1>1 DEF RefuseStart, Returned, ReturnedError
<1>2. CASE AbortStart
  BY <1>2 DEF AbortStart, Returned, ReturnedError
<1>3. CASE Launch
  <2>1. (TypeOK /\ FieldsInOrder /\ OnlyEnabledServe)'
    BY <1>3 DEF Launch, Returned, ReturnedError
  <2>2. (RequestsNeedAServer)'
    BY <1>3 DEF Launch, Returned, ReturnedError
  <2>3. (StopOrder /\ HTTPDrained /\ GRPCDrained)'
    BY <1>3 DEF Launch, Returned, ReturnedError
  <2>4. (ServeEndedByStop /\ StartWaitsForAll)'
    BY <1>3 DEF Launch, Returned, ReturnedError
  <2>5. (PipelineOrder /\ BoundBySomeone)'
    BY <1>3 DEF Launch, Returned, ReturnedError
  <2> QED BY <2>1, <2>2, <2>3, <2>4, <2>5 DEF IInv
<1>4. CASE Bind("grpc", "bindGRPC", "bindHTTP")
  BY <1>4 DEF Bind, Returned, ReturnedError
<1>5. CASE Bind("http", "bindHTTP", "serveGRPC")
  BY <1>5 DEF Bind, Returned, ReturnedError
<1>6. CASE BindFails("grpc", "bindGRPC")
  BY <1>6 DEF BindFails, Returned, ReturnedError
<1>7. CASE BindFails("http", "bindHTTP")
  BY <1>7 DEF BindFails, Returned, ReturnedError
<1>8. CASE MakeServer("grpc", "serveGRPC", "serveHTTP")
  <2>1. (TypeOK /\ FieldsInOrder /\ OnlyEnabledServe)'
    BY <1>8 DEF MakeServer, Returned, ReturnedError
  <2>2. (RequestsNeedAServer)'
    BY <1>8 DEF MakeServer, Returned, ReturnedError
  <2>3. (StopOrder /\ HTTPDrained /\ GRPCDrained)'
    BY <1>8 DEF MakeServer, Returned, ReturnedError
  <2>4. (ServeEndedByStop /\ StartWaitsForAll)'
    BY <1>8 DEF MakeServer, Returned, ReturnedError
  <2>5. (PipelineOrder /\ BoundBySomeone)'
    BY <1>8 DEF MakeServer, Returned, ReturnedError
  <2> QED BY <2>1, <2>2, <2>3, <2>4, <2>5 DEF IInv
<1>9. CASE MakeServer("http", "serveHTTP", "collect")
  <2>1. (TypeOK /\ FieldsInOrder /\ OnlyEnabledServe)'
    BY <1>9 DEF MakeServer, Returned, ReturnedError
  <2>2. (RequestsNeedAServer)'
    BY <1>9 DEF MakeServer, Returned, ReturnedError
  <2>3. (StopOrder /\ HTTPDrained /\ GRPCDrained)'
    BY <1>9 DEF MakeServer, Returned, ReturnedError
  <2>4. (ServeEndedByStop /\ StartWaitsForAll)'
    BY <1>9 DEF MakeServer, Returned, ReturnedError
  <2>5. (PipelineOrder /\ BoundBySomeone)'
    BY <1>9 DEF MakeServer, Returned, ReturnedError
  <2> QED BY <2>1, <2>2, <2>3, <2>4, <2>5 DEF IInv
<1>10. CASE StartReturns
  BY <1>10 DEF StartReturns, Returned, ReturnedError
<1>11. CASE AdapterReturned
  BY <1>11 DEF AdapterReturned, Returned, ReturnedError
<1>12. CASE PrintStats
  BY <1>12 DEF PrintStats, Returned, ReturnedError
<1>13. CASE Flush
  BY <1>13 DEF Flush, Returned, ReturnedError
<1>14. CASE Exit
  BY <1>14 DEF Exit, Returned, ReturnedError
<1> QED
  BY <1>1, <1>2, <1>3, <1>4, <1>5, <1>6, <1>7, <1>8, <1>9, <1>10, <1>11,
     <1>12, <1>13, <1>14 DEF Main

\* The signal and the adapter's goroutine.
LEMMA SignalAndAdapterKeepIInv ==
  ASSUME IInv, Signal \/ InstallSink \/ DropSink PROVE IInv'
<1> USE DEF IInv, TypeOK, FieldsInOrder, OnlyEnabledServe, RequestsNeedAServer, StopOrder,
        HTTPDrained, GRPCDrained, ServeEndedByStop, StartWaitsForAll,
        PipelineOrder, BoundBySomeone, Transports, MainSteps,
        ServerStates, WatcherSteps, RequestSteps, Fates, InFlightOver,
        InFlight, StartReturned, processVars,
        requestVars, outcomeVars, adapterVars, stopVars, serverVars
<1>1. CASE Signal
  BY <1>1 DEF Signal, Returned, ReturnedError
<1>2. CASE InstallSink
  BY <1>2 DEF InstallSink, Returned, ReturnedError
<1>3. CASE DropSink
  <2>1. (TypeOK /\ FieldsInOrder /\ OnlyEnabledServe)'
    BY <1>3 DEF DropSink, Returned, ReturnedError
  <2>2. (RequestsNeedAServer)'
    BY <1>3 DEF DropSink, Returned, ReturnedError
  <2>3. (StopOrder /\ HTTPDrained /\ GRPCDrained)'
    BY <1>3 DEF DropSink, Returned, ReturnedError
  <2>4. (ServeEndedByStop /\ StartWaitsForAll)'
    BY <1>3 DEF DropSink, Returned, ReturnedError
  <2>5. (PipelineOrder /\ BoundBySomeone)'
    BY <1>3 DEF DropSink, Returned, ReturnedError
  <2> QED BY <2>1, <2>2, <2>3, <2>4, <2>5 DEF IInv
<1> QED
  BY <1>1, <1>2, <1>3

\* The watcher.
LEMMA WatcherKeepsIInv ==
  ASSUME IInv, Watcher PROVE IInv'
<1> USE DEF IInv, TypeOK, FieldsInOrder, OnlyEnabledServe, RequestsNeedAServer, StopOrder,
        HTTPDrained, GRPCDrained, ServeEndedByStop, StartWaitsForAll,
        PipelineOrder, BoundBySomeone, Transports, MainSteps,
        ServerStates, WatcherSteps, RequestSteps, Fates, InFlightOver,
        InFlight, StartReturned, processVars,
        requestVars, outcomeVars, adapterVars, stopVars, serverVars
<1>1. CASE StopHTTP
  <2>1. (TypeOK)'
    BY <1>1 DEF StopHTTP, BeginStop, Made, DrainStep, Returned, ReturnedError
  <2>2. (FieldsInOrder /\ OnlyEnabledServe)'
    BY <1>1 DEF StopHTTP, BeginStop, Made, DrainStep, Returned, ReturnedError
  <2>3. (RequestsNeedAServer)'
    BY <1>1 DEF StopHTTP, BeginStop, Made, DrainStep, Returned, ReturnedError
  <2>4. (StopOrder)'
    BY <1>1 DEF StopHTTP, BeginStop, Made, DrainStep, Returned, ReturnedError
  <2>5. (HTTPDrained)'
    BY <1>1 DEF StopHTTP, BeginStop, Made, DrainStep, Returned, ReturnedError
  <2>6. (GRPCDrained)'
    BY <1>1 DEF StopHTTP, BeginStop, Made, DrainStep, Returned, ReturnedError
  <2>7. (ServeEndedByStop)'
    BY <1>1 DEF StopHTTP, BeginStop, Made, DrainStep, Returned, ReturnedError
  <2>8. (StartWaitsForAll)'
    BY <1>1 DEF StopHTTP, BeginStop, Made, DrainStep, Returned, ReturnedError
  <2>9. (PipelineOrder)'
    BY <1>1 DEF StopHTTP, BeginStop, Made, DrainStep, Returned, ReturnedError
  <2>10. (BoundBySomeone)'
    BY <1>1 DEF StopHTTP, BeginStop, Made, DrainStep, Returned, ReturnedError
  <2> QED BY <2>1, <2>2, <2>3, <2>4, <2>5, <2>6, <2>7, <2>8, <2>9, <2>10 DEF IInv
<1>2. CASE StopGRPC
  <2>1. (TypeOK)'
    BY <1>2 DEF StopGRPC, BeginStop, Made, DrainStep, Returned, ReturnedError
  <2>2. (FieldsInOrder /\ OnlyEnabledServe)'
    BY <1>2 DEF StopGRPC, BeginStop, Made, DrainStep, Returned, ReturnedError
  <2>3. (RequestsNeedAServer)'
    BY <1>2 DEF StopGRPC, BeginStop, Made, DrainStep, Returned, ReturnedError
  <2>4. (StopOrder)'
    BY <1>2 DEF StopGRPC, BeginStop, Made, DrainStep, Returned, ReturnedError
  <2>5. (HTTPDrained)'
    BY <1>2 DEF StopGRPC, BeginStop, Made, DrainStep, Returned, ReturnedError
  <2>6. (GRPCDrained)'
    BY <1>2 DEF StopGRPC, BeginStop, Made, DrainStep, Returned, ReturnedError
  <2>7. (ServeEndedByStop)'
    BY <1>2 DEF StopGRPC, BeginStop, Made, DrainStep, Returned, ReturnedError
  <2>8. (StartWaitsForAll)'
    BY <1>2 DEF StopGRPC, BeginStop, Made, DrainStep, Returned, ReturnedError
  <2>9. (PipelineOrder)'
    BY <1>2 DEF StopGRPC, BeginStop, Made, DrainStep, Returned, ReturnedError
  <2>10. (BoundBySomeone)'
    BY <1>2 DEF StopGRPC, BeginStop, Made, DrainStep, Returned, ReturnedError
  <2> QED BY <2>1, <2>2, <2>3, <2>4, <2>5, <2>6, <2>7, <2>8, <2>9, <2>10 DEF IInv
<1>3. CASE Drained("http", "toGRPC")
  BY <1>3 DEF Drained, DrainStep, Returned, ReturnedError
<1>4. CASE Drained("grpc", "done")
  BY <1>4 DEF Drained, DrainStep, Returned, ReturnedError
<1>5. CASE GraceExpires
  BY <1>5 DEF GraceExpires, Returned, ReturnedError
<1> QED
  BY <1>1, <1>2, <1>3, <1>4, <1>5 DEF Watcher

\* The Serve goroutines.
LEMMA ServerKeepsIInv ==
  ASSUME NEW t \in Transports, IInv, Server(t) PROVE IInv'
<1> USE DEF IInv, TypeOK, FieldsInOrder, OnlyEnabledServe, RequestsNeedAServer, StopOrder,
        HTTPDrained, GRPCDrained, ServeEndedByStop, StartWaitsForAll,
        PipelineOrder, BoundBySomeone, Transports, MainSteps,
        ServerStates, WatcherSteps, RequestSteps, Fates, InFlightOver,
        InFlight, StartReturned, processVars,
        requestVars, outcomeVars, adapterVars, stopVars, serverVars
<1>1. CASE EnterServe(t)
  <2>1. (TypeOK)'
    BY <1>1 DEF EnterServe, Returned, ReturnedError
  <2>2. (FieldsInOrder /\ OnlyEnabledServe)'
    BY <1>1 DEF EnterServe, Returned, ReturnedError
  <2>3. (RequestsNeedAServer)'
    BY <1>1 DEF EnterServe, Returned, ReturnedError
  <2>4. (StopOrder)'
    BY <1>1 DEF EnterServe, Returned, ReturnedError
  <2>5. (HTTPDrained)'
    BY <1>1 DEF EnterServe, Returned, ReturnedError
  <2>6. (GRPCDrained)'
    BY <1>1 DEF EnterServe, Returned, ReturnedError
  <2>7. (ServeEndedByStop)'
    BY <1>1 DEF EnterServe, Returned, ReturnedError
  <2>8. (StartWaitsForAll)'
    BY <1>1 DEF EnterServe, Returned, ReturnedError
  <2>9. (PipelineOrder)'
    BY <1>1 DEF EnterServe, Returned, ReturnedError
  <2>10. (BoundBySomeone)'
    BY <1>1 DEF EnterServe, Returned, ReturnedError
  <2> QED BY <2>1, <2>2, <2>3, <2>4, <2>5, <2>6, <2>7, <2>8, <2>9, <2>10 DEF IInv
<1>2. CASE EnterStopped(t)
  <2>1. (TypeOK)'
    BY <1>2 DEF EnterStopped, Returned, ReturnedError
  <2>2. (FieldsInOrder /\ OnlyEnabledServe)'
    BY <1>2 DEF EnterStopped, Returned, ReturnedError
  <2>3. (RequestsNeedAServer)'
    BY <1>2 DEF EnterStopped, Returned, ReturnedError
  <2>4. (StopOrder)'
    BY <1>2 DEF EnterStopped, Returned, ReturnedError
  <2>5. (HTTPDrained)'
    BY <1>2 DEF EnterStopped, Returned, ReturnedError
  <2>6. (GRPCDrained)'
    BY <1>2 DEF EnterStopped, Returned, ReturnedError
  <2>7. (ServeEndedByStop)'
    BY <1>2 DEF EnterStopped, Returned, ReturnedError
  <2>8. (StartWaitsForAll)'
    BY <1>2 DEF EnterStopped, Returned, ReturnedError
  <2>9. (PipelineOrder)'
    BY <1>2 DEF EnterStopped, Returned, ReturnedError
  <2>10. (BoundBySomeone)'
    BY <1>2 DEF EnterStopped, Returned, ReturnedError
  <2> QED BY <2>1, <2>2, <2>3, <2>4, <2>5, <2>6, <2>7, <2>8, <2>9, <2>10 DEF IInv
<1>3. CASE LeaveServe(t)
  <2>1. (TypeOK)'
    BY <1>3 DEF LeaveServe, Returned, ReturnedError
  <2>2. (FieldsInOrder /\ OnlyEnabledServe)'
    BY <1>3 DEF LeaveServe, Returned, ReturnedError
  <2>3. (RequestsNeedAServer)'
    BY <1>3 DEF LeaveServe, Returned, ReturnedError
  <2>4. (StopOrder)'
    BY <1>3 DEF LeaveServe, Returned, ReturnedError
  <2>5. (HTTPDrained)'
    BY <1>3 DEF LeaveServe, Returned, ReturnedError
  <2>6. (GRPCDrained)'
    BY <1>3 DEF LeaveServe, Returned, ReturnedError
  <2>7. (ServeEndedByStop)'
    BY <1>3 DEF LeaveServe, Returned, ReturnedError
  <2>8. (StartWaitsForAll)'
    BY <1>3 DEF LeaveServe, Returned, ReturnedError
  <2>9. (PipelineOrder)'
    BY <1>3 DEF LeaveServe, Returned, ReturnedError
  <2>10. (BoundBySomeone)'
    BY <1>3 DEF LeaveServe, Returned, ReturnedError
  <2> QED BY <2>1, <2>2, <2>3, <2>4, <2>5, <2>6, <2>7, <2>8, <2>9, <2>10 DEF IInv
<1>4. CASE ServeFails(t)
  <2>1. (TypeOK)'
    BY <1>4 DEF ServeFails, Returned, ReturnedError
  <2>2. (FieldsInOrder /\ OnlyEnabledServe)'
    BY <1>4 DEF ServeFails, Returned, ReturnedError
  <2>3. (RequestsNeedAServer)'
    BY <1>4 DEF ServeFails, Returned, ReturnedError
  <2>4. (StopOrder)'
    BY <1>4 DEF ServeFails, Returned, ReturnedError
  <2>5. (HTTPDrained)'
    BY <1>4 DEF ServeFails, Returned, ReturnedError
  <2>6. (GRPCDrained)'
    BY <1>4 DEF ServeFails, Returned, ReturnedError
  <2>7. (ServeEndedByStop)'
    BY <1>4 DEF ServeFails, Returned, ReturnedError
  <2>8. (StartWaitsForAll)'
    BY <1>4 DEF ServeFails, Returned, ReturnedError
  <2>9. (PipelineOrder)'
    BY <1>4 DEF ServeFails, Returned, ReturnedError
  <2>10. (BoundBySomeone)'
    BY <1>4 DEF ServeFails, Returned, ReturnedError
  <2> QED BY <2>1, <2>2, <2>3, <2>4, <2>5, <2>6, <2>7, <2>8, <2>9, <2>10 DEF IInv
<1> QED
  BY <1>1, <1>2, <1>3, <1>4 DEF Server

\* A request's handler.
LEMMA HandlerKeepsIInv ==
  ASSUME NEW r \in Requests, IInv, Handler(r) PROVE IInv'
<1> USE DEF IInv, TypeOK, FieldsInOrder, OnlyEnabledServe, RequestsNeedAServer, StopOrder,
        HTTPDrained, GRPCDrained, ServeEndedByStop, StartWaitsForAll,
        PipelineOrder, BoundBySomeone, Transports, MainSteps,
        ServerStates, WatcherSteps, RequestSteps, Fates, InFlightOver,
        InFlight, StartReturned, processVars,
        requestVars, outcomeVars, adapterVars, stopVars, serverVars
<1>1. CASE Count(r)
  BY <1>1 DEF Count, Returned, ReturnedError
<1>2. CASE ReadSink(r)
  BY <1>2 DEF ReadSink, Returned, ReturnedError
<1>3. CASE Write(r)
  <2>1. (TypeOK)'
    BY <1>3 DEF Write, Returned, ReturnedError
  <2>2. (FieldsInOrder /\ OnlyEnabledServe)'
    BY <1>3 DEF Write, Returned, ReturnedError
  <2>3. (RequestsNeedAServer)'
    BY <1>3 DEF Write, Returned, ReturnedError
  <2>4. (StopOrder)'
    BY <1>3 DEF Write, Returned, ReturnedError
  <2>5. (HTTPDrained)'
    BY <1>3 DEF Write, Returned, ReturnedError
  <2>6. (GRPCDrained)'
    BY <1>3 DEF Write, Returned, ReturnedError
  <2>7. (ServeEndedByStop)'
    BY <1>3 DEF Write, Returned, ReturnedError
  <2>8. (StartWaitsForAll)'
    BY <1>3 DEF Write, Returned, ReturnedError
  <2>9. (PipelineOrder)'
    <3>1. serve[via[r]] # "none" /\ via[r] \in Transports
      BY <1>3 DEF Write
    <3>2. pipeline # "none"
      BY <1>3, <3>1 DEF Write, Alive
    <3> QED BY <1>3, <3>2 DEF Write
  <2>10. (BoundBySomeone)'
    BY <1>3 DEF Write, Returned, ReturnedError
  <2> QED BY <2>1, <2>2, <2>3, <2>4, <2>5, <2>6, <2>7, <2>8, <2>9, <2>10 DEF IInv
<1>4. CASE Answer(r)
  BY <1>4 DEF Answer, Returned, ReturnedError
<1> QED
  BY <1>1, <1>2, <1>3, <1>4 DEF Handler

\* A request's sender.
LEMMA SenderKeepsIInv ==
  ASSUME NEW r \in Requests, IInv, Sender(r) PROVE IInv'
<1> USE DEF IInv, TypeOK, FieldsInOrder, OnlyEnabledServe, RequestsNeedAServer, StopOrder,
        HTTPDrained, GRPCDrained, ServeEndedByStop, StartWaitsForAll,
        PipelineOrder, BoundBySomeone, Transports, MainSteps,
        ServerStates, WatcherSteps, RequestSteps, Fates, InFlightOver,
        InFlight, StartReturned, processVars,
        requestVars, outcomeVars, adapterVars, stopVars, serverVars
<1>1. ASSUME NEW t \in Transports, Open(r, t) PROVE IInv'
  <2>1. (TypeOK)'
    BY <1>1 DEF Open, TakesRequests, DrainStep, Returned, ReturnedError
  <2>2. (FieldsInOrder /\ OnlyEnabledServe)'
    BY <1>1 DEF Open, TakesRequests, DrainStep, Returned, ReturnedError
  <2>3. (RequestsNeedAServer)'
    BY <1>1 DEF Open, TakesRequests, DrainStep, Returned, ReturnedError
  <2>4. (StopOrder)'
    BY <1>1 DEF Open, TakesRequests, DrainStep, Returned, ReturnedError
  <2>5. (HTTPDrained)'
    BY <1>1 DEF Open, TakesRequests, DrainStep, Returned, ReturnedError
  <2>6. (GRPCDrained)'
    BY <1>1 DEF Open, TakesRequests, DrainStep, Returned, ReturnedError
  <2>7. (ServeEndedByStop)'
    BY <1>1 DEF Open, TakesRequests, DrainStep, Returned, ReturnedError
  <2>8. (StartWaitsForAll)'
    BY <1>1 DEF Open, TakesRequests, DrainStep, Returned, ReturnedError
  <2>9. (PipelineOrder)'
    BY <1>1 DEF Open, TakesRequests, DrainStep, Returned, ReturnedError
  <2>10. (BoundBySomeone)'
    BY <1>1 DEF Open, TakesRequests, DrainStep, Returned, ReturnedError
  <2> QED BY <2>1, <2>2, <2>3, <2>4, <2>5, <2>6, <2>7, <2>8, <2>9, <2>10 DEF IInv
<1>2. CASE Reject(r)
  BY <1>2 DEF Reject, Returned, ReturnedError
<1>3. CASE Decode(r)
  BY <1>3 DEF Decode, Returned, ReturnedError
<1> QED BY <1>1, <1>2, <1>3 DEF Sender

\* A step of nobody.
LEMMA StutterKeepsIInv == ASSUME IInv, UNCHANGED vars PROVE IInv'
BY DEF vars, processVars, requestVars, outcomeVars, adapterVars, stopVars,
    serverVars, IInv, TypeOK, FieldsInOrder, OnlyEnabledServe, RequestsNeedAServer, StopOrder,
        HTTPDrained, GRPCDrained, ServeEndedByStop, StartWaitsForAll,
        PipelineOrder, BoundBySomeone,
    InFlightOver, InFlight, StartReturned, Returned, ReturnedError

\* Every step of every goroutine keeps the invariant.
LEMMA NextKeepsIInv == ASSUME IInv, [Next]_vars PROVE IInv'
BY MainKeepsIInv, SignalAndAdapterKeepIInv, WatcherKeepsIInv, ServerKeepsIInv,
   HandlerKeepsIInv, SenderKeepsIInv, StutterKeepsIInv
DEF Next

\* The inductive invariant holds of every behaviour.
THEOREM Inductive == Spec => []IInv
BY InitIInv, NextKeepsIInv, PTL DEF Spec

-----------------------------------------------------------------------------
(* What follows from the inductive invariant alone.                        *)

\* Every variable stays in its type, whatever the scheduler does.
THEOREM TypeCorrect == Spec => []TypeOK
<1>1. IInv => TypeOK BY DEF IInv
<1> QED BY <1>1, Inductive, PTL

\* Each request in flight came over a transport whose drain has ended.
LEMMA IInvDrains == ASSUME IInv PROVE GracefulStopDrains
<1> SUFFICES ASSUME StoppedGracefully, NEW r \in InFlight PROVE FALSE
  BY DEF GracefulStopDrains
<1> USE DEF IInv, TypeOK, InFlight, Transports
<1>1. req[r] # "idle" /\ via[r] \in Transports
  OBVIOUS
<1>2. via[r] \in stopping
  BY <1>1 DEF RequestsNeedAServer, OnlyEnabledServe, StoppedGracefully
<1>3. watcher = "done"
  BY DEF StoppedGracefully, ServeEndedByStop
<1>4. InFlightOver(via[r]) = {}
  <2>1. CASE via[r] = "http"
    BY <1>2, <1>3, <2>1 DEF HTTPDrained, StoppedGracefully
  <2>2. CASE via[r] = "grpc"
    BY <1>2, <1>3, <2>2 DEF GRPCDrained
  <2> QED BY <1>1, <2>1, <2>2
<1> QED BY <1>4 DEF InFlightOver

\* A graceful stop leaves no request in flight, on either transport.
THEOREM GracefulStopDrainsHolds == Spec => []GracefulStopDrains
BY IInvDrains, Inductive, PTL

\* With gRPC on, Run ends without an error only through a graceful stop, or
\* one that cost HTTP its grace.
THEOREM CleanExitIsGracefulHolds == Spec => []CleanExitIsGraceful
<1>1. IInv => CleanExitIsGraceful
  <2> SUFFICES ASSUME IInv, exit = "ok", "grpc" \in enabled, ~graceExpired
               PROVE  StoppedGracefully
    BY DEF CleanExitIsGraceful
  <2>1. \A t \in enabled : Returned(t) /\ ~ReturnedError(t)
    BY DEF IInv, StartWaitsForAll
  <2>2. serve["grpc"] = "closed"
    BY <2>1 DEF Returned, ReturnedError
  <2>3. enabled \subseteq stopping
    BY <2>1, ConfigsAssumption
    DEF IInv, TypeOK, ServeEndedByStop, Returned, ReturnedError
  <2> QED BY <2>2, <2>3 DEF StoppedGracefully
<1> QED BY <1>1, Inductive, PTL

\* Start returns nil only after the signal, and for no server that died.
THEOREM CleanReturnOnlyOnSignalHolds == Spec => []CleanReturnOnlyOnSignal
<1>1. IInv => CleanReturnOnlyOnSignal
  <2>1. ASSUME IInv, main \in {"adapter", "stats"} PROVE ctxDone
    <3>1. PICK t \in Transports : t \in enabled
      BY <2>1, ConfigsAssumption DEF IInv, TypeOK, StartWaitsForAll
    <3>2. t \in stopping
      BY <2>1, <3>1 DEF IInv, TypeOK, StartWaitsForAll, ServeEndedByStop, Returned, ReturnedError
    <3> QED BY <2>1, <3>2 DEF IInv, TypeOK, StopOrder, WatcherSteps
  <2>2. IInv /\ (main \in {"adapter", "stats"} \/ exit = "ok") => \A t \in enabled : ~ReturnedError(t)
    BY DEF IInv, StartWaitsForAll
  <2> QED BY <2>1, <2>2 DEF CleanReturnOnlyOnSignal
<1> QED BY <1>1, Inductive, PTL

\* No listener outlives Start.
THEOREM ListenersReleasedHolds == Spec => []ListenersReleased
<1>1. IInv => ListenersReleased
  BY DEF IInv, TypeOK, ListenersReleased, StartReturned, StartWaitsForAll,
         BoundBySomeone
<1> QED BY <1>1, Inductive, PTL

-----------------------------------------------------------------------------
(* Two properties about the past need one step more: whether the stop was  *)
(* graceful is decided when Start returns.                                 *)

\* A step after Start's return cannot make the stop graceful.
LEMMA GracefulIsDecided ==
  ASSUME IInv, [Next]_vars, StartReturned, StoppedGracefully'
  PROVE  StoppedGracefully
<1>1. serve' = serve /\ enabled' = enabled
  <2>1. \A t \in Transports : serve[t] \notin {"ready", "serving"}
    BY DEF IInv, StartWaitsForAll
  <2> QED
    BY <2>1
    DEF Next, Main, Watcher, Server, Handler, Sender, RefuseStart, AbortStart,
    Launch, Bind, BindFails, MakeServer, StartReturns, AdapterReturned,
    PrintStats, Flush, Exit, Signal, InstallSink, DropSink, StopHTTP, StopGRPC,
    BeginStop, Drained, GraceExpires, EnterServe, EnterStopped, LeaveServe,
    ServeFails, Open, Reject, Decode, Count, ReadSink, Write, Answer,
    processVars, requestVars, vars, outcomeVars, adapterVars, stopVars,
    serverVars, StartReturned, Server, Transports
<1>2. watcher = "done"
  BY <1>1 DEF IInv, ServeEndedByStop, StoppedGracefully
<1>3. stopping' = stopping /\ graceExpired' = graceExpired
  BY <1>2
  DEF Next, Main, Watcher, Server, Handler, Sender, RefuseStart, AbortStart,
    Launch, Bind, BindFails, MakeServer, StartReturns, AdapterReturned,
    PrintStats, Flush, Exit, Signal, InstallSink, DropSink, StopHTTP, StopGRPC,
    BeginStop, Drained, GraceExpires, EnterServe, EnterStopped, LeaveServe,
    ServeFails, Open, Reject, Decode, Count, ReadSink, Write, Answer,
    processVars, requestVars, vars, outcomeVars, adapterVars, stopVars,
    serverVars, StartReturned, DrainStep
<1> QED BY <1>1, <1>3 DEF StoppedGracefully

\* An event reaches a torn-down pipeline only if the stop was not graceful.
THEOREM LateWritesHaveACauseHolds == Spec => []LateWritesHaveACause
<1>1. Init => LateWritesHaveACause
  BY DEF Init, LateWritesHaveACause
<1>2. ASSUME IInv, LateWritesHaveACause, [Next]_vars PROVE LateWritesHaveACause'
  <2> SUFFICES ASSUME NEW r \in Requests, fate'[r] = "late", StoppedGracefully'
               PROVE  FALSE
    BY DEF LateWritesHaveACause
  <2>1. CASE fate[r] = "late"
    <3>1. StartReturned
      BY <1>2, <2>1 DEF IInv, PipelineOrder, StartReturned
    <3> QED BY <1>2, <2>1, <3>1, GracefulIsDecided DEF LateWritesHaveACause
  <2>2. CASE fate[r] # "late"
    <3>1. Write(r)
      BY <1>2, <2>2
      DEF Next, Main, Watcher, Server, Handler, Sender, RefuseStart, AbortStart,
    Launch, Bind, BindFails, MakeServer, StartReturns, AdapterReturned,
    PrintStats, Flush, Exit, Signal, InstallSink, DropSink, StopHTTP, StopGRPC,
    BeginStop, Drained, GraceExpires, EnterServe, EnterStopped, LeaveServe,
    ServeFails, Open, Reject, Decode, Count, ReadSink, Write, Answer,
    processVars, requestVars, vars, outcomeVars, adapterVars, stopVars,
    serverVars, IInv, TypeOK
    <3>2. UNCHANGED <<serve, enabled, stopping, graceExpired>> /\ r \in InFlight
      BY <3>1 DEF Write, processVars, serverVars, stopVars, InFlight
    <3>3. GracefulStopDrains
      BY <1>2, IInvDrains
    <3> QED BY <3>2, <3>3 DEF StoppedGracefully, GracefulStopDrains
  <2> QED BY <2>1, <2>2
<1> QED BY <1>1, <1>2, Inductive, PTL DEF Spec

\* After a graceful stop the closing line counts every record.
THEOREM ClosingLineIsFinalHolds == Spec => []ClosingLineIsFinal
<1>1. Init => ClosingLineIsFinal
  BY DEF Init, ClosingLineIsFinal
<1>2. ASSUME IInv, ClosingLineIsFinal, [Next]_vars PROVE ClosingLineIsFinal'
  <2> SUFFICES ASSUME exit' = "ok", StoppedGracefully' PROVE printed' = counted'
    BY DEF ClosingLineIsFinal
  <2>1. CASE PrintStats
    BY <2>1 DEF PrintStats, requestVars
  <2>2. CASE ~PrintStats
    <3>1. exit = "ok" /\ printed' = printed
      BY <1>2, <2>2
      DEF Next, Main, Watcher, Server, Handler, Sender, RefuseStart, AbortStart,
    Launch, Bind, BindFails, MakeServer, StartReturns, AdapterReturned,
    PrintStats, Flush, Exit, Signal, InstallSink, DropSink, StopHTTP, StopGRPC,
    BeginStop, Drained, GraceExpires, EnterServe, EnterStopped, LeaveServe,
    ServeFails, Open, Reject, Decode, Count, ReadSink, Write, Answer,
    processVars, requestVars, vars, outcomeVars, adapterVars, stopVars,
    serverVars, IInv, TypeOK
    <3>2. StoppedGracefully
      BY <1>2, <3>1, GracefulIsDecided DEF IInv, StartWaitsForAll, StartReturned
    <3>3. InFlight = {}
      BY <1>2, <3>2, IInvDrains DEF GracefulStopDrains
    <3>4. counted' = counted
      BY <1>2, <3>3
      DEF Next, Main, Watcher, Server, Handler, Sender, RefuseStart, AbortStart,
    Launch, Bind, BindFails, MakeServer, StartReturns, AdapterReturned,
    PrintStats, Flush, Exit, Signal, InstallSink, DropSink, StopHTTP, StopGRPC,
    BeginStop, Drained, GraceExpires, EnterServe, EnterStopped, LeaveServe,
    ServeFails, Open, Reject, Decode, Count, ReadSink, Write, Answer,
    processVars, requestVars, vars, outcomeVars, adapterVars, stopVars,
    serverVars, InFlight
    <3> QED BY <3>1, <3>2, <3>4, <1>2 DEF ClosingLineIsFinal
  <2> QED BY <2>1, <2>2
<1> QED BY <1>1, <1>2, Inductive, PTL DEF Spec

\* The sink is there while the adapter runs, which it does from Launch until
\* the context is done; without Launch nobody serves.
SinkWhileRunning ==
  /\ adapter = "none" => /\ main \in {"build", "flush", "exiting", "exited"}
                         /\ \A t \in Transports : serve[t] = "none"
  /\ adapter = "running" => sink
  /\ adapter = "done" => ctxDone

\* A record is refused only before the adapter runs or after the context is done.
THEOREM RefusedOnlyOutsideRunHolds == Spec => RefusedOnlyOutsideRun
<1> DEFINE Outside(r) == fate'[r] = "refused" /\ fate[r] # "refused" => adapter = "starting" \/ ctxDone
<1>1. Init => SinkWhileRunning
  BY DEF Init, SinkWhileRunning
<1>2. IInv /\ SinkWhileRunning /\ [Next]_vars => SinkWhileRunning'
  BY DEF IInv, TypeOK, Transports, SinkWhileRunning, Next, Main, Watcher, Server, Handler, Sender, RefuseStart, AbortStart,
    Launch, Bind, BindFails, MakeServer, StartReturns, AdapterReturned,
    PrintStats, Flush, Exit, Signal, InstallSink, DropSink, StopHTTP, StopGRPC,
    BeginStop, Drained, GraceExpires, EnterServe, EnterStopped, LeaveServe,
    ServeFails, Open, Reject, Decode, Count, ReadSink, Write, Answer,
    processVars, requestVars, vars, outcomeVars, adapterVars, stopVars,
    serverVars
<1>3. ASSUME IInv, SinkWhileRunning, [Next]_vars, NEW r \in Requests PROVE Outside(r)
  <2> SUFFICES ASSUME fate'[r] = "refused", fate[r] # "refused" PROVE adapter = "starting" \/ ctxDone
    OBVIOUS
  <2>1. ReadSink(r) /\ ~sink
    BY <1>3
    DEF IInv, TypeOK, Next, Main, Watcher, Server, Handler, Sender, RefuseStart, AbortStart,
    Launch, Bind, BindFails, MakeServer, StartReturns, AdapterReturned,
    PrintStats, Flush, Exit, Signal, InstallSink, DropSink, StopHTTP, StopGRPC,
    BeginStop, Drained, GraceExpires, EnterServe, EnterStopped, LeaveServe,
    ServeFails, Open, Reject, Decode, Count, ReadSink, Write, Answer,
    processVars, requestVars, vars, outcomeVars, adapterVars, stopVars,
    serverVars
  <2>2. serve[via[r]] # "none" /\ via[r] \in Transports
    BY <1>3, <2>1 DEF ReadSink, IInv, TypeOK, RequestsNeedAServer
  <2> QED BY <1>3, <2>1, <2>2 DEF SinkWhileRunning, IInv, TypeOK
<1>4. IInv /\ SinkWhileRunning /\ [Next]_vars => [\A r \in Requests : Outside(r)]_vars
  BY <1>3
<1> QED BY <1>1, <1>2, <1>4, Inductive, PTL DEF Spec, RefusedOnlyOutsideRun

-----------------------------------------------------------------------------
(* Nothing is done twice.                                                  *)

\* How far each goroutine and each request has come.
mainRank == [build |-> 0, bindGRPC |-> 1, bindHTTP |-> 2, serveGRPC |-> 3, serveHTTP |-> 4,
             collect |-> 5, adapter |-> 6, stats |-> 7, flush |-> 8, exiting |-> 9, exited |-> 10]
adapterRank == [none |-> 0, starting |-> 1, running |-> 2, done |-> 3]
watcherRank == [none |-> 0, wait |-> 1, drainHTTP |-> 2, toGRPC |-> 3, drainGRPC |-> 4, done |-> 5]
serverRank  == [none |-> 0, ready |-> 1, serving |-> 2, closed |-> 3, failed |-> 3, notServed |-> 3]
requestRank == [idle |-> 0, open |-> 1, decoded |-> 2, claimed |-> 3, holding |-> 4,
                handled |-> 5, answered |-> 6]

\* Nobody goes back ...
NobodyGoesBack ==
  /\ mainRank[main] <= mainRank[main']
  /\ adapterRank[adapter] <= adapterRank[adapter']
  /\ watcherRank[watcher] <= watcherRank[watcher']
  /\ \A t \in Transports : serverRank[serve[t]] <= serverRank[serve'[t]]
  /\ \A r \in Requests : requestRank[req[r]] <= requestRank[req'[r]]
  /\ ctxDone => ctxDone'

\* ... and every step takes somebody on.
SomebodyGoesOn ==
  \/ mainRank[main] < mainRank[main']
  \/ adapterRank[adapter] < adapterRank[adapter']
  \/ watcherRank[watcher] < watcherRank[watcher']
  \/ \E t \in Transports : serverRank[serve[t]] < serverRank[serve'[t]]
  \/ \E r \in Requests : requestRank[req[r]] < requestRank[req'[r]]
  \/ ~ctxDone /\ ctxDone'

\* Ranks are numbers, so that who stays has not gone back.
LEMMA StayingIsNotGoingBack ==
  ASSUME TypeOK
  PROVE  /\ mainRank[main] <= mainRank[main]
         /\ adapterRank[adapter] <= adapterRank[adapter]
         /\ watcherRank[watcher] <= watcherRank[watcher]
         /\ \A t \in Transports : serverRank[serve[t]] <= serverRank[serve[t]]
         /\ \A r \in Requests : requestRank[req[r]] <= requestRank[req[r]]
BY DEF TypeOK, mainRank, adapterRank, watcherRank, serverRank, requestRank, MainSteps,
       WatcherSteps, ServerStates, RequestSteps

\* The adapter's goroutine is started by Launch.
LaunchedOnce == main = "build" => adapter = "none"

LEMMA LaunchedOnceHolds == Spec => []LaunchedOnce
<1>1. Init => LaunchedOnce
  BY DEF Init, LaunchedOnce
<1>2. LaunchedOnce /\ [Next]_vars => LaunchedOnce'
  BY DEF LaunchedOnce, Next, Main, Watcher, Server, Handler, Sender, RefuseStart, AbortStart,
    Launch, Bind, BindFails, MakeServer, StartReturns, AdapterReturned,
    PrintStats, Flush, Exit, Signal, InstallSink, DropSink, StopHTTP, StopGRPC,
    BeginStop, Drained, GraceExpires, EnterServe, EnterStopped, LeaveServe,
    ServeFails, Open, Reject, Decode, Count, ReadSink, Write, Answer,
    processVars, vars, outcomeVars, adapterVars
<1> QED BY <1>1, <1>2, PTL DEF Spec

LEMMA MainGoesOn ==
  ASSUME IInv, LaunchedOnce, Main PROVE NobodyGoesBack /\ SomebodyGoesOn
<1>1. mainRank[main] <= mainRank[main'] /\ mainRank[main] < mainRank[main']
  BY DEF Main, RefuseStart, AbortStart, Launch, Bind, BindFails, MakeServer, StartReturns,
         AdapterReturned, PrintStats, Flush, Exit, mainRank
<1>2. UNCHANGED req /\ (ctxDone => ctxDone')
  BY DEF Main, RefuseStart, AbortStart, Launch, Bind, BindFails, MakeServer, StartReturns,
         AdapterReturned, PrintStats, Flush, Exit, requestVars
<1>3. /\ adapterRank[adapter] <= adapterRank[adapter']
      /\ watcherRank[watcher] <= watcherRank[watcher']
  <2>1. CASE Launch
    BY <2>1 DEF Launch, LaunchedOnce, IInv, StopOrder, adapterRank, watcherRank
  <2>2. CASE ~Launch
    <3>1. UNCHANGED <<adapter, watcher>>
      BY <2>2 DEF Main, RefuseStart, AbortStart, Bind, BindFails, MakeServer, StartReturns,
             AdapterReturned, PrintStats, Flush, Exit, adapterVars, stopVars
    <3> QED BY <3>1, StayingIsNotGoingBack DEF IInv
  <2> QED BY <2>1, <2>2
<1>4. ASSUME NEW t \in Transports PROVE serverRank[serve[t]] <= serverRank[serve'[t]]
  <2>1. serve'[t] = serve[t] \/ (serve[t] = "none" /\ serve'[t] = "ready")
    BY DEF Main, RefuseStart, AbortStart, Launch, Bind, BindFails, MakeServer, StartReturns,
           AdapterReturned, PrintStats, Flush, Exit, serverVars, IInv, TypeOK, FieldsInOrder,
           Transports
  <2>2. serverRank["none"] <= serverRank["ready"]
    BY DEF serverRank
  <2> QED BY <2>1, <2>2, StayingIsNotGoingBack DEF IInv
<1> QED BY <1>1, <1>2, <1>3, <1>4, StayingIsNotGoingBack DEF IInv, NobodyGoesBack, SomebodyGoesOn

LEMMA BackgroundGoesOn ==
  ASSUME IInv, \/ Signal \/ InstallSink \/ DropSink \/ Watcher
               \/ \E t \in Transports : Server(t)
  PROVE  NobodyGoesBack /\ (SomebodyGoesOn \/ UNCHANGED vars)
<1>1. CASE Signal
  <2>1. UNCHANGED <<main, adapter, watcher, serve, req>> /\ ctxDone' /\ ctxDone \in BOOLEAN
    BY <1>1 DEF Signal, adapterVars, stopVars, serverVars, requestVars, IInv, TypeOK
  <2>2. ctxDone' = ctxDone => UNCHANGED vars
    BY <1>1 DEF Signal, vars, processVars
  <2> QED BY <1>1, <2>1, <2>2, StayingIsNotGoingBack DEF Signal, IInv, NobodyGoesBack, SomebodyGoesOn
<1>2. CASE InstallSink \/ DropSink
  <2>1. /\ UNCHANGED <<main, watcher, serve, req, ctxDone>>
        /\ \/ adapter = "starting" /\ adapter' = "running"
           \/ adapter = "running" /\ adapter' = "done"
    BY <1>2 DEF InstallSink, DropSink, stopVars, serverVars, requestVars
  <2>2. /\ adapterRank[adapter] <= adapterRank[adapter']
        /\ adapterRank[adapter] < adapterRank[adapter']
    BY <2>1 DEF adapterRank
  <2> QED BY <2>1, <2>2, StayingIsNotGoingBack DEF IInv, NobodyGoesBack, SomebodyGoesOn
<1>3. CASE Watcher
  <2>1. UNCHANGED <<main, adapter, serve, req, ctxDone>>
    BY <1>3 DEF Watcher, StopHTTP, StopGRPC, BeginStop, Drained, GraceExpires, adapterVars,
           serverVars, requestVars
  <2>2. /\ watcherRank[watcher] <= watcherRank[watcher']
        /\ watcherRank[watcher] < watcherRank[watcher']
    BY <1>3 DEF Watcher, StopHTTP, StopGRPC, BeginStop, Drained, GraceExpires, DrainStep,
           watcherRank
  <2> QED BY <2>1, <2>2, StayingIsNotGoingBack DEF IInv, NobodyGoesBack, SomebodyGoesOn
<1>4. ASSUME NEW t \in Transports, Server(t)
      PROVE  NobodyGoesBack /\ SomebodyGoesOn
  <2>1. /\ UNCHANGED <<main, adapter, watcher, req, ctxDone>>
        /\ \E s : serve' = [serve EXCEPT ![t] = s]
        /\ \/ serve[t] = "ready" /\ serve'[t] \in {"serving", "notServed"}
           \/ serve[t] = "serving" /\ serve'[t] \in {"closed", "failed"}
    BY <1>4 DEF Server, EnterServe, EnterStopped, LeaveServe, ServeFails, adapterVars, stopVars,
           requestVars, IInv, TypeOK
  <2>2. /\ serverRank[serve[t]] < serverRank[serve'[t]]
        /\ serverRank[serve[t]] <= serverRank[serve'[t]]
    BY <2>1 DEF serverRank
  <2>3. \A u \in Transports \ {t} : serve'[u] = serve[u]
    BY <2>1 DEF IInv, TypeOK
  <2> QED BY <2>1, <2>2, <2>3, StayingIsNotGoingBack DEF IInv, NobodyGoesBack, SomebodyGoesOn
<1> QED BY <1>1, <1>2, <1>3, <1>4

LEMMA RequestsGoOn ==
  ASSUME IInv, NEW r \in Requests, Handler(r) \/ Sender(r)
  PROVE  NobodyGoesBack /\ SomebodyGoesOn
<1>1. UNCHANGED <<main, adapter, watcher, serve, ctxDone>>
  BY DEF Handler, Sender, Count, ReadSink, Write, Answer, Open, Reject, Decode, processVars,
         adapterVars, stopVars, serverVars
<1>2. /\ \E s : req' = [req EXCEPT ![r] = s]
      /\ \/ req[r] = "idle" /\ req'[r] = "open"
         \/ req[r] = "open" /\ req'[r] \in {"decoded", "answered"}
         \/ req[r] = "decoded" /\ req'[r] = "claimed"
         \/ req[r] = "claimed" /\ req'[r] \in {"holding", "handled"}
         \/ req[r] = "holding" /\ req'[r] = "handled"
         \/ req[r] = "handled" /\ req'[r] = "answered"
  BY DEF Handler, Sender, Count, ReadSink, Write, Answer, Open, Reject, Decode, IInv, TypeOK
<1>3. /\ requestRank[req[r]] < requestRank[req'[r]]
      /\ requestRank[req[r]] <= requestRank[req'[r]]
  BY <1>2 DEF requestRank
<1>4. \A q \in Requests \ {r} : req'[q] = req[q]
  BY <1>2 DEF IInv, TypeOK
<1> QED BY <1>1, <1>3, <1>4, StayingIsNotGoingBack DEF IInv, NobodyGoesBack, SomebodyGoesOn

\* Every step takes somebody on and nobody back: with finitely many requests the
\* collector takes finitely many steps, so that one that does not end waits.
THEOREM NothingIsDoneTwice == Spec => [][NobodyGoesBack /\ SomebodyGoesOn]_vars
<1>1. IInv /\ LaunchedOnce /\ [Next]_vars => [NobodyGoesBack /\ SomebodyGoesOn]_vars
  BY MainGoesOn, BackgroundGoesOn, RequestsGoOn DEF Next
<1> QED BY <1>1, Inductive, LaunchedOnceHolds, PTL DEF Spec
=============================================================================
