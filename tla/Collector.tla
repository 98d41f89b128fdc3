------------------------------ MODULE Collector ------------------------------
(***************************************************************************)
(* The life of one `didebaan collect` process: CollectCmd.Run              *)
(* (cmd/didebaan/main.go), Receiver.Start and Receiver.Shutdown            *)
(* (internal/receiver/receiver.go), the adapter's Run and emit             *)
(* (internal/claudecode/adapter.go), and the export requests in flight.    *)
(*                                                                         *)
(* Five kinds of goroutine take steps: the main one, the adapter's, the    *)
(* watcher that calls Shutdown, one Serve loop per transport, and one      *)
(* handler per export request.  Each request stands for a request with one *)
(* claimed record; what happens to several records is module Dispatch's.   *)
(***************************************************************************)
CONSTANTS Requests,   \* the export requests senders may make
          Configs     \* the sets of transports a configuration may enable

Transports == {"grpc", "http"}

ASSUME ConfigsAssumption == Configs \subseteq SUBSET Transports

VARIABLES
  enabled,       \* transports with a non-empty address (never changes)
  main,          \* where CollectCmd.Run is
  exit,          \* what Run returns: "none" until decided, then "ok" or "error"
  ctxDone,       \* the context of signal.NotifyContext is cancelled
  adapter,       \* where Adapter.Run is
  sink,          \* Adapter.sink # nil
  watcher,       \* where the goroutine that calls Receiver.Shutdown is
  graceExpired,  \* http.Server.Shutdown gave up at shutdownGrace
  bound,         \* listeners that are open
  serve,         \* each transport's server: field assigned, Serve entered, returned
  stopping,      \* transports whose server was told to shut down
  pipeline,      \* the OTel providers: "none", "up" or "down"
  req,           \* where each request's handler is
  via,           \* the transport each request came over
  fate,          \* what became of each request's record
  counted,       \* the requests Stats has counted as claimed
  printed        \* the counts the closing line shows

outcomeVars == <<exit, pipeline, printed>>
adapterVars == <<adapter, sink>>
stopVars    == <<watcher, stopping, graceExpired>>
serverVars  == <<bound, serve>>
requestVars == <<req, via, fate, counted>>
processVars == <<enabled, main, ctxDone, outcomeVars, adapterVars, stopVars, serverVars>>
vars == <<processVars, requestVars>>

MainSteps    == {"build", "bindGRPC", "bindHTTP", "serveGRPC", "serveHTTP",
                 "collect", "adapter", "stats", "flush", "exiting", "exited"}
ServerStates == {"none", "ready", "serving", "closed", "failed", "notServed"}
WatcherSteps == {"none", "wait", "drainHTTP", "toGRPC", "drainGRPC", "done"}
RequestSteps == {"idle", "open", "decoded", "claimed", "holding", "handled", "answered"}
Fates        == {"none", "rejected", "refused", "written", "late"}

TypeOK ==
  /\ enabled \in Configs
  /\ main \in MainSteps
  /\ exit \in {"none", "ok", "error"}
  /\ ctxDone \in BOOLEAN
  /\ adapter \in {"none", "starting", "running", "done"}
  /\ sink \in BOOLEAN
  /\ watcher \in WatcherSteps
  /\ graceExpired \in BOOLEAN
  /\ bound \subseteq Transports
  /\ serve \in [Transports -> ServerStates]
  /\ stopping \subseteq Transports
  /\ pipeline \in {"none", "up", "down"}
  /\ req \in [Requests -> RequestSteps]
  /\ via \in [Requests -> Transports]
  /\ fate \in [Requests -> Fates]
  /\ counted \subseteq Requests
  /\ printed \subseteq Requests

Init ==
  /\ enabled \in Configs
  /\ main = "build"
  /\ exit = "none"
  /\ ctxDone = FALSE
  /\ adapter = "none"
  /\ sink = FALSE
  /\ watcher = "none"
  /\ graceExpired = FALSE
  /\ bound = {}
  /\ serve = [t \in Transports |-> "none"]
  /\ stopping = {}
  /\ pipeline = "none"
  /\ req = [r \in Requests |-> "idle"]
  /\ via = [r \in Requests |-> "grpc"]
  /\ fate = [r \in Requests |-> "none"]
  /\ counted = {}
  /\ printed = {}

-----------------------------------------------------------------------------
(* The main goroutine: CollectCmd.Run, with Receiver.Start inlined.        *)

\* A failure before the exporter exists: no adapter, no consumer, a
\* self-export loop, or exporter.New.  Nothing is deferred yet but stop().
RefuseStart ==
  /\ main = "build"
  /\ main' = "exited"
  /\ exit' = "error"
  /\ UNCHANGED <<enabled, ctxDone, pipeline, printed, adapterVars,
                 stopVars, serverVars, requestVars>>

\* newSink or receiver.New fails: the deferred providers.Shutdown runs.
\* receiver.New fails when no transport is enabled.
AbortStart ==
  /\ main = "build"
  /\ pipeline' = "up"
  /\ main' = "flush"
  /\ exit' = "error"
  /\ UNCHANGED <<enabled, ctxDone, printed, adapterVars, stopVars,
                 serverVars, requestVars>>

\* Everything is built and the two goroutines are started; neither has run yet.
Launch ==
  /\ main = "build"
  /\ enabled # {}
  /\ pipeline' = "up"
  /\ adapter' = "starting"
  /\ watcher' = "wait"
  /\ main' = "bindGRPC"
  /\ UNCHANGED <<enabled, exit, ctxDone, sink, stopping, graceExpired,
                 printed, serverVars, requestVars>>

\* net.Listen for transport t, reached at `at` and followed by `next`.
Bind(t, at, next) ==
  /\ main = at
  /\ main' = next
  /\ bound' = bound \cup ({t} \cap enabled)
  /\ UNCHANGED <<enabled, ctxDone, serve, adapterVars, stopVars,
                 outcomeVars, requestVars>>

\* A slip: the first listener is left open.
BindFailsAndLeaks(t, at) ==
  /\ main = at
  /\ t \in enabled
  /\ main' = "flush"
  /\ exit' = "error"
  /\ UNCHANGED <<enabled, ctxDone, bound, serve, pipeline, printed, adapterVars, stopVars, requestVars>>

\* net.Listen fails.  When the second one does, the first listener is closed.
BindFails(t, at) ==
  /\ main = at
  /\ t \in enabled
  /\ bound' = {}
  /\ main' = "flush"
  /\ exit' = "error"
  /\ UNCHANGED <<enabled, ctxDone, serve, pipeline, printed, adapterVars,
                 stopVars, requestVars>>

\* r.grpcServer or r.httpServer is assigned and its Serve goroutine started.
MakeServer(t, at, next) ==
  /\ main = at
  /\ main' = next
  /\ serve' = [serve EXCEPT ![t] = IF t \in enabled THEN "ready" ELSE @]
  /\ UNCHANGED <<enabled, ctxDone, bound, adapterVars, stopVars,
                 outcomeVars, requestVars>>

\* Serve goroutines that have sent their result on errCh.
Returned(t) == serve[t] \in {"closed", "failed", "notServed"}

\* The result is an error.  http.ErrServerClosed is turned into nil;
\* grpc.ErrServerStopped, from Serve called after GracefulStop, is not.
ReturnedError(t) ==
  \/ serve[t] = "failed"
  \/ t = "grpc" /\ serve[t] = "notServed"

\* A slip: the results are awaited and dropped.
StartIgnoresErrors ==
  /\ main = "collect"
  /\ \A t \in enabled : Returned(t)
  /\ main' = "adapter"
  /\ UNCHANGED <<enabled, ctxDone, adapterVars, stopVars, serverVars, outcomeVars, requestVars>>

\* Start has one result of each server; it returns their errors, joined.
StartReturns ==
  /\ main = "collect"
  /\ \A t \in enabled : Returned(t)
  /\ IF \E t \in enabled : ReturnedError(t)
       THEN main' = "flush" /\ exit' = "error"
       ELSE main' = "adapter" /\ exit' = exit
  /\ UNCHANGED <<enabled, ctxDone, pipeline, printed, adapterVars,
                 stopVars, serverVars, requestVars>>

\* <-adapterErr.  Adapter.Run returns only ctx.Err(), so never an error here.
AdapterReturned ==
  /\ main = "adapter"
  /\ adapter = "done"
  /\ main' = "stats"
  /\ UNCHANGED <<enabled, ctxDone, adapterVars, stopVars, serverVars,
                 outcomeVars, requestVars>>

\* The closing line with the receiver's counters; Run returns nil.
PrintStats ==
  /\ main = "stats"
  /\ printed' = counted
  /\ exit' = "ok"
  /\ main' = "flush"
  /\ UNCHANGED <<enabled, ctxDone, pipeline, adapterVars, stopVars,
                 serverVars, requestVars>>

\* The deferred providers.Shutdown: from here on the pipeline takes no event.
Flush ==
  /\ main = "flush"
  /\ pipeline' = "down"
  /\ main' = "exiting"
  /\ UNCHANGED <<enabled, exit, ctxDone, printed, adapterVars, stopVars,
                 serverVars, requestVars>>

\* The deferred stop() and the end of main(); every goroutine dies with it.
Exit ==
  /\ main = "exiting"
  /\ main' = "exited"
  /\ UNCHANGED <<enabled, ctxDone, adapterVars, stopVars, serverVars,
                 outcomeVars, requestVars>>

Main ==
  \/ RefuseStart \/ AbortStart \/ Launch
  \/ Bind("grpc", "bindGRPC", "bindHTTP")
  \/ Bind("http", "bindHTTP", "serveGRPC")
  \/ BindFails("grpc", "bindGRPC")
  \/ BindFails("http", "bindHTTP")
  \/ MakeServer("grpc", "serveGRPC", "serveHTTP")
  \/ MakeServer("http", "serveHTTP", "collect")
  \/ StartReturns \/ AdapterReturned \/ PrintStats \/ Flush \/ Exit

\* Nothing but the main goroutine's end stops the other goroutines.
Alive == main # "exited"

-----------------------------------------------------------------------------
(* The signal, the adapter's goroutine and the watcher.                    *)

\* SIGINT or SIGTERM.  NotifyContext goes on catching later ones until Run
\* returns, and they change nothing.
Signal ==
  /\ Alive
  /\ ctxDone' = TRUE
  /\ UNCHANGED <<enabled, main, adapterVars, stopVars, serverVars,
                 outcomeVars, requestVars>>

\* Adapter.Run installs the sink.
InstallSink ==
  /\ Alive
  /\ adapter = "starting"
  /\ sink' = TRUE
  /\ adapter' = "running"
  /\ UNCHANGED <<enabled, main, ctxDone, stopVars, serverVars, outcomeVars,
                 requestVars>>

\* A slip: Run does not wait for the context.
DropSinkAtOnce ==
  /\ Alive
  /\ adapter = "running"
  /\ sink' = FALSE
  /\ adapter' = "done"
  /\ UNCHANGED <<enabled, main, ctxDone, stopVars, serverVars, outcomeVars, requestVars>>

\* Adapter.Run drops the sink as soon as the context is done, and returns.
DropSink ==
  /\ Alive
  /\ adapter = "running"
  /\ ctxDone
  /\ sink' = FALSE
  /\ adapter' = "done"
  /\ UNCHANGED <<enabled, main, ctxDone, stopVars, serverVars, outcomeVars,
                 requestVars>>

\* A slip: the wait is not one of the watcher's steps.
NoDrainStep(t) == t

\* Where the watcher waits while transport t finishes its requests.
DrainStep(t) == IF t = "http" THEN "drainHTTP" ELSE "drainGRPC"

\* A slip: a server whose Serve has not been entered is passed over too.
MadeAndServing(t) == serve[t] = "serving"

\* The field of transport t is not nil.
Made(t) == serve[t] # "none"

\* Receiver.Shutdown turns to transport t.  A field that Start has not
\* assigned yet is nil, and is passed over for good.
BeginStop(t, next) ==
  \/ /\ Made(t)
     /\ stopping' = stopping \cup {t}
     /\ bound' = IF serve[t] = "serving" THEN bound \ {t} ELSE bound
     /\ watcher' = DrainStep(t)
  \/ /\ ~Made(t)
     /\ watcher' = next
     /\ UNCHANGED <<stopping, bound>>

StopHTTP ==
  /\ Alive
  /\ watcher = "wait"
  /\ ctxDone
  /\ BeginStop("http", "toGRPC")
  /\ UNCHANGED <<enabled, main, ctxDone, graceExpired, serve, adapterVars,
                 outcomeVars, requestVars>>

StopGRPC ==
  /\ Alive
  /\ watcher = "toGRPC"
  /\ BeginStop("grpc", "done")
  /\ UNCHANGED <<enabled, main, ctxDone, graceExpired, serve, adapterVars,
                 outcomeVars, requestVars>>

\* Requests whose handler has started and has not finished.
InFlight == {r \in Requests : req[r] \notin {"idle", "answered"}}

\* A slip: only the requests still being read are waited for.
StillRead(t) == {r \in Requests : req[r] = "open" /\ via[r] = t}

\* Those that came over transport t.
InFlightOver(t) == {r \in InFlight : via[r] = t}

\* http.Server.Shutdown and grpc.Server.GracefulStop return when the last
\* request of their transport has been answered.
Drained(t, next) ==
  /\ Alive
  /\ watcher = DrainStep(t)
  /\ InFlightOver(t) = {}
  /\ watcher' = next
  /\ UNCHANGED <<enabled, main, ctxDone, stopping, graceExpired,
                 adapterVars, serverVars, outcomeVars, requestVars>>

\* shutdownGrace passes first: http.Server.Shutdown returns the context's
\* error and leaves its connections as they are.  GracefulStop has no bound.
GraceExpires ==
  /\ Alive
  /\ watcher = "drainHTTP"
  /\ graceExpired' = TRUE
  /\ watcher' = "toGRPC"
  /\ UNCHANGED <<enabled, main, ctxDone, stopping, adapterVars, serverVars,
                 outcomeVars, requestVars>>

Watcher ==
  \/ StopHTTP \/ StopGRPC
  \/ Drained("http", "toGRPC") \/ Drained("grpc", "done")
  \/ GraceExpires

-----------------------------------------------------------------------------
(* The Serve goroutines: what grpc-go and net/http do with the two servers. *)

\* The goroutine enters Serve and accepts connections.
EnterServe(t) ==
  /\ Alive
  /\ serve[t] = "ready"
  /\ t \notin stopping
  /\ serve' = [serve EXCEPT ![t] = "serving"]
  /\ UNCHANGED <<enabled, main, ctxDone, bound, adapterVars, stopVars,
                 outcomeVars, requestVars>>

\* It enters Serve on a server already told to stop: Serve closes the
\* listener and returns at once.
EnterStopped(t) ==
  /\ Alive
  /\ serve[t] = "ready"
  /\ t \in stopping
  /\ serve' = [serve EXCEPT ![t] = "notServed"]
  /\ bound' = bound \ {t}
  /\ UNCHANGED <<enabled, main, ctxDone, adapterVars, stopVars,
                 outcomeVars, requestVars>>

\* Serve returns after a shutdown: net/http's as soon as Shutdown begins,
\* grpc-go's only when GracefulStop has ended.
LeaveServe(t) ==
  /\ Alive
  /\ serve[t] = "serving"
  /\ t \in stopping
  /\ t = "grpc" => watcher = "done"
  /\ serve' = [serve EXCEPT ![t] = "closed"]
  /\ UNCHANGED <<enabled, main, ctxDone, bound, adapterVars, stopVars,
                 outcomeVars, requestVars>>

\* Accept fails for good: Serve closes its listener and returns the error.
\* Connections accepted before stay open.
ServeFails(t) ==
  /\ Alive
  /\ serve[t] = "serving"
  /\ t \notin stopping
  /\ serve' = [serve EXCEPT ![t] = "failed"]
  /\ bound' = bound \ {t}
  /\ UNCHANGED <<enabled, main, ctxDone, adapterVars, stopVars,
                 outcomeVars, requestVars>>

Server(t) == EnterServe(t) \/ EnterStopped(t) \/ LeaveServe(t) \/ ServeFails(t)

-----------------------------------------------------------------------------
(* One export request: Export or handleMetrics, dispatch, emit, response.  *)

\* A transport takes new requests while it serves, and over the connections
\* it has accepted until it has drained; when the grace has expired HTTP's
\* connections stay open.
TakesRequests(t) ==
  /\ serve[t] \in {"serving", "closed", "failed"}
  /\ t \in stopping => watcher = DrainStep(t) \/ (t = "http" /\ graceExpired)

Open(r, t) ==
  /\ Alive
  /\ req[r] = "idle"
  /\ TakesRequests(t)
  /\ req' = [req EXCEPT ![r] = "open"]
  /\ via' = [via EXCEPT ![r] = t]
  /\ UNCHANGED <<fate, counted, processVars>>

\* The request never reaches dispatch: refused by serveSignal, undecodable,
\* or given up by its sender.
Reject(r) ==
  /\ Alive
  /\ req[r] = "open"
  /\ req' = [req EXCEPT ![r] = "answered"]
  /\ fate' = [fate EXCEPT ![r] = "rejected"]
  /\ UNCHANGED <<via, counted, processVars>>

\* The sender has sent the whole body and it decodes.
Decode(r) ==
  /\ Alive
  /\ req[r] = "open"
  /\ req' = [req EXCEPT ![r] = "decoded"]
  /\ UNCHANGED <<via, fate, counted, processVars>>

\* dispatch counts the record as claimed before the adapter sees it.
Count(r) ==
  /\ Alive
  /\ req[r] = "decoded"
  /\ counted' = counted \cup {r}
  /\ req' = [req EXCEPT ![r] = "claimed"]
  /\ UNCHANGED <<via, fate, processVars>>

\* A slip: emit waits for a sink instead of refusing the record.
ReadSinkWaits(r) ==
  /\ Alive
  /\ req[r] = "claimed"
  /\ sink
  /\ req' = [req EXCEPT ![r] = "holding"]
  /\ UNCHANGED <<processVars, via, fate, counted>>

\* Adapter.emit reads the sink under the lock, and releases the lock.
ReadSink(r) ==
  /\ Alive
  /\ req[r] = "claimed"
  /\ IF sink
       THEN req' = [req EXCEPT ![r] = "holding"] /\ fate' = fate
       ELSE /\ req' = [req EXCEPT ![r] = "handled"]
            /\ fate' = [fate EXCEPT ![r] = "refused"]
  /\ UNCHANGED <<via, counted, processVars>>

\* The sink is called: the event is in the pipeline if that is still up.
Write(r) ==
  /\ Alive
  /\ req[r] = "holding"
  /\ req' = [req EXCEPT ![r] = "handled"]
  /\ fate' = [fate EXCEPT ![r] = IF pipeline = "up" THEN "written" ELSE "late"]
  /\ UNCHANGED <<via, counted, processVars>>

\* The sender gets a success response, whatever the adapter returned.
Answer(r) ==
  /\ Alive
  /\ req[r] = "handled"
  /\ req' = [req EXCEPT ![r] = "answered"]
  /\ UNCHANGED <<via, fate, counted, processVars>>

Handler(r) == Count(r) \/ ReadSink(r) \/ Write(r) \/ Answer(r)

Sender(r) == (\E t \in Transports : Open(r, t)) \/ Reject(r) \/ Decode(r)

-----------------------------------------------------------------------------
Next ==
  \/ Main \/ Signal \/ InstallSink \/ DropSink \/ Watcher
  \/ \E t \in Transports : Server(t)
  \/ \E r \in Requests : Handler(r) \/ Sender(r)

Spec == Init /\ [][Next]_vars

\* The Go scheduler runs every goroutine that can run, and the grace timer
\* fires.  Nothing makes a sender go on, a signal arrive or a call fail.
Fairness ==
  /\ WF_vars(Main)
  /\ WF_vars(InstallSink) /\ WF_vars(DropSink)
  /\ WF_vars(Watcher)
  /\ \A t \in Transports : WF_vars(EnterServe(t) \/ EnterStopped(t)) /\ WF_vars(LeaveServe(t))
  /\ \A r \in Requests : WF_vars(Handler(r))

FairSpec == Spec /\ Fairness

-----------------------------------------------------------------------------
(* Properties.                                                             *)

StartReturned == main \in {"adapter", "stats", "flush", "exiting", "exited"}

\* gRPC's Serve ended in a graceful stop, Receiver.Shutdown found every
\* enabled server, and HTTP did not exhaust the grace.
StoppedGracefully ==
  serve["grpc"] = "closed" /\ enabled \subseteq stopping /\ ~graceExpired

\* A graceful stop leaves no request unanswered on either transport, those
\* accepted while it ran included: Receiver.Shutdown drains HTTP first, and
\* gRPC's Serve ends only with the gRPC drain that follows it.
GracefulStopDrains == StoppedGracefully => InFlight = {}

\* With gRPC on, Run ends without an error only through a graceful stop, or
\* one that cost HTTP its grace: Start waits for every Serve goroutine and
\* joins their errors, so no clean exit skips the drain.
CleanExitIsGraceful ==
  exit = "ok" /\ "grpc" \in enabled => StoppedGracefully \/ graceExpired

\* Seen from the record: an event is handed to a torn-down pipeline
\* only if the stop was not graceful.
LateWritesHaveACause ==
  \A r \in Requests : fate[r] = "late" => ~StoppedGracefully

\* The closing line of a clean exit counts every record the process ever
\* counted, after a graceful stop.
ClosingLineIsFinal == exit = "ok" /\ StoppedGracefully => printed = counted

\* Start returns nil only after the context is done, so <-adapterErr, which
\* needs the adapter to return, cannot block the exit for ever; and it never
\* returns nil for a server that died, however long the other one kept it
\* waiting.
CleanReturnOnlyOnSignal ==
  /\ main \in {"adapter", "stats"} => ctxDone
  /\ main \in {"adapter", "stats"} \/ exit = "ok" => \A t \in enabled : ~ReturnedError(t)

\* Whichever way Start returns, no listener stays open behind it.
ListenersReleased == StartReturned => bound = {}

\* A record is refused by the adapter only before the sink is installed or
\* after the context is done, never between.
RefusedOnlyOutsideRun ==
  [][\A r \in Requests :
       fate'[r] = "refused" /\ fate[r] # "refused" => adapter = "starting" \/ ctxDone]_vars

\* The watcher woke up while Start had both servers in place.
SignalledWhileServing == main = "collect" /\ watcher = "wait" /\ ctxDone

\* A sender keeps a gRPC request open.
GRPCHeldOpen == \E r \in Requests : req[r] = "open" /\ via[r] = "grpc"

\* A signal that reaches a serving collector ends the process, unless some
\* gRPC request is held open for ever from some point on.
ServingCollectorStops ==
  [](SignalledWhileServing => (<>(main = "exited")) \/ (<>[]GRPCHeldOpen))

\* Every request whose body was decoded is answered, or the process ends.
DecodedIsAnswered ==
  \A r \in Requests : req[r] = "decoded" ~> req[r] = "answered" \/ main = "exited"

-----------------------------------------------------------------------------
(* The collector implements the contract of module Intake.  The stop is     *)
(* Start's return; the contract ends where the process does.                *)

intakePhase ==
  CASE ~StartReturned                              -> "open"
    [] main \in {"adapter", "stats", "flush"}      -> "stopped"
    [] main = "exiting"                            -> "flushed"
    [] main = "exited" -> IF pipeline = "none" THEN "stopped" ELSE "ended"

Promise == INSTANCE Intake WITH
  phase    <- intakePhase,
  orderly  <- StartReturned /\ StoppedGracefully,
  working  <- InFlight,
  kept     <- {r \in Requests : fate[r] = "written"},
  reported <- exit = "ok",
  report   <- printed

\* Every step of the collector is one the contract allows: whatever was taken
\* before an orderly stop is settled, counted in the report and out of the way
\* of the flush, and nothing is taken after it.
KeepsPromise == Promise!Spec

-----------------------------------------------------------------------------
(* What the documentation says and the code does not do.                   *)

\* main.go, at the goroutine that runs the adapter: it "has to be running
\* before the receiver accepts anything".
ReadyBeforeAccept == \A r \in Requests : req[r] # "idle" => adapter # "starting"

\* main.go, CollectCmd: it "runs until interrupted".
RunsUntilInterrupted == ctxDone ~> main = "exited"

\* receiver.go, Shutdown: "In-flight requests get a short grace period".
InFlightRequestsGetTheGrace ==
  main = "exited" /\ exit = "ok" /\ ~graceExpired => InFlight = {}
=============================================================================
