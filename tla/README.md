# A verification of didebaan

Didebaan is a collector that runs beside AI coding agents. It receives their
OpenTelemetry records over OTLP (gRPC and HTTP), hands each record to the
adapter that claims it, and exports normalised events as OTLP traces, metrics
and logs. This directory holds TLA+ models of the program, TLC configurations
that check them, and TLAPS proofs about them. Paths below are relative to the
repository; every definition that models code is listed with its lines under
`map` in `PROJECT.json`.

    tlc -config MCCollector.cfg MCCollector.tla      # a run
    tlapm CollectorProofs.tla                        # the proofs of a module

## 1. Inventory

| Component | Code | State | Operations | Modules |
|---|---|---|---|---|
| Collector lifecycle | `cmd/didebaan/main.go`, `internal/receiver/receiver.go` (`Start`, `Shutdown`), `internal/claudecode/adapter.go` (`Run`, `emit`) | context, server fields, listeners, adapter's sink, OTel providers, requests in flight | start, bind, serve, signal, drain, flush, exit | `Collector`, `Intake` |
| Receiver dispatch | `receiver.go` (`New`, handlers, `serveSignal`), `dispatch.go`, `pkg/didebaan/claim.go` | consumers, `Stats`, exported unclaimed counter | accept, refuse, route, count, consume, answer | `Dispatch` |
| Claude Code adapter | `internal/claudecode` | sink, `sawLog`, `skippedAggregates`, two `sync.Once`, `forwardIdentity` | `New`, `Run`, `ConsumeMetric`, `ConsumeLog` | `ClaudeCode` (who calls what when), `Normalize` (what an event says), `Startup` (`New`) |
| Self-export check | `selfexport.go` | none; reads environment, DNS, interfaces | resolve endpoints, compare | `SelfExport` |
| GenAI mapping, sink | `internal/genai`, `cmd/didebaan/sink.go`, `pkg/didebaan/event.go` | three instruments | one event to three signals | `GenAI`, `Signals`, `Metering` |
| Exporter | `internal/exporter` | three providers | `New`, `Shutdown` | `Signals`; one variable of `Collector` and of `Startup` |
| Adapter registry | `internal/adapter` | name to factory | `Register`, `New` | `Startup` |
| Configuration, command line | `config.go`, `main.go` | the CLI struct | layering, commands, what `CollectCmd.Run` builds and unwinds | `Startup` |

How they interact. `CollectCmd.Run` builds everything, then starts two
goroutines, one for `Adapter.Run` and one that waits for the signal and calls
`Receiver.Shutdown`, and blocks in `Receiver.Start`. Start runs one Serve
goroutine for each transport; each export request has a handler goroutine that
calls the adapter directly, and the adapter calls the sink directly. The
signal's context, the adapter's lock, the `errCh` and `adapterErr` channels,
and the two server fields are all that connects them.

What is hard here: the goroutines meet only at those few points, and several
orders were not written down: a request before the sink, a signal before the
servers, a handler after the flush, one provider shut and the next still open.
The data is hard at its edges: one number in three forms, times that wrap,
amounts that were not reported, a key given twice. And a setting has six places
it can come from, each read at another moment. `PROJECT.json` lists the hazards, each at
its line with the properties that cover it.

## 2. The modules

### Collector

One process from `Run` to the end of `main`. `main` is the main goroutine's
place, with `Start` inlined (`bindGRPC` … `collect`); `adapter`, `watcher` and
`serve` are the other goroutines; `req` is one handler per request.

| Model | Code |
|---|---|
| `RefuseStart`, `AbortStart`, `Launch` | `main.go` 70-135: failures before and after the deferred flush exists, then the two goroutines |
| `Bind`, `BindFails`, `MakeServer`, `StartReturns` | `receiver.go` `Start`: both `net.Listen`, the field assignments, the loop over `errCh` |
| `AdapterReturned`, `PrintStats`, `Flush`, `Exit` | `main.go` 138-148, the deferred calls, the end of the process |
| `Signal`, `InstallSink`, `DropSink` | `NotifyContext`; `Adapter.Run` |
| `StopHTTP`, `Drained`, `GraceExpires`, `StopGRPC` | `Receiver.Shutdown`, HTTP first |
| `EnterServe`, `EnterStopped`, `LeaveServe`, `ServeFails` | external: what `net/http` and `grpc-go` do in Serve |
| `Open`, `Reject`, `Decode`, `Count`, `ReadSink`, `Write`, `Answer` | one request with one claimed record, through `Export` or `handle…`, `dispatch…`, `emit` |

External behaviour is taken from how those libraries are used: `http.Server.Serve`
returns as soon as Shutdown begins, `grpc.Server.Serve` only when GracefulStop
has ended; entered on a server already stopped, Serve closes its listener and
returns `ErrServerClosed`, which `Start` turns into nil, or `ErrServerStopped`,
which it does not. Connections that were accepted may deliver requests until
their transport has drained, and HTTP's also after the grace has expired, since
`Shutdown` closes no open connection.

A server field is read by the watcher without synchronisation with `Start`'s
assignment. That is a data race; the model gives the read every value it can
return in an interleaving, nil or assigned, which is what `BeginStop` does.

`Intake` is the abstract specification: requests are taken while it is open; it
stops once; if that stop is orderly, nothing is in hand then and nothing is
taken after; it reports and flushes in that order. `KeepsPromise` maps the
collector to it: "stopped" is Start's return, "orderly" is
`StoppedGracefully`, the report is the closing line.

### Dispatch

Any number of requests over a receiver with a list of consumers. A body is the
sequence of records in the order the nested loops visit them. `Route` looks for
the claiming consumer and counts; `CountExported` is the second half of
`countUnclaimed`; `Consume` calls the adapter, which may fail. Names are
compared through the relation `PrefixOf`, so that the model says which names
are prefixes and never spells them out. In the instances a body holds at most
two records and the cap on bodies is 4 instead of 16 MiB; only its distance
from the body's size matters. `New` may also fail for reasons that are not the
consumers': no address to serve (`Startup`, `NewReceiver`), or a counter that
cannot be made (`BuildFails` there, `AbortStart` in `Collector`).

### ClaudeCode

The adapter's control, with calls of `ConsumeMetric` and `ConsumeLog` beside
`Run`. The atomics, the `sync.Once` and the lock are steps of their own. A
record is a kind, the two attributes an instance is taken from, and a number of
data points. `Collector` has the same sink race with the rest of the process
around it; this module has what one call does to several data points.

### Normalize, GenAI, Signals, Metering

What becomes of one claimed record.

`Normalize` has the adapter's conversions as operators: `attr` (the first
attribute with a key decides, whatever its form), `intAttr` and `floatAttr`
(integer, double or text), `timeFromUnixNano`, `durations`, `scrubbedAttrs`,
and `eventsOf`, the events a record may become. An optional value (a Go pointer)
is a set of at most one element. A word has `2 * HalfWord` values and doubles are
counted in halves, so that width, sign, fraction and NaN exist at a small
scale. Go leaves the conversion of a double that does not fit to the
implementation; `toInt` yields what amd64 and arm64 make of it.

`GenAI` has the mapping: `dimensionPairs`, `pairs` (the adapter's attributes
come last and win, since the SDK keeps the last of two equal keys), `amounts`
(what is measured, in which unit-free account) and `series`.

`Signals` runs the sink: `Begin` is `ConsumeLog` or one data point up to the
sink's call, `Trace`, `Measure` and `Emit` are the calls into the tracer, each
instrument and the logger. Beside them the main goroutine builds the providers
and shuts them one after the other; each `Shutdown` may fail. A call may begin
while they are being shut, as when HTTP alone is served or the grace expired. A
provider drops what reaches it after its shutdown, so an event may leave some of
its signals.
Two calls with one record are a sender's retry: both are measured, because the
code keeps no identity of a record.

`Metering` is the abstract specification: each delivery is charged once on each
account it reports an amount for, on no other, and wholly unless the books are
closed under it. `KeepsBooks` maps the sink to it: what is due comes from the
event alone (`Due`), the book is what the instruments accepted, a delivery is
settled when the sink returns, and the books close when the meter provider is
shut.

### Startup

From the packages' `init` functions, in any order (`Register`,
`RegisterPanics`), through `Load` (kong.New reads the two files), `Parse` (the
command line and the resolvers) to the command: `adapters` and `version`
inform; `collect` makes adapter, exporter, sink and receiver in the code's
order, and each can fail. `Flush` is the deferred `Shutdown`. `Resolvers` lists
the layers in the order in which kong asks them, the last that knows a setting
winning. kong itself is external: which file it opens when, and that a missing
one is skipped by `kong.Configuration` and an error for `kong.ConfigFlag`. The
self-export check is a relation `Loops` here; `SelfExport` takes it apart.

### SelfExport

The check, in the order of the code, over abstract hosts and a table `dns` that
may change afterwards. `Collide`, `CheckErrs` and `NeedsInterfaces` are the
three outcomes of `addrsCollide`; the map of endpoints has no order, so which
fault is found first is open. Against it stands a model of the network (external): a socket
bound to an unspecified address accepts on every local address, any other only
on its own; dialling an unspecified address reaches loopback. The look-ups of
one run of the check all see one table.

## 3. What is checked

| Run | Question | Bounds | States |
|---|---|---|---|
| `collector` | what a stop guarantees, what a clean exit tells, whether the collector implements `Intake`, whether a signal ends it | 2 requests, any set of transports | 152 000 |
| `dispatch` | counters, ownership, one bad record, do the loops end | 2 requests, 6 bodies, 6 posts, 6 consumer lists | 33 000 |
| `claude_code` | the metrics-only warning, partial metrics, whose usage counts | 3 calls, grace 2 | 50 000 |
| `self_export` | are the loops refused, and only those | 7 listeners, 9 endpoints, 24 environments, 3 tables | 35 000 |
| `signals` | what the three signals say, what the flush costs, and whether the sink implements `Metering` | 2 calls, 8 records, words of 5 bits, a millisecond of 3 units | 585 000 |
| `startup` | which setting wins, what is refused, what is unwound | 5 binaries, 8 command lines, 6 environments, 4 file systems, 3 commands | 16 700 |

The runs of the findings are in the section on them.

Why the bounds are enough: two requests give every pair of transports, and one
request that is in flight while another is new; the third request has no new
partner. Two records and two consumers give every overlap of claims. A grace of
two with three calls has the call before the last, the last, and one to spare.
Self-export compares one pair of addresses at a time. Two calls of the sink give
two series to compare, and a retry; a call's own steps meet the flush at every
place. Five bits hold the smallest counts and times with room for the fraction,
either overflow and a time that wraps, and a millisecond of three units lets a
duration overflow that fits in milliseconds. Each layer of configuration gives
the same setting another value, so that the winner tells its layer; one command
line gives `--config` twice. No run uses symmetry, so that each may
check temporal properties. Deadlock is not checked where the system really stops: the process ends, or all requests are
answered. `MCSelfExport` and `MCStartup` check it; `Startup` has a step for the
ended process.

The properties are described where they are defined. The ones to know:

* `GracefulStopDrains`, `LateWritesHaveACause`, `ClosingLineIsFinal`: if gRPC's
  Serve returned from a graceful stop, Shutdown found every server, and HTTP
  kept its grace, then no request is in flight on either transport, no event
  meets a torn-down pipeline, and the closing line is final. It rests on
  Shutdown's order, HTTP before gRPC, and on grpc-go's Serve ending last.
* `CleanExitIsGraceful`: with gRPC on, exit status 0 implies all of that unless
  the grace expired. With HTTP alone it does not; see the findings.
* `CleanReturnOnlyOnSignal`, `ListenersReleased`: the receiver returns without an
  error only once the context is done, so waiting for the adapter cannot block
  for ever, and never for a server that died; whichever way it returns no
  listener stays open.
* `ServingCollectorStops`, `DecodedIsAnswered`: a signal ends a collector that
  serves, unless a gRPC request is held open for ever; a request that was
  decoded is answered or the process ends.
* `RefusedOnlyOutsideRun`: the adapter refuses a record only before it has been
  scheduled, or after the signal.
* `StatsAccountForEveryRecord`: at every instant each counter equals the number
  of records that went that way, over all handlers, and the exported counter
  trails by what handlers hold between the two updates.
* `MetricsOnlyIsReported`, `NoEarlyWarning`, `LogsSilenceTheWarning`: the warning
  comes when the grace has been used up and no log was seen, not before, and
  never once a log was seen, but from an aggregate that was under way then.
* `PointsInOrder`: a metric that fails half-way has emitted a proper prefix.
* `UsageOncePerCall`: a model call the sink took counts its usage once, and the
  aggregates that restate it never do.
* `NoLoopWhileNamesHold`, `RefusalsAreJustified`: no signal loops while names
  mean what they meant, unless an endpoint names an unspecified address; and
  what is refused would loop, but for two loopback addresses.
* `NothingInventedNothingDropped`: an event has a count, a cost or a duration
  if and only if its record is a model call that reported one, and then exactly
  that: the integer, the number, the milliseconds scaled and cut to whole units.
  A double with a fraction counts its whole part or nothing, which is as much as
  code and comment agree on. What becomes of a double count or a duration that no
  word holds is left open.
* `TimesAreTheSenders`: a log record has its sender's time modulo the word, and
  a span ends before it starts only for the four causes it names.
* `SignalsAgree`: span, log record and measurements of one event tell one story
  unless a record without a time has its span start now. Under a key the agent
  uses itself, span and log record say what the agent said and the series does
  not.
* `SeriesAreBounded`: instance and model determine an account's series.
* `LostOnlyToTheFlush`, `FlushReachesEveryProvider`: a provider still open has
  every event whose call has ended; one provider's failure skips no other.
* `LayersInOrder`, `UnsoundConfigurationIsRefused`: which layer wins for every
  setting, and what a collector that serves can rely on. Whether the environment
  outranks the file of `--config` is a finding, and not asked here.
* `NoLoopIsOpened`, `EveryExitFlushes`: what is opened is what was checked, and
  nothing that was opened is left behind, whatever fails.

### Fairness

`FairSpec` of `Collector` assumes that the Go scheduler runs every goroutine
that can run (weak fairness of the main goroutine, of `InstallSink`,
`DropSink`, the watcher, each Serve loop and each handler) and that the grace
timer fires. It assumes nothing of senders, signals or failing calls: a sender
may hold a request open for ever, which is why `ServingCollectorStops` has that
exception. `FairSpec` of `Dispatch` assumes a handler goes on and that adapters
return, which `Adapter.Consume…` do: they wait for nothing but a lock held for
one assignment. `FairSpec` of `Signals` assumes that a provider's `Shutdown`
returns, with an error or without. `Run` gives it no deadline
(`context.Background()`), so this rests on the SDK alone, whose exports time
out by themselves.

### Findings

Six runs expect a violation, each of one sentence of the repository; quotes
and lines are under `findings`.

1. `ready_before_accept` (`ReadyBeforeAccept`): the receiver may accept before the adapter runs.
2. `runs_until_interrupted` (`RunsUntilInterrupted`): a signal during start-up is lost for good.
3. `in_flight_grace` (`InFlightRequestsGetTheGrace`): with HTTP alone the process does not wait for requests.
4. `every_loop` (`EveryLoopIsRefused`): an endpoint of 0.0.0.0 passes the self-export check.
5. `forwarding` (`ForwardingIsAChoice`): USAGE.md documents `forward_identity`, and no configuration
   ever reaches the adapter.
6. `environment_outranks` (`EnvironmentOutranksFiles`): a file given by `--config`
   outranks the environment. One given by `DIDEBAAN_CONFIG` does not.

Other places where the code and its text part, without a run:

* `receiver.go` 60-61 says the HTTP server is "closed outright" after the
  grace. Nothing calls `Close`; handlers go on. That is why `StoppedGracefully`
  excludes an expired grace.
* `receiver.go` 272 says the grace is short. `GracefulStop` has no bound, which
  is the exception `ServingCollectorStops` makes.
* `receiver.go` 193 says a name prefix cannot be an adapter's only claim. The
  test is on the length of `ScopePrefixes`, so `[""]` passes and claims nothing
  by scope; the `dispatch` run includes such a consumer.
* `normalize.go` 174-175 says the warning fires with no log event yet seen.
  `sawLog` is read once, so a log event can slip in between.
* `normalize.go` 315-317 says an integer attribute may come as a double that is
  a whole number. Any double is accepted and loses its fraction.
* `sink.go` 30 says a span spans its operation's duration. A record without a
  time has its span start now and end at the year one, since the duration is
  added to the zero time.
* `normalize.go` 128-131 says the receiver counts the error it returns, and the
  receiver only reports it.
* `DIDEBAAN_CONFIG` that names no file is skipped in silence, while `--config`
  that names none is an error.
* `event.go` 33-34 says `Instance` falls back to `service.name`; the adapter
  falls back to `host.name`.
* The text `NaN` or `Inf` is a cost to `ParseFloat`, and the counter it is added
  to is not a number from then on.
* A data point whose double is zero, or that has no value, becomes the integer
  zero.
* An attribute of the agent with a reserved key replaces the mapping's value on
  span and log record, but not in the metrics. Of two attributes with one key
  the conversions take the first, and span and log record keep the last.

## 4. What is proved

For every set of requests and every set of configurations
(`ConfigsAssumption`: configurations are sets of transports), `CollectorProofs`
proves type correctness and every safety invariant that the run `collector`
checks. None of them is inductive. `IInv` adds what the watcher's progress has
established:

* `StopOrder`: HTTP is told to stop before gRPC, and nobody before the signal;
* `HTTPDrained`, `GRPCDrained`: a drain that the watcher has passed left
  nothing in flight, and nothing new comes because the transport takes no
  requests then;
* `ServeEndedByStop`: Serve ends without an accept error only because of
  Shutdown, and gRPC's only after it, so `serve["grpc"] = "closed"` implies
  both drains;
* `StartWaitsForAll`: Start's return means that every Serve has returned, and
  a nil return that none of them failed;
* `FieldsInOrder`, `OnlyEnabledServe`, `RequestsNeedAServer`, `PipelineOrder`,
  `BoundBySomeone`: which places of the main goroutine go with which servers,
  requests, providers and listeners.

There is one lemma for each goroutine (`MainKeepsIInv`, `WatcherKeepsIInv`, …).
`LateWritesHaveACause` and `ClosingLineIsFinal` speak of two moments; they also
need that a step after Start's return cannot make the stop graceful
(`GracefulIsDecided`). The action property `RefusedOnlyOutsideRun` rests on
`SinkWhileRunning`: the sink is there from the adapter's start to the end of
the context, and before Launch nobody serves.

`CollectorRefinement` proves `Spec => KeepsPromise`: the main goroutine's steps
are Stop, Report, Flush, End or nothing; the background goroutines' steps are
nothing; a request's step happens only while the contract is active, because a
graceful stop left none in flight and no server takes one. It needs
`RecordOrder`, what a handler knows of its own record. `CollectorIsConclusive`
says what the contract comes to (`Conclusive` of `Intake`): after an orderly
stop nothing is in hand, and the closing line has every record that was
counted, all that reached the pipeline among them.

`SelfExportProofs` proves `NoLoopWhileNamesHold`, `RefusalsAreJustified` and
type correctness for every network and name table. Its heart is a pair of
lemmas: a connection that can arrive at the listener is one the check calls a
collision, unless the endpoint names an unspecified address
(`ReachingCollides`), and what the check calls a collision can arrive, unless
both addresses are loopback (`CollidingReaches`).

`DispatchProofs` proves type correctness, `NoGuessedOwner`,
`EveryClaimedRecordIsHandled`, `NoTruncatedBody` and
`StatsAccountForEveryRecord` for every list of claims, every relation of
prefixes and every body. It assumes that consumer lists and
bodies are lists and spans are counted in naturals (`ListAssumption`), that
sizes are natural (`SizeAssumption`), that no name of `PrefixOf` is empty
(`NameAssumption`), and that a process serves a finite number of requests
(`RequestsAssumption`), without which the counters' sums mean nothing. The invariant `DInv` says where each handler is in its body
(`HandlersFit`), that only what `serveSignal` let through is handled
(`PostsFit`), and that the calls made are exactly those for the claimed records
a handler is past, each to the first owner (`CallsFit`). For the counters a
step moves one handler past one record: that handler's term of the sum changes
by what the counter gains, and no other term does. `SetTheorems` has the lemmas
about sums (`SumChanges`). What a recursion yields cannot be proved by the library's
induction theorems, so it argues by a smallest set for which the claim fails,
which exists because proper inclusion of finite sets is well-founded.

`ClaudeCodeProofs` proves every property of the run `claude_code`, for any
number of calls, every grace above zero (`GraceAssumption`) and metrics of any
natural number of points (`PointsAssumption`). `AInv` has three arguments: the
counter never exceeds the calls that passed it (`CounterFits`, for
`NoEarlyWarning`); while nobody has warned and no log was seen, fewer calls than
the grace have ended, because the one that exhausts it warns before it ends
(`NotMissed`); and the events are the points calls are past, in order
(`EventsFit`). `LogsSilenceTheWarning` has an invariant of its own (`Silent`),
which holds from the moment the property speaks of: no call is past the check.

`StartupProofs` proves every property of the run `startup`, for every binary,
command line, environment, file system and relation of loops, assuming only
that the empty path names no file (`PathAssumption`). `IInv` says that
registered packages are found under their own name and no other (`Registered`),
the exporter exists only after the check (`ExporterIsLate`,
`CheckedIsOpened`), settings are what the layers resolve to
(`SettingsResolved`), the files were readable (`FilesAreRead`) and each check
on the way still holds (`AdapterFits`). `LayersInOrder` then needs that the
last resolver that knows a setting wins (`LastLayerWins`); it says nothing of
the environment against the file of `--config`.

`SignalsProofs` proves every safety property of the run `signals`, for any
number of calls, every width of the word (`HalfWord`) and any records that the
wire can carry (`IsRecord`: times are unsigned words, only log records have a
second one, an integer attribute is a word, only text is parsed, and what
`ParseInt` takes is an integer). It assumes
that the keys the mapping adds, and the metrics' names, are not among those that
identify a person (`IdentityAssumption`, `RecordAssumption`), that the zero time
lies beyond any time plus any duration (`WordAssumption`), and that now is an
integer (`NowAssumption`). Three arguments carry it:

* `SInv` says that calls find built providers (`BuiltFirst`), that an event is
  one its record allows (`CallsFit`), and that what each provider has is what
  the calls have been past, and all of it unless the provider was shut
  (`MeasuredFits`, `TracedFits`, `LoggedFits`). `LostOnlyToTheFlush` and the
  refinement `SignalsKeepsBooks` follow, and `BooksBalance`, what that contract
  comes to (`Balanced` of `Metering`).
* Lemmas about the conversions: truncation is the whole part on either side of
  zero (`TruncatedIsWholePart`), what `toInt` yields is a word and negative only
  for a cause (`IntsFit`), an integer arrives as it was sent (`ExactOrNone`) and
  what fits a word as its whole part (`WholePartFits`, `CountsFit`), a duration is
  the whole part of its scaled milliseconds (`DurationsFit`), a time is its sender's modulo the word
  (`TimesFit`). With what an event reads of its record (`EventsAreRead`) they give
  `NothingInventedNothingDropped`, `TimesAreTheSenders` and `TypeOK`.
* Lemmas about the mapping: what was reported is among the attributes under its
  key (`UsageRead`), the agent's own value wins under a key of its own
  (`PairsRead`), a series adds a direction to the dimensions and nothing else
  (`SeriesRead`), and its instance is the event's (`InstanceRead`). They give
  `SignalsAgree`.

Only model-checked is liveness, which is out of the prover's reach:
`ServingCollectorStops` and `DecodedIsAnswered` (run `collector`),
`EveryRequestIsAnswered` and `FlushReachesEveryProvider`. Two theorems give the
half of it that needs no fairness. `NothingIsDoneTwice` (`CollectorProofs`):
every step takes some goroutine or request on and none back, so that with
finitely many requests a collector can fail to end only by waiting.
`HandlersEnd` (`DispatchProofs`): each step of a handler leaves it less to do
and no other step gives it more, so that the loops over a body end however long
it is. That the waits themselves end is what the runs check.

## 5. Not modelled

* A double's precision: doubles are exact, in halves. A count or a duration
  above 2^53 loses its low bits in the program and not in the model.
* The SDK: batching, retries, its limits on attributes, its treatment of empty
  keys. What a provider accepted is taken as exported.
* Time between the reading of one configuration file and the next: all files
  are read from one file system, except that `--config` and the search for it
  are read by the two rules of the code.
* The registry's lock, since registration ends before `main` begins, and
  `Names`, which only prints.
* `Dispatch` composed with `ClaudeCode`, so that a request of several records
  meets the sink's life. `Collector` has that meeting for one record a request,
  `ClaudeCode` for one record of several points; no property was found that
  needs both.
* Rendering of messages, kong's parsing, protobuf and HTTP framing, TLS, and
  the release script.
