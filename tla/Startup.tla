------------------------------ MODULE Startup -------------------------------
(***************************************************************************)
(* From the process's start to the receiver's: adapter packages register   *)
(* (internal/adapter), the configuration is layered (cmd/didebaan,         *)
(* config.go), and the command runs (main.go).  `collect` builds adapter,  *)
(* exporter, sink and receiver in this order, and unwinds what it built    *)
(* when a later part fails.                                                *)
(*                                                                         *)
(* A layer of configuration is a function from some of the settings to     *)
(* their texts.  Parsing is the library kong's, modelled from how the code *)
(* uses it.                                                                *)
(***************************************************************************)
EXTENDS Naturals, Sequences, FiniteSetsExt

CONSTANTS
  Binaries,      \* sets of adapter packages: [name, factory, consumer, claims]
  CommandLines,  \* sequences of [flag, value]
  Environments,  \* layers: the DIDEBAAN_* variables, "config" among them
  FileSystems,   \* functions from paths to contents: [state, layer, adapters]
  Loops          \* pairs of an export endpoint and a listen address that collide

\* The empty path names no file.
ASSUME PathAssumption == \A f \in FileSystems : "" \notin DOMAIN f

VARIABLES
  compiled, args, env, files, command,  \* what the process is given
  pending,    \* packages whose init has not run
  registry,   \* from names to packages
  stage,      \* where the process is
  settings,   \* the CLI struct
  adapter,    \* what adapter.New returned: [package, forwards]
  exporter,   \* [state, endpoint]: "none", "open" or "shut"
  exit        \* "none", or how the process ends

given == <<compiled, args, env, files, command>>
built == <<settings, adapter, exporter>>
vars  == <<given, pending, registry, stage, built, exit>>

Settings == {"adapter", "otlp-endpoint", "otlp-insecure", "receiver-grpc", "receiver-http"}

\* The defaults in CLI's tags.
Default ==
  [s \in Settings |->
     CASE s = "adapter"       -> "claude-code"
       [] s = "otlp-endpoint" -> ""
       [] s = "otlp-insecure" -> "false"
       [] s = "receiver-grpc" -> "127.0.0.1:4317"
       [] s = "receiver-http" -> "127.0.0.1:4318"]

\* A function of no argument.
Empty == [x \in {} |-> x]
NoAdapter == [package |-> [name |-> "", factory |-> FALSE, consumer |-> FALSE, claims |-> FALSE],
              forwards |-> FALSE]

Stages == {"init", "parse", "run", "consumer", "check", "exporter", "sink", "receiver",
           "serving", "flush", "ended"}

TypeOK ==
  /\ compiled \in Binaries /\ pending \subseteq compiled
  /\ args \in CommandLines /\ env \in Environments /\ files \in FileSystems
  /\ command \in {"collect", "adapters", "version"}
  /\ \A name \in DOMAIN registry : registry[name] \in compiled \ pending
  /\ stage \in Stages
  /\ DOMAIN settings = Settings
  /\ adapter.package \in compiled \cup {NoAdapter.package} /\ adapter.forwards \in BOOLEAN
  /\ exporter.state \in {"none", "open", "shut"}
  /\ exit \in {"none", "ok", "error", "panic"}
  /\ stage \in {"flush", "ended"} <=> exit # "none"

Init ==
  /\ compiled \in Binaries /\ args \in CommandLines
  /\ env \in Environments /\ files \in FileSystems
  /\ command \in {"collect", "adapters", "version"}
  /\ pending = compiled
  /\ registry = Empty
  /\ stage = "init"
  /\ settings = Default
  /\ adapter = NoAdapter
  /\ exporter = [state |-> "none", endpoint |-> ""]
  /\ exit = "none"

\* A slip: the process ends without the deferred calls.
StopAtOnce(how) == exit' = how /\ stage' = "ended"

\* The command returns: what was deferred runs, then the process ends.
Stop(how) ==
  /\ exit' = how
  /\ stage' = IF exporter.state = "open" THEN "flush" ELSE "ended"

\* A slip: success is presumed.
GotoPresumingSuccess(next) == stage' = next /\ exit' = "ok"

Goto(next) == stage' = next /\ UNCHANGED exit

-----------------------------------------------------------------------------
(* The registry.                                                           *)

Registrable(p) == p.name # "" /\ p.factory /\ p.name \notin DOMAIN registry

\* A package's init registers its factory.
Register(p) ==
  /\ stage = "init" /\ p \in pending
  /\ Registrable(p)
  /\ registry' = [name \in DOMAIN registry \cup {p.name} |->
                    IF name = p.name THEN p ELSE registry[name]]
  /\ pending' = pending \ {p}
  /\ UNCHANGED <<given, stage, built, exit>>

RegisterPanics(p) ==
  /\ stage = "init" /\ p \in pending
  /\ ~Registrable(p)
  /\ Stop("panic")
  /\ UNCHANGED <<given, pending, registry, built>>

\* claudecode.New: what it makes of its configuration, if it takes it.
cfgForwardIdentity == "forward_identity"
Accepted(cfg) == \A key \in DOMAIN cfg : key = cfgForwardIdentity /\ cfg[key] \in {"true", "false"}
Forwards(cfg) == cfgForwardIdentity \in DOMAIN cfg /\ cfg[cfgForwardIdentity] = "true"

-----------------------------------------------------------------------------
(* Configuration.                                                          *)

defaultConfigPath == "/etc/didebaan/config.yaml"

Places(flag) == {i \in DOMAIN args : args[i].flag = flag}

\* The first --config, else DIDEBAAN_CONFIG.
resolveConfigPath ==
  IF Places("config") # {} THEN args[Min(Places("config"))].value
  ELSE IF "config" \in DOMAIN env THEN env["config"] ELSE ""

\* kong.Configuration: the files to load if they are there.
ConfigPaths == {defaultConfigPath, resolveConfigPath} \ {""}

Content(path) ==
  IF path \in DOMAIN files THEN files[path]
  ELSE [state |-> "absent", layer |-> Empty, adapters |-> Empty]

\* kong.ConfigFlag: the file of the last --config, loaded while parsing.
FlagPath == args[Max(Places("config"))].value

FlagLayer == IF Places("config") = {} THEN Empty ELSE Content(FlagPath).layer

\* A slip: files last.
EnvBelowFiles ==
  <<env, Content(defaultConfigPath).layer, Content(resolveConfigPath).layer, FlagLayer>>

\* The resolvers, of which the last that knows a setting wins: the files, the
\* environment, and what the --config flag adds to them.  Without a file a
\* resolver knows nothing.
Resolvers ==
  <<Content(defaultConfigPath).layer, Content(resolveConfigPath).layer, env, FlagLayer>>

\* Resolution skips what the command line sets.
Resolved(s) ==
  LET known == {i \in DOMAIN Resolvers : s \in DOMAIN Resolvers[i]}
  IN  IF Places(s) # {} THEN args[Max(Places(s))].value
      ELSE IF known # {} THEN Resolvers[Max(known)][s] ELSE Default[s]

Malformed(path) == Content(path).state = "malformed"

\* A slip: every file is optional.
ParsesIfThere ==
  /\ Places("config") # {} => ~Malformed(FlagPath)
  /\ Resolved("otlp-insecure") \in {"true", "false"}

Parses ==
  /\ Places("config") # {} => Content(FlagPath).state = "read"
  /\ Resolved("otlp-insecure") \in {"true", "false"}

\* kong.New loads the files that are there.
Load ==
  /\ stage = "init" /\ pending = {}
  /\ IF \E path \in ConfigPaths : Malformed(path) THEN Stop("error") ELSE Goto("parse")
  /\ UNCHANGED <<given, pending, registry, built>>

\* parser.Parse, and the command is dispatched.
Parse ==
  /\ stage = "parse"
  /\ Parses
  /\ settings' = [s \in Settings |-> Resolved(s)]
  /\ Goto("run")
  /\ UNCHANGED <<given, pending, registry, adapter, exporter>>

ParseFails ==
  /\ stage = "parse"
  /\ ~Parses
  /\ Stop("error")
  /\ UNCHANGED <<given, pending, registry, built>>

-----------------------------------------------------------------------------
(* The commands.                                                           *)

wiring == <<given, pending, registry, settings>>

\* AdaptersCmd and VersionCmd.
Inform == stage = "run" /\ command # "collect" /\ Stop("ok") /\ UNCHANGED <<wiring, adapter, exporter>>

\* adapter.New with the configuration CollectCmd.Run passes: none.
NewAdapter ==
  /\ stage = "run" /\ command = "collect"
  /\ settings["adapter"] \in DOMAIN registry /\ Accepted(Empty)
  /\ adapter' = [package |-> registry[settings["adapter"]], forwards |-> Forwards(Empty)]
  /\ Goto("consumer")
  /\ UNCHANGED <<wiring, exporter>>

NewAdapterFails ==
  /\ stage = "run" /\ command = "collect"
  /\ ~(settings["adapter"] \in DOMAIN registry /\ Accepted(Empty))
  /\ Stop("error")
  /\ UNCHANGED <<wiring, adapter, exporter>>

\* The adapter has to ingest from the receiver.
Consumes ==
  /\ stage = "consumer"
  /\ IF adapter.package.consumer THEN Goto("check") ELSE Stop("error")
  /\ UNCHANGED <<wiring, adapter, exporter>>

\* A slip: the first address is all.
ListenGRPC == {settings["receiver-grpc"]} \ {""}

ListenAddrs == {settings["receiver-grpc"], settings["receiver-http"]} \ {""}

\* CheckNoSelfExport, which module SelfExport takes apart.
CheckPasses ==
  /\ stage = "check"
  /\ \A l \in ListenAddrs : <<settings["otlp-endpoint"], l>> \notin Loops
  /\ Goto("exporter")
  /\ UNCHANGED <<wiring, adapter, exporter>>

\* It finds a loop, or cannot resolve an address.
CheckRefuses == stage = "check" /\ Stop("error") /\ UNCHANGED <<wiring, adapter, exporter>>

NewExporter ==
  /\ stage = "exporter"
  /\ exporter' = [state |-> "open", endpoint |-> settings["otlp-endpoint"]]
  /\ Goto("sink")
  /\ UNCHANGED <<wiring, adapter>>

NewSink == stage = "sink" /\ Goto("receiver") /\ UNCHANGED <<wiring, adapter, exporter>>

\* receiver.New: something to listen on, and a claim by scope.
NewReceiver ==
  /\ stage = "receiver"
  /\ ListenAddrs # {} /\ adapter.package.claims
  /\ Goto("serving")
  /\ UNCHANGED <<wiring, adapter, exporter>>

\* Each of the three may fail, for reasons of its own; nothing is served.
BuildFails ==
  /\ stage \in {"exporter", "sink", "receiver"}
  /\ Stop("error")
  /\ UNCHANGED <<wiring, adapter, exporter>>

\* Start returns, which module Collector takes apart.
Return ==
  /\ stage = "serving"
  /\ \E how \in {"ok", "error"} : Stop(how)
  /\ UNCHANGED <<wiring, adapter, exporter>>

Flush ==
  /\ stage = "flush"
  /\ exporter' = [exporter EXCEPT !.state = "shut"]
  /\ stage' = "ended"
  /\ UNCHANGED <<wiring, adapter, exit>>

Ended == stage = "ended" /\ UNCHANGED vars

Next ==
  \/ \E p \in pending : Register(p) \/ RegisterPanics(p)
  \/ Load \/ Parse \/ ParseFails
  \/ Inform \/ NewAdapter \/ NewAdapterFails \/ Consumes
  \/ CheckPasses \/ CheckRefuses \/ NewExporter \/ NewSink \/ NewReceiver \/ BuildFails
  \/ Return \/ Flush \/ Ended

Spec == Init /\ [][Next]_vars

-----------------------------------------------------------------------------
(* Properties.                                                             *)

Last(flag) == args[Max(Places(flag))].value
FromFlag(s) == s \in Settings /\ Places(s) # {}
FromFlagFile(s) == Places("config") # {} /\ s \in DOMAIN Content(Last("config")).layer
FromFile(s) ==
  \E path \in {defaultConfigPath, resolveConfigPath} : s \in DOMAIN Content(path).layer

\* config.go: file < env < flag, for every setting and every way to give it
\* twice.  The environment outranks the default file and the one that the
\* search for a file finds (EnvironmentOutranksFiles is about the third); of
\* the files the one the parser takes from --config comes first, then the one
\* the search took, then the default file; and what nobody gives is the default.
LayersInOrder ==
  stage \notin {"init", "parse", "ended"} =>
    \A s \in Settings :
      LET ByName(path) == s \in DOMAIN Content(path).layer
          Says(path)   == settings[s] = Content(path).layer[s]
      IN  IF FromFlag(s) THEN settings[s] = Last(s)
          ELSE IF s \in DOMAIN env THEN FromFlagFile(s) \/ settings[s] = env[s]
          ELSE \/ FromFlagFile(s) /\ Says(Last("config"))
               \/ ~FromFlagFile(s) /\ ByName(resolveConfigPath) /\ Says(resolveConfigPath)
               \/ /\ ~FromFlagFile(s) /\ ~ByName(resolveConfigPath)
                  /\ ByName(defaultConfigPath) /\ Says(defaultConfigPath)
               \/ ~FromFlagFile(s) /\ ~FromFile(s) /\ settings[s] = Default[s]

\* config.go, kongOptions: the file of --config outranks the default files and
\* sits below the environment, as every file does.
EnvironmentOutranksFiles ==
  stage \notin {"init", "parse", "ended"} =>
    \A s \in Settings : s \in DOMAIN env /\ ~FromFlag(s) => settings[s] = env[s]

\* CollectCmd.Run: the exporters are given the endpoint that was checked, and
\* exist only if it collides with none of the addresses that are served.
NoLoopIsOpened ==
  exporter.state # "none" =>
    \A s \in {"receiver-grpc", "receiver-http"} :
      settings[s] # "" => <<exporter.endpoint, settings[s]>> \notin Loops

\* The deferred Shutdown: on every way out, errors and a clean return, no
\* exporter that was opened is left unflushed.
EveryExitFlushes == stage = "ended" => exporter.state # "open"

\* A collector that serves was configured soundly: no file it was told of is
\* broken, the one its --config names was there, its adapter is the only one
\* of the binary that has the name it was given, whatever the order in which
\* the packages registered, and takes what the receiver offers, and it has an
\* address to receive on.
UnsoundConfigurationIsRefused ==
  stage = "serving" =>
    /\ \A path \in {defaultConfigPath, resolveConfigPath} : Content(path).state # "malformed"
    /\ \A i \in Places("config") : i = Max(Places("config")) => Content(args[i].value).state = "read"
    /\ {p \in compiled : p.name = settings["adapter"]} = {adapter.package}
    /\ adapter.package.consumer /\ adapter.package.claims
    /\ settings["receiver-grpc"] # "" \/ settings["receiver-http"] # ""

\* USAGE.md: forwarding the attributes that identify a person is an explicit
\* choice, made in a configuration file for the adapter by its name.
ForwardingIsAChoice ==
  stage = "serving" =>
    \A path \in {defaultConfigPath, resolveConfigPath} :
      LET choices == Content(path).adapters
      IN  adapter.package.name \in DOMAIN choices /\ Forwards(choices[adapter.package.name])
            => adapter.forwards
=============================================================================
