--------------------------- MODULE StartupProofs ----------------------------
(***************************************************************************)
(* What start-up guarantees for every binary, command line, environment,   *)
(* file system and relation of addresses that collide.                     *)
(***************************************************************************)
EXTENDS Startup, TLAPS

-----------------------------------------------------------------------------
(* The inductive invariant.                                                *)

Over     == {"flush", "ended"}
Building == {"exporter", "sink", "receiver", "serving"}

\* Who has registered is found under his name, and nobody else is.
Registered ==
  /\ \A p \in compiled \ pending : p.name \in DOMAIN registry /\ registry[p.name] = p
  /\ \A name \in DOMAIN registry : registry[name].name = name
  /\ stage \notin {"init"} \cup Over => pending = {}

\* The exporters exist only once the configuration is final.
ExporterIsLate ==
  /\ exporter = [state |-> exporter.state, endpoint |-> exporter.endpoint]
  /\ exporter.state # "none" => stage \in {"sink", "receiver", "serving"} \cup Over
  /\ stage = "flush" => exporter.state = "open"
  /\ stage = "ended" => exporter.state # "open"

NoPairLoops(endpoint) == \A l \in ListenAddrs : <<endpoint, l>> \notin Loops

\* What was checked is what is opened.
CheckedIsOpened ==
  /\ stage \in Building => NoPairLoops(settings["otlp-endpoint"])
  /\ exporter.state # "none" => NoPairLoops(exporter.endpoint)

\* The settings are those of the layers.
SettingsResolved ==
  stage \notin {"init", "parse", "ended"} => settings = [s \in Settings |-> Resolved(s)]

FilesAreRead ==
  /\ stage \notin {"init"} \cup Over =>
       ~Malformed(defaultConfigPath) /\ ~Malformed(resolveConfigPath)
  /\ stage \notin {"init", "parse"} \cup Over => Parses

\* Each check on the way to "serving" still holds there.
AdapterFits ==
  /\ stage \in {"consumer", "check"} \cup Building =>
       settings["adapter"] \in DOMAIN registry /\ adapter.package = registry[settings["adapter"]]
  /\ stage \in {"check"} \cup Building => adapter.package.consumer
  /\ stage = "serving" => adapter.package.claims /\ ListenAddrs # {}

IInv ==
  /\ TypeOK /\ Registered /\ ExporterIsLate /\ CheckedIsOpened
  /\ SettingsResolved /\ FilesAreRead /\ AdapterFits

LEMMA InitIInv == Init => IInv
<1> SUFFICES ASSUME Init PROVE IInv
  OBVIOUS
<1>1. DOMAIN Default = Settings
  BY DEF Default
<1>2. DOMAIN registry = {}
  BY DEF Init, Empty
<1>3. exporter.state = "none"
  BY DEF Init
<1>4. adapter.package = NoAdapter.package /\ adapter.forwards \in BOOLEAN
  BY DEF Init, NoAdapter
<1>5. stage \in Stages
  BY DEF Init, Stages
<1>6. TypeOK
  BY <1>1, <1>2, <1>3, <1>4, <1>5 DEF Init, TypeOK
<1> QED BY <1>2, <1>3, <1>6 DEF Init, IInv, Registered, ExporterIsLate, CheckedIsOpened, Over,
           Building, SettingsResolved, FilesAreRead, AdapterFits

\* What the layers say depends on what the process was given alone.
LEMMA GivenIsConstant ==
  ASSUME UNCHANGED given
  PROVE  /\ \A s \in Settings : Resolved(s)' = Resolved(s)
         /\ Parses' = Parses
         /\ resolveConfigPath' = resolveConfigPath
         /\ \A path : Malformed(path)' = Malformed(path)
BY DEF given, Resolved, Parses, resolveConfigPath, Malformed, Places, Resolvers, ConfigPaths,
       Content, FlagLayer, FlagPath

\* However a command ends, it leaves the rest as it was.
LEMMA StopKeepsIInv ==
  ASSUME IInv, stage \notin Over, NEW how \in {"ok", "error", "panic"}, Stop(how),
         UNCHANGED <<given, pending, registry, built>>
  PROVE  IInv'
<1> USE DEF IInv, Over, given, built
<1>1. TypeOK'
  BY DEF TypeOK, Stop, Stages
<1>2. Registered' /\ ExporterIsLate'
  BY DEF Registered, ExporterIsLate, Stop, TypeOK
<1>3. CheckedIsOpened'
  BY DEF CheckedIsOpened, Stop, Building, NoPairLoops, ListenAddrs
<1>4. SettingsResolved'
  <2>1. CASE exporter.state = "open"
    BY <2>1, GivenIsConstant DEF SettingsResolved, Stop, ExporterIsLate
  <2>2. CASE exporter.state # "open"
    BY <2>2 DEF SettingsResolved, Stop
  <2> QED BY <2>1, <2>2
<1>5. FilesAreRead' /\ AdapterFits'
  BY DEF FilesAreRead, AdapterFits, Stop, Building
<1> QED BY <1>1, <1>2, <1>3, <1>4, <1>5

\* What is loaded, and not malformed, includes both files.
LEMMA LoadedFiles ==
  ASSUME files \in FileSystems, \A path \in ConfigPaths : ~Malformed(path)
  PROVE  ~Malformed(defaultConfigPath) /\ ~Malformed(resolveConfigPath)
<1>1. ~Malformed("")
  BY PathAssumption DEF Malformed, Content
<1>2. defaultConfigPath \in ConfigPaths
  BY DEF ConfigPaths, defaultConfigPath
<1> QED BY <1>1, <1>2 DEF ConfigPaths

\* Each of the following lemmas is about some of the actions.
LEMMA RegistrationKeepsIInv ==
  ASSUME IInv, NEW p \in pending, Register(p) \/ RegisterPanics(p) PROVE IInv'
<1> USE DEF IInv, TypeOK, Registered, ExporterIsLate, CheckedIsOpened, NoPairLoops, ListenAddrs,
            SettingsResolved, FilesAreRead, AdapterFits, Over, Building, Stages
<1>1. UNCHANGED given
  BY DEF Register, RegisterPanics
<1>2. CASE Register(p)
  BY <1>1, <1>2, GivenIsConstant DEF Register, Registrable, given, built
<1>3. CASE RegisterPanics(p)
  BY <1>3, StopKeepsIInv DEF RegisterPanics
<1> QED BY <1>2, <1>3

LEMMA ConfigurationKeepsIInv ==
  ASSUME IInv, Load \/ Parse \/ ParseFails PROVE IInv'
<1> USE DEF IInv, TypeOK, Registered, ExporterIsLate, CheckedIsOpened, NoPairLoops, ListenAddrs,
            SettingsResolved, FilesAreRead, AdapterFits, Over, Building, Stages
<1>1. UNCHANGED given
  BY DEF Load, Parse, ParseFails
<1>2. CASE Load
  <2>1. CASE \E path \in ConfigPaths : Malformed(path)
    BY <1>2, <2>1, StopKeepsIInv DEF Load
  <2>2. CASE \A path \in ConfigPaths : ~Malformed(path)
    <3>1. ~Malformed(defaultConfigPath) /\ ~Malformed(resolveConfigPath)
      BY <2>2, LoadedFiles
    <3> QED BY <1>1, <1>2, <2>2, <3>1, GivenIsConstant DEF Load, Goto, given, built
  <2> QED BY <2>1, <2>2
<1>3. CASE Parse
  BY <1>1, <1>3, GivenIsConstant DEF Parse, Goto, given
<1>4. CASE ParseFails
  BY <1>4, StopKeepsIInv DEF ParseFails
<1> QED BY <1>2, <1>3, <1>4

\* While the command runs, what registration and the configuration settled
\* stays as it is.
Running == {"run", "consumer", "check"} \cup Building

LEMMA RunningKeeps ==
  ASSUME IInv, stage \in Running, stage' \in Running,
         UNCHANGED <<given, pending, registry, settings, exit>>
  PROVE  Registered' /\ SettingsResolved' /\ FilesAreRead'
<1>1. stage \notin {"init", "parse"} \cup Over /\ stage' \notin {"init", "parse"} \cup Over
  BY DEF Running, Building, Over
<1>2. UNCHANGED <<given, compiled, pending, registry, settings>>
  BY DEF given
<1>3. Registered'
  BY <1>1, <1>2 DEF IInv, Registered
<1>4. SettingsResolved'
  <2>1. \A s \in Settings : Resolved(s)' = Resolved(s)
    BY <1>2, GivenIsConstant
  <2>2. settings = [s \in Settings |-> Resolved(s)]
    BY <1>1 DEF IInv, SettingsResolved, Over
  <2> QED BY <1>2, <2>1, <2>2 DEF SettingsResolved
<1>5. FilesAreRead'
  <2>1. /\ Parses' = Parses
        /\ ~Malformed(defaultConfigPath) <=> ~Malformed(defaultConfigPath)'
        /\ ~Malformed(resolveConfigPath) <=> ~Malformed(resolveConfigPath)'
    BY <1>2, GivenIsConstant
  <2>2. Parses /\ ~Malformed(defaultConfigPath) /\ ~Malformed(resolveConfigPath)
    BY <1>1 DEF IInv, FilesAreRead
  <2> QED BY <2>1, <2>2 DEF FilesAreRead
<1> QED BY <1>3, <1>4, <1>5

\* A step of the command from one place to the next, which leaves the other
\* parts of the invariant to be shown.
LEMMA StepKeepsIInv ==
  ASSUME IInv, stage \in Running, stage' \in Running,
         UNCHANGED <<given, pending, registry, settings, exit>>,
         adapter'.package \in compiled \cup {NoAdapter.package}, adapter'.forwards \in BOOLEAN,
         exporter'.state \in {"none", "open", "shut"},
         ExporterIsLate', CheckedIsOpened', AdapterFits'
  PROVE  IInv'
<1>1. UNCHANGED <<compiled, args, env, files, command>>
  BY DEF given
<1>2. /\ stage \in Stages /\ stage' \in Stages
      /\ stage \notin {"flush", "ended"} /\ stage' \notin {"flush", "ended"}
  BY DEF Running, Building, Stages
<1>3. TypeOK'
  BY <1>1, <1>2 DEF IInv, TypeOK
<1> QED BY <1>3, RunningKeeps DEF IInv

LEMMA CommandKeepsIInv ==
  ASSUME IInv,
         \/ Inform \/ NewAdapter \/ NewAdapterFails \/ Consumes \/ CheckPasses \/ CheckRefuses
         \/ NewExporter \/ NewSink \/ NewReceiver \/ BuildFails \/ Return \/ Flush
  PROVE  IInv'
<1> USE DEF Running, Building, Over, Goto, wiring
<1>0. /\ adapter.package \in compiled \cup {NoAdapter.package} /\ adapter.forwards \in BOOLEAN
      /\ exporter.state \in {"none", "open", "shut"}
      /\ \A name \in DOMAIN registry : registry[name] \in compiled
  BY DEF IInv, TypeOK
<1>1. UNCHANGED given
  BY DEF Inform, NewAdapter, NewAdapterFails, Consumes, CheckPasses, CheckRefuses,
         NewExporter, NewSink, NewReceiver, BuildFails, Return, Flush
<1>2. /\ UNCHANGED <<compiled, args, env, files, command>>
      /\ \A s \in Settings : Resolved(s)' = Resolved(s)
      /\ Parses' = Parses
      /\ ~Malformed(defaultConfigPath) <=> ~Malformed(defaultConfigPath)'
      /\ ~Malformed(resolveConfigPath) <=> ~Malformed(resolveConfigPath)'
  BY <1>1, GivenIsConstant DEF given
<1>3. CASE Inform BY <1>3, StopKeepsIInv DEF Inform, given, built
<1>4. CASE NewAdapter
  <2>1. /\ stage = "run" /\ stage' = "consumer" /\ settings["adapter"] \in DOMAIN registry
        /\ adapter' = [package |-> registry[settings["adapter"]], forwards |-> Forwards(Empty)]
        /\ UNCHANGED <<given, pending, registry, settings, exit, exporter>>
    BY <1>4 DEF NewAdapter
  <2>2. /\ adapter'.package = registry[settings["adapter"]] /\ adapter'.forwards \in BOOLEAN
        /\ adapter'.package \in compiled
    BY <1>0, <2>1 DEF Forwards
  <2>3. ExporterIsLate' /\ CheckedIsOpened'
    BY <2>1 DEF IInv, ExporterIsLate, CheckedIsOpened, NoPairLoops, ListenAddrs
  <2>4. AdapterFits'
    BY <2>1, <2>2 DEF AdapterFits
  <2> QED BY <1>0, <2>1, <2>2, <2>3, <2>4, StepKeepsIInv
<1>5. CASE NewAdapterFails BY <1>5, StopKeepsIInv DEF NewAdapterFails, given, built
<1>6. CASE Consumes
  <2>1. CASE adapter.package.consumer
    <3>1. /\ stage = "consumer" /\ stage' = "check"
          /\ UNCHANGED <<given, pending, registry, settings, exit, adapter, exporter>>
      BY <1>6, <2>1 DEF Consumes
    <3>2. ExporterIsLate' /\ CheckedIsOpened'
      BY <3>1 DEF IInv, ExporterIsLate, CheckedIsOpened, NoPairLoops, ListenAddrs
    <3>3. AdapterFits'
      BY <2>1, <3>1 DEF IInv, AdapterFits
    <3> QED BY <1>0, <3>1, <3>2, <3>3, StepKeepsIInv
  <2>2. CASE ~adapter.package.consumer
    BY <1>6, <2>2, StopKeepsIInv DEF Consumes, given, built
  <2> QED BY <2>1, <2>2
<1>7. CASE CheckPasses
  <2>1. /\ stage = "check" /\ stage' = "exporter" /\ NoPairLoops(settings["otlp-endpoint"])
        /\ UNCHANGED <<given, pending, registry, settings, exit, adapter, exporter>>
    BY <1>7 DEF CheckPasses, NoPairLoops
  <2>2. ExporterIsLate' /\ CheckedIsOpened'
    BY <2>1 DEF IInv, ExporterIsLate, CheckedIsOpened, NoPairLoops, ListenAddrs
  <2>3. AdapterFits'
    BY <2>1 DEF IInv, AdapterFits
  <2> QED BY <1>0, <2>1, <2>2, <2>3, StepKeepsIInv
<1>8. CASE CheckRefuses BY <1>8, StopKeepsIInv DEF CheckRefuses, given, built
<1>9. CASE NewExporter
  <2>1. /\ stage = "exporter" /\ stage' = "sink"
        /\ exporter' = [state |-> "open", endpoint |-> settings["otlp-endpoint"]]
        /\ UNCHANGED <<given, pending, registry, settings, exit, adapter>>
    BY <1>9 DEF NewExporter
  <2>2. exporter'.state = "open" /\ exporter'.endpoint = settings["otlp-endpoint"]
    BY <2>1
  <2>3. ExporterIsLate'
    BY <2>1, <2>2 DEF ExporterIsLate
  <2>4. CheckedIsOpened'
    BY <2>1, <2>2 DEF IInv, CheckedIsOpened, NoPairLoops, ListenAddrs
  <2>5. AdapterFits'
    BY <2>1 DEF IInv, AdapterFits
  <2> QED BY <1>0, <2>1, <2>2, <2>3, <2>4, <2>5, StepKeepsIInv
<1>10. CASE NewSink
  <2>1. /\ stage = "sink" /\ stage' = "receiver"
        /\ UNCHANGED <<given, pending, registry, settings, exit, adapter, exporter>>
    BY <1>10 DEF NewSink
  <2>2. ExporterIsLate' /\ CheckedIsOpened'
    BY <2>1 DEF IInv, ExporterIsLate, CheckedIsOpened, NoPairLoops, ListenAddrs
  <2>3. AdapterFits'
    BY <2>1 DEF IInv, AdapterFits
  <2> QED BY <1>0, <2>1, <2>2, <2>3, StepKeepsIInv
<1>11. CASE NewReceiver
  <2>1. /\ stage = "receiver" /\ stage' = "serving"
        /\ ListenAddrs # {} /\ adapter.package.claims
        /\ UNCHANGED <<given, pending, registry, settings, exit, adapter, exporter>>
    BY <1>11 DEF NewReceiver
  <2>2. ExporterIsLate' /\ CheckedIsOpened'
    BY <2>1 DEF IInv, ExporterIsLate, CheckedIsOpened, NoPairLoops, ListenAddrs
  <2>3. AdapterFits'
    BY <2>1 DEF IInv, AdapterFits, ListenAddrs
  <2> QED BY <1>0, <2>1, <2>2, <2>3, StepKeepsIInv
<1>12. CASE BuildFails BY <1>12, StopKeepsIInv DEF BuildFails, given, built
<1>13. CASE Return
  <2>1. PICK how \in {"ok", "error"} : Stop(how)
    BY <1>13 DEF Return
  <2> QED BY <1>13, <2>1, StopKeepsIInv DEF Return, given, built
<1>14. CASE Flush
  <2>1. /\ stage = "flush" /\ stage' = "ended" /\ exporter' = [exporter EXCEPT !.state = "shut"]
        /\ UNCHANGED <<given, pending, registry, settings, exit, adapter>>
    BY <1>14 DEF Flush
  <2>2. /\ exporter'.state = "shut" /\ exporter'.endpoint = exporter.endpoint
        /\ exporter' = [state |-> "shut", endpoint |-> exporter.endpoint]
    BY <2>1 DEF IInv, ExporterIsLate
  <2>3. TypeOK'
    BY <1>2, <2>1, <2>2 DEF IInv, TypeOK, Stages
  <2>4. Registered' /\ SettingsResolved' /\ FilesAreRead' /\ AdapterFits'
    BY <1>2, <2>1 DEF IInv, Registered, SettingsResolved, FilesAreRead, AdapterFits
  <2>5. ExporterIsLate'
    BY <2>1, <2>2 DEF ExporterIsLate
  <2>6. CheckedIsOpened'
    BY <2>1, <2>2 DEF IInv, ExporterIsLate, CheckedIsOpened, NoPairLoops, ListenAddrs
  <2> QED BY <2>3, <2>4, <2>5, <2>6 DEF IInv
<1> QED BY <1>3, <1>4, <1>5, <1>6, <1>7, <1>8, <1>9, <1>10, <1>11, <1>12, <1>13, <1>14

LEMMA IInvHolds == Spec => []IInv
<1>1. IInv /\ [Next]_vars => IInv'
  <2> SUFFICES ASSUME IInv, [Next]_vars PROVE IInv'
    OBVIOUS
  <2>1. CASE UNCHANGED vars
    <3>1. UNCHANGED given
      BY <2>1 DEF vars
    <3>2. UNCHANGED <<compiled, args, env, files, command, settings, adapter, exporter>>
      BY <2>1 DEF vars, given, built
    <3> USE <2>1, <3>1, <3>2, GivenIsConstant DEF vars, IInv
    <3>3. TypeOK' BY DEF TypeOK
    <3>4. Registered' BY DEF Registered
    <3>5. ExporterIsLate' BY DEF ExporterIsLate
    <3>6. CheckedIsOpened' BY DEF CheckedIsOpened, NoPairLoops, ListenAddrs
    <3>7. SettingsResolved' /\ FilesAreRead' BY DEF SettingsResolved, FilesAreRead
    <3>8. AdapterFits' BY DEF AdapterFits, ListenAddrs
    <3> QED BY <3>3, <3>4, <3>5, <3>6, <3>7, <3>8
  <2>2. CASE Ended
    BY <2>1, <2>2 DEF Ended
  <2> QED BY <2>1, <2>2, RegistrationKeepsIInv, ConfigurationKeepsIInv, CommandKeepsIInv DEF Next
<1> QED BY <1>1, InitIInv, PTL DEF Spec

-----------------------------------------------------------------------------
(* The theorems.                                                           *)

\* Type correctness.
THEOREM TypeCorrect == Spec => []TypeOK
BY IInvHolds, PTL DEF IInv

\* No exporter is opened on an endpoint that collides with a served address.
THEOREM NoLoopIsOpenedHolds == Spec => []NoLoopIsOpened
<1>1. IInv => NoLoopIsOpened
  BY DEF IInv, CheckedIsOpened, NoPairLoops, ListenAddrs, NoLoopIsOpened
<1> QED BY <1>1, IInvHolds, PTL

\* No way out of the process leaves an exporter unflushed.
THEOREM EveryExitFlushesHolds == Spec => []EveryExitFlushes
<1>1. IInv => EveryExitFlushes
  BY DEF IInv, ExporterIsLate, EveryExitFlushes
<1> QED BY <1>1, IInvHolds, PTL

\* Only a soundly configured collector serves.
THEOREM UnsoundConfigurationIsRefusedHolds == Spec => []UnsoundConfigurationIsRefused
<1>1. IInv => UnsoundConfigurationIsRefused
  <2> SUFFICES ASSUME IInv, stage = "serving" PROVE UnsoundConfigurationIsRefused
    BY DEF UnsoundConfigurationIsRefused
  <2> USE DEF IInv, Over, Building
  <2>1. Parses /\ ~Malformed(defaultConfigPath) /\ ~Malformed(resolveConfigPath)
    BY DEF FilesAreRead
  <2>2. \A i \in Places("config") : i = Max(Places("config")) => Content(args[i].value).state = "read"
    BY <2>1 DEF Parses, FlagPath
  <2>3. {p \in compiled : p.name = settings["adapter"]} = {adapter.package}
    BY DEF Registered, AdapterFits, TypeOK
  <2> QED BY <2>1, <2>2, <2>3 DEF UnsoundConfigurationIsRefused, Malformed, AdapterFits, ListenAddrs
<1> QED BY <1>1, IInvHolds, PTL

\* The greatest of the layers' numbers.
LEMMA MaxIs ==
  ASSUME NEW S \in SUBSET (1 .. 4), NEW m \in S, \A k \in S : k <= m
  PROVE  Max(S) = m
<1>1. \A k \in S : m >= k
  OBVIOUS
<1>2. \A n \in S : (\A k \in S : n >= k) => n = m
  OBVIOUS
<1> QED BY <1>1, <1>2 DEF Max

\* A setting that the command line does not give is that of the last layer that
\* knows it.
LEMMA LastLayerWins ==
  ASSUME NEW s \in Settings, Places(s) = {},
         NEW D, D = Content(defaultConfigPath).layer,
         NEW R, R = Content(resolveConfigPath).layer
  PROVE  /\ s \in DOMAIN FlagLayer => Resolved(s) = FlagLayer[s]
         /\ s \notin DOMAIN FlagLayer /\ s \in DOMAIN env => Resolved(s) = env[s]
         /\ s \notin DOMAIN FlagLayer /\ s \notin DOMAIN env =>
              /\ s \in DOMAIN R => Resolved(s) = R[s]
              /\ s \notin DOMAIN R /\ s \in DOMAIN D => Resolved(s) = D[s]
              /\ s \notin DOMAIN R /\ s \notin DOMAIN D => Resolved(s) = Default[s]
<1> DEFINE known == {i \in DOMAIN Resolvers : s \in DOMAIN Resolvers[i]}
<1>1. /\ DOMAIN Resolvers = 1 .. 4
      /\ Resolvers[1] = D /\ Resolvers[2] = R /\ Resolvers[3] = env /\ Resolvers[4] = FlagLayer
  BY DEF Resolvers
<1>2. /\ known \in SUBSET (1 .. 4)
      /\ 1 \in known <=> s \in DOMAIN D
      /\ 2 \in known <=> s \in DOMAIN R
      /\ 3 \in known <=> s \in DOMAIN env
      /\ 4 \in known <=> s \in DOMAIN FlagLayer
  BY <1>1
<1>3. Resolved(s) = IF known # {} THEN Resolvers[Max(known)][s] ELSE Default[s]
  BY DEF Resolved
<1> HIDE DEF known
<1>4. CASE 4 \in known
  <2>1. Max(known) = 4 BY <1>2, <1>4, MaxIs
  <2> QED BY <1>1, <1>2, <1>3, <1>4, <2>1
<1>5. CASE 4 \notin known /\ 3 \in known
  <2>1. \A k \in known : k <= 3 BY <1>2, <1>5
  <2>2. Max(known) = 3 BY <1>2, <1>5, <2>1, MaxIs
  <2> QED BY <1>1, <1>2, <1>3, <1>5, <2>2
<1>6. CASE 4 \notin known /\ 3 \notin known /\ 2 \in known
  <2>1. \A k \in known : k <= 2 BY <1>2, <1>6
  <2>2. Max(known) = 2 BY <1>2, <1>6, <2>1, MaxIs
  <2> QED BY <1>1, <1>2, <1>3, <1>6, <2>2
<1>7. CASE 4 \notin known /\ 3 \notin known /\ 2 \notin known /\ 1 \in known
  <2>1. \A k \in known : k <= 1 BY <1>2, <1>7
  <2>2. Max(known) = 1 BY <1>2, <1>7, <2>1, MaxIs
  <2> QED BY <1>1, <1>2, <1>3, <1>7, <2>2
<1>8. CASE 4 \notin known /\ 3 \notin known /\ 2 \notin known /\ 1 \notin known
  <2>1. known = {} BY <1>2, <1>8
  <2> QED BY <1>2, <1>3, <1>8, <2>1
<1> QED BY <1>4, <1>5, <1>6, <1>7, <1>8

\* Every setting comes from the layer that should win, for every command line,
\* environment and choice of files; which of the environment and a --config
\* file should is left to the finding on EnvironmentOutranksFiles.
THEOREM LayersInOrderHolds == Spec => []LayersInOrder
<1>1. IInv => LayersInOrder
  <2> SUFFICES ASSUME IInv, stage \notin {"init", "parse", "ended"}, NEW s \in Settings
               PROVE  LET ByName(path) == s \in DOMAIN Content(path).layer
                          Says(path)   == settings[s] = Content(path).layer[s]
                      IN  IF FromFlag(s) THEN settings[s] = Last(s)
                          ELSE IF s \in DOMAIN env THEN FromFlagFile(s) \/ settings[s] = env[s]
                          ELSE \/ FromFlagFile(s) /\ Says(Last("config"))
                               \/ ~FromFlagFile(s) /\ ByName(resolveConfigPath) /\ Says(resolveConfigPath)
                               \/ /\ ~FromFlagFile(s) /\ ~ByName(resolveConfigPath)
                                  /\ ByName(defaultConfigPath) /\ Says(defaultConfigPath)
                               \/ ~FromFlagFile(s) /\ ~FromFile(s) /\ settings[s] = Default[s]
    BY DEF LayersInOrder
  <2>1. settings[s] = Resolved(s)
    BY DEF IInv, SettingsResolved
  <2>2. FlagLayer = IF Places("config") = {} THEN Empty ELSE Content(Last("config")).layer
    BY DEF FlagLayer, FlagPath, Last
  <2>3. FromFlagFile(s) <=> s \in DOMAIN FlagLayer
    BY <2>2 DEF FromFlagFile, Empty
  <2>4. FromFlagFile(s) => FlagLayer = Content(Last("config")).layer
    BY <2>2 DEF FromFlagFile
  <2>5. FromFlag(s) => Resolved(s) = Last(s)
    BY DEF FromFlag, Resolved, Last
  <2>6. ~FromFlag(s) => Places(s) = {}
    BY DEF FromFlag
  <2> QED BY <2>1, <2>3, <2>4, <2>5, <2>6, LastLayerWins DEF FromFile
<1> QED BY <1>1, IInvHolds, PTL
=============================================================================
