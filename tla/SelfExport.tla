----------------------------- MODULE SelfExport -----------------------------
(***************************************************************************)
(* The refusal to export into the collector's own receiver                 *)
(* (internal/receiver/selfexport.go), the start-up that depends on it      *)
(* (CollectCmd.Run), and the connections the exporters then make.          *)
(*                                                                         *)
(* A host is an abstract name; `dns` says which addresses it stands for    *)
(* now, and may change after the check.  What dialling an address reaches  *)
(* is the network's behaviour, and the reference the check is held against.*)
(***************************************************************************)
CONSTANTS
  Addresses,     \* IP addresses
  Loopback,      \* those that are loopback addresses
  Unspecified,   \* 0.0.0.0 and ::
  Interfaces,    \* those assigned to this machine
  Resolvers,     \* the functions from host names to sets of addresses DNS may be
  Listens,       \* configurations of the receiver: [grpc, http] of addresses
  Endpoints,     \* what --otlp-endpoint may be, NoValue included
  Environments,  \* what the four variables may be: [shared, traces, metrics, logs]
  NoValue,       \* an empty string
  Broken         \* an endpoint hostPort leaves in a shape no host:port has

Signals    == {"traces", "metrics", "logs"}
Transports == {"grpc", "http"}

\* The port an endpoint without one gets, and the SDK's own endpoint.
defaultGRPCPort == "4317"
sdkDefaultEndpoint == [host |-> "localhost", port |-> defaultGRPCPort]

ASSUME AddressAssumption ==
  /\ Loopback \cup Unspecified \cup Interfaces \subseteq Addresses
  /\ Loopback \cap Unspecified = {} /\ Interfaces \cap Unspecified = {}

VARIABLES
  listen,      \* receiver.Config: an address or NoValue for each transport
  configured,  \* the endpoint configured in-process
  env,         \* the endpoints in the environment
  dns,         \* what every host name resolves to now
  checked,     \* what it resolved to when the check ran
  stage,       \* "init", "refused", "failed" (an error of the check) or "running"
  looped       \* signals whose exporter has connected to the receiver itself

vars == <<listen, configured, env, dns, checked, stage, looped>>

TypeOK ==
  /\ listen \in Listens
  /\ configured \in Endpoints
  /\ env \in Environments
  /\ dns \in Resolvers
  /\ checked \in Resolvers
  /\ stage \in {"init", "refused", "failed", "running"}
  /\ looped \subseteq Signals

-----------------------------------------------------------------------------
(* The check.                                                              *)

\* hostPort: a URL gives its host and port, one without a port the gRPC one;
\* what cannot be reduced is passed on as it is.
hostPort(endpoint) ==
  IF endpoint = Broken THEN Broken
  ELSE [host |-> endpoint.host,
        port |-> IF endpoint.port = NoValue /\ endpoint.url
                   THEN defaultGRPCPort ELSE endpoint.port]

\* ResolveExportEndpoints: the configured endpoint wins for every signal; then
\* the signal's variable, then the shared one, then the SDK's default.
ResolveExportEndpoints ==
  [s \in Signals |->
     IF configured # NoValue THEN hostPort(configured)
     ELSE IF env[s] # NoValue THEN hostPort(env[s])
     ELSE IF env.shared # NoValue THEN hostPort(env.shared)
     ELSE sdkDefaultEndpoint]

\* net.SplitHostPort fails without a port.
Parses(export) == export # Broken /\ export.port # NoValue

\* Slips: only loopback is local; or everything that resolves is.
anyIsLoopback(ips) == ips \cap Loopback # {}
anyResolves(ips) == ips # {}

\* anyIsLocal: loopback, or an address of one of the interfaces.
anyIsLocal(ips) == ips \cap (Loopback \cup Interfaces) # {}

\* addrsCollide answers TRUE, names resolving as the table `names` says.
Collide(l, export, names) ==
  LET exportIPs == names[export.host]
      listenIPs == names[l.host]
  IN  /\ Parses(export)
      /\ l.port = export.port
      /\ exportIPs # {}
      /\ IF listenIPs \cap Unspecified # {}
           THEN anyIsLocal(exportIPs)
           ELSE \/ listenIPs \cap exportIPs # {}
                \/ listenIPs \cap Loopback # {} /\ exportIPs \cap Loopback # {}

\* The receiver's own address has no port, or does not resolve when an answer
\* needs it to.
CheckErrs(l, export, names) ==
  \/ l.port = NoValue
  \/ /\ Parses(export)
     /\ l.port = export.port
     /\ names[export.host] # {}
     /\ names[l.host] = {}

\* An answer needs the machine's own interfaces, which may fail to enumerate.
NeedsInterfaces(l, export, names) ==
  /\ Parses(export)
  /\ l.port = export.port
  /\ names[export.host] # {} /\ names[export.host] \cap Loopback = {}
  /\ names[l.host] \cap Unspecified # {}

ListenAddrs == {listen[t] : t \in Transports} \ {NoValue}

Init ==
  /\ listen \in Listens
  /\ configured \in Endpoints
  /\ env \in Environments
  /\ dns \in Resolvers
  /\ checked = dns
  /\ stage = "init"
  /\ looped = {}

\* No pair of this listening address collides or errs.
Clean(l, names) ==
  \A s \in Signals : ~Collide(l, ResolveExportEndpoints[s], names)
                     /\ ~CheckErrs(l, ResolveExportEndpoints[s], names)

\* CheckNoSelfExport takes the gRPC address first; it comes to the HTTP one
\* only if it has found no fault there.
Entered ==
  {t \in Transports : /\ listen[t] # NoValue
                      /\ t = "http" /\ listen["grpc"] # NoValue => Clean(listen["grpc"], dns)}

\* The check ends, with what names stood for then.
EndCheck(verdict) ==
  /\ stage = "init"
  /\ stage' = verdict
  /\ checked' = dns
  /\ UNCHANGED <<listen, configured, env, dns, looped>>

\* A pair collides: the collector refuses to start.  The endpoints are a Go
\* map, taken in any order, and the first fault decides.
RefuseLoop ==
  /\ \E t \in Entered, s \in Signals : Collide(listen[t], ResolveExportEndpoints[s], dns)
  /\ EndCheck("refused")

\* A slip: an error of the check is some other outcome.
FailCheckElsewhere ==
  /\ \E t \in Entered, s \in Signals : CheckErrs(listen[t], ResolveExportEndpoints[s], dns)
  /\ EndCheck("errored")

\* A pair cannot be compared: that error is what Run returns.
FailCheck ==
  /\ \E t \in Entered, s \in Signals : CheckErrs(listen[t], ResolveExportEndpoints[s], dns)
  /\ EndCheck("failed")

FailInterfaces ==
  /\ \E t \in Entered, s \in Signals : NeedsInterfaces(listen[t], ResolveExportEndpoints[s], dns)
  /\ EndCheck("failed")

\* No pair does; the receiver binds and the exporters start.
Start ==
  /\ \A l \in ListenAddrs : Clean(l, dns)
  /\ EndCheck("running")

-----------------------------------------------------------------------------
(* The network: what an exporter's connection reaches.                     *)

\* Every local address.
Local == Loopback \cup Interfaces

\* A socket bound to an unspecified address accepts on every local one, any
\* other only on its own.
AcceptsOn(l, ip) ==
  IF dns[l.host] \cap Unspecified # {} THEN ip \in Local ELSE ip \in dns[l.host]

\* Go dials the local system when the address is unspecified.
Dialled(ip) == IF ip \in Unspecified THEN Loopback ELSE {ip}

\* A connection to the endpoint can arrive at the listener.
Reaches(export, l) ==
  /\ Parses(export)
  /\ export.port = l.port
  /\ \E ip \in dns[export.host] : \E target \in Dialled(ip) : AcceptsOn(l, target)

\* An exporter connects; its SDK resolves the name anew each time.
Connect(s) ==
  /\ stage = "running"
  /\ \E l \in ListenAddrs : Reaches(ResolveExportEndpoints[s], l)
  /\ looped' = looped \cup {s}
  /\ UNCHANGED <<listen, configured, env, dns, checked, stage>>

\* DNS, or the machine's own host table, changes.
Rebind ==
  /\ dns' \in Resolvers
  /\ UNCHANGED <<listen, configured, env, checked, stage, looped>>

Next ==
  \/ RefuseLoop \/ FailCheck \/ FailInterfaces \/ Start \/ Rebind
  \/ \E s \in Signals : Connect(s)

Spec == Init /\ [][Next]_vars

-----------------------------------------------------------------------------
(* Properties.                                                             *)

\* An endpoint names no unspecified address when it was checked.
NamesAnAddress(s) ==
  LET e == ResolveExportEndpoints[s] IN Parses(e) => checked[e.host] \cap Unspecified = {}

\* No signal is exported into the receiver while the names resolve as they did
\* when the check ran, if its endpoint does not name an unspecified address.
NoLoopWhileNamesHold ==
  [][\A s \in looped' \ looped : NamesAnAddress(s) => dns # checked]_vars

\* An endpoint and a listener of one port, the endpoint resolving.
Meet(e, l) == Parses(e) /\ l.port = e.port /\ dns[e.host] # {}

\* A refusal names a real loop, or two loopback addresses: the one false
\* alarm the check accepts.  And the check gives up only over a listener
\* without a port, or over an endpoint that resolves and has a listener's
\* port: an endpoint that does not resolve is the exporter's trouble alone.
RefusalsAreJustified ==
  [][stage = "init" =>
       /\ stage' = "refused" =>
            \E l \in ListenAddrs, s \in Signals :
              LET e == ResolveExportEndpoints[s] IN
              \/ Reaches(e, l)
              \/ /\ Meet(e, l)
                 /\ dns[l.host] \cap Loopback # {} /\ dns[e.host] \cap Loopback # {}
       /\ stage' = "failed" =>
            \E l \in ListenAddrs, s \in Signals :
              l.port = NoValue \/ Meet(ResolveExportEndpoints[s], l)]_vars

\* selfexport.go, CheckNoSelfExport: it "reports an error when any resolved
\* export endpoint would reach one of the receiver's own listening addresses".
EveryLoopIsRefused ==
  [][stage' = "running" /\ stage # "running" =>
       \A l \in ListenAddrs, s \in Signals : ~Reaches(ResolveExportEndpoints[s], l)]_vars
=============================================================================
