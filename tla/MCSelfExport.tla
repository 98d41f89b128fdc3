---------------------------- MODULE MCSelfExport ----------------------------
(* Instances of SelfExport: a machine with one LAN address, names that mean  *)
(* loopback, this machine, another one, nothing at all, or change meaning.   *)
EXTENDS SelfExport

AllAddresses == {"127.0.0.1", "::1", "0.0.0.0", "10.0.0.5", "10.0.0.9"}

Names == [lo4 |-> {"127.0.0.1"}, lo6 |-> {"::1"}, any |-> {"0.0.0.0"},
          localhost |-> {"127.0.0.1", "::1"}, self |-> {"10.0.0.5"},
          downstream |-> {"10.0.0.9"}, gone |-> {}]

\* The table above, one in which the downstream has moved to this machine, and
\* one in which this machine has lost its name.
SomeResolvers == {Names, [Names EXCEPT !.downstream = {"10.0.0.5"}],
                        [Names EXCEPT !.self = {}]}

At(h, p)  == [host |-> h, port |-> p]
Bare(h, p) == [host |-> h, port |-> p, url |-> FALSE]
URL(h, p)  == [host |-> h, port |-> p, url |-> TRUE]

SomeListens ==
  {[grpc |-> At("lo4", "4317"), http |-> At("lo4", "4318")],
   [grpc |-> At("any", "4317"), http |-> NoValue],
   [grpc |-> NoValue, http |-> At("any", "4318")],
   [grpc |-> At("localhost", "4317"), http |-> NoValue],
   [grpc |-> At("self", "4317"), http |-> At("lo6", "4318")],
   [grpc |-> At("lo4", "4318"), http |-> NoValue],
   [grpc |-> At("lo4", "4318"), http |-> At("lo4", NoValue)]}

SomeEndpoints ==
  {NoValue, Broken, Bare("localhost", "4317"), Bare("downstream", "4317"),
   Bare("gone", "4317"), Bare("lo6", NoValue), Bare("any", "4317"),
   URL("self", NoValue), URL("lo6", "4318")}

SharedEndpoints == {NoValue, URL("downstream", "4317"), URL("lo4", NoValue)}
TraceEndpoints  == {NoValue, Bare("gone", "4317")}
LogEndpoints    == {NoValue, URL("self", "4318")}

SomeEnvironments ==
  [shared : SharedEndpoints, traces : TraceEndpoints, metrics : {NoValue, Broken},
   logs : LogEndpoints]
=============================================================================
