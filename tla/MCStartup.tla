----------------------------- MODULE MCStartup ------------------------------
(* Instances of Startup: every layer gives the export endpoint, and some    *)
(* give what the process must refuse.                                       *)
EXTENDS Startup, TLC

ClaudeCode == [name |-> "claude-code", factory |-> TRUE, consumer |-> TRUE, claims |-> TRUE]
Poller     == [ClaudeCode EXCEPT !.name = "poller", !.consumer = FALSE]
PrefixOnly == [ClaudeCode EXCEPT !.name = "prefix-only", !.claims = FALSE]

SomeBinaries ==
  {{ClaudeCode},
   {ClaudeCode, Poller, PrefixOnly},
   {ClaudeCode, [Poller EXCEPT !.name = "claude-code"]},
   {ClaudeCode, [Poller EXCEPT !.name = ""]},
   {ClaudeCode, [Poller EXCEPT !.factory = FALSE]}}

Endpoint(x) == "otlp-endpoint" :> x
Flag(f, v) == [flag |-> f, value |-> v]

SomeCommandLines ==
  {<<>>,
   <<Flag("otlp-endpoint", "flag:1"), Flag("otlp-endpoint", "flag:2")>>,
   <<Flag("config", "/a.yaml")>>,
   <<Flag("config", "/a.yaml"), Flag("otlp-insecure", "true"), Flag("config", "/b.yaml")>>,
   <<Flag("config", "/missing.yaml")>>,
   <<Flag("config", "")>>,
   <<Flag("adapter", "poller"), Flag("otlp-endpoint", "flag:1")>>,
   <<Flag("adapter", "prefix-only"), Flag("otlp-endpoint", "flag:1")>>}

SomeEnvironments ==
  {<<>>,
   Endpoint("env:1") @@ ("config" :> "/b.yaml"),
   Endpoint("") @@ ("config" :> "/missing.yaml"),
   ("receiver-grpc" :> "") @@ Endpoint("127.0.0.1:4318"),
   ("receiver-grpc" :> "") @@ ("receiver-http" :> ""),
   ("otlp-insecure" :> "maybe")}

File(layer) == [state |-> "read", layer |-> layer, adapters |-> <<>>]
Forwarding(layer) ==
  [File(layer) EXCEPT !.adapters = "claude-code" :> ("forward_identity" :> "true")]
Broken == [state |-> "malformed", layer |-> <<>>, adapters |-> <<>>]

SomeFileSystems ==
  LET a == "/a.yaml" :> File(Endpoint("a:1") @@ ("receiver-http" :> ""))
      b == "/b.yaml" :> Forwarding(Endpoint("b:1"))
      byDefault(content) == defaultConfigPath :> content
  IN  {a @@ b,
       a @@ b @@ byDefault(Forwarding(Endpoint("default:1") @@ ("receiver-grpc" :> "host:4317"))),
       a @@ byDefault(Broken),
       a @@ ("/b.yaml" :> Broken)}

SomeLoops == {<<"", "127.0.0.1:4317">>, <<"127.0.0.1:4318", "127.0.0.1:4318">>}
=============================================================================
