----------------------------- MODULE MCDispatch -----------------------------
(* Instances of Dispatch: two adapters whose claims overlap on a namespace,   *)
(* claims with empty prefixes, and records that match by name, by event.name, *)
(* by scope, by nothing, and that have no name at all.                        *)
EXTENDS Dispatch

CONSTANTS r1, r2

TwoRequests == {r1, r2}

Claim(metrics, events, scopes) ==
  [MetricPrefixes |-> metrics, EventPrefixes |-> events, ScopePrefixes |-> scopes]

ClaudeCode == Claim({"cc."}, {}, {"cc.scope"})
Other      == Claim({"cc.", ""}, {"ev."}, {"", "other"})

Lists == {<<ClaudeCode>>, <<ClaudeCode, Other>>, <<Other, ClaudeCode>>, <<>>,
          <<Claim({"cc."}, {}, {})>>, <<Claim({"cc."}, {}, {""})>>}

Prefixes == {<<"cc.", "cc.tokens">>, <<"ev.", "ev.start">>, <<"cc.scope", "cc.scope.x">>}

Record(name, attr, scope) == [name |-> name, attr |-> attr, scope |-> scope, spans |-> 0]
Spans(n) == [name |-> "", attr |-> "", scope |-> "cc.scope", spans |-> n]

SomeBodies ==
  {[signal |-> "metrics", records |-> <<Record("cc.tokens", "", ""), Record("", "", "")>>],
   [signal |-> "metrics", records |-> <<Record("up", "", "other"), Record("cc.tokens", "", "other")>>],
   [signal |-> "logs", records |-> <<Record("", "ev.start", "cc.scope.x"), Record("plain", "ev.start", "")>>],
   [signal |-> "logs", records |-> <<Record("", "ev.start", "")>>],
   [signal |-> "traces", records |-> <<Spans(2), Spans(0)>>],
   [signal |-> "traces", records |-> <<>>]}

HTTP(isPost, protobuf, size, decodes) ==
  [post |-> isPost, protobuf |-> protobuf, size |-> size, decodes |-> decodes]

\* Around the cap, and one request for each of the other refusals.
SomePosts ==
  {HTTP(TRUE, TRUE, size, TRUE) : size \in 4 .. 6}
    \cup {HTTP(FALSE, TRUE, 1, TRUE), HTTP(TRUE, FALSE, 1, TRUE), HTTP(TRUE, TRUE, 1, FALSE)}
=============================================================================
