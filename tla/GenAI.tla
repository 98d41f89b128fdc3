-------------------------------- MODULE GenAI --------------------------------
(***************************************************************************)
(* The mapping of an event to the GenAI conventions (internal/genai): which*)
(* attributes a span and a log record carry, and which measurements an     *)
(* event makes, in which series.  Attributes are functions from keys to    *)
(* values.                                                                 *)
(***************************************************************************)
EXTENDS Normalize

AttrAgent         == "didebaan.agent"
AttrInstance      == "didebaan.instance"
AttrSystem        == "gen_ai.system"
AttrOperationName == "gen_ai.operation.name"
AttrRequestModel  == "gen_ai.request.model"
AttrResponseModel == "gen_ai.response.model"
AttrUsageInput    == "gen_ai.usage.input_tokens"
AttrUsageOutput   == "gen_ai.usage.output_tokens"
AttrTokenType     == "gen_ai.token.type"
AttrCostUSD       == "didebaan.cost.usd"

Dimensions == {AttrAgent, AttrInstance, AttrSystem, AttrOperationName,
               AttrRequestModel, AttrResponseModel}
Usage == {AttrUsageInput, AttrUsageOutput, AttrCostUSD}

\* The keys a mapping adds identify nobody.
ASSUME IdentityAssumption ==
  identityAttrs \cap (Dimensions \cup Usage \cup {AttrTokenType, AttrSubagentName}) = {}

\* Of two attributes with one key, f's stays.
merged(f, g) ==
  [k \in DOMAIN f \cup DOMAIN g |-> IF k \in DOMAIN f THEN f[k] ELSE g[k]]

\* The adapter's constant Name and System, and what it reads; it sets both
\* models to the same value.
descriptive(instance, operation, model) ==
  [k \in Dimensions |->
     CASE k = AttrAgent         -> "claude-code"
       [] k = AttrInstance      -> instance
       [] k = AttrSystem        -> "anthropic"
       [] k = AttrOperationName -> operation
       [] k \in {AttrRequestModel, AttrResponseModel} -> model]

\* A slip: the adapter's attributes are dimensions too.
everyPair(e) ==
  LET fields == descriptive(e.instance, e.operation, e.model)
  IN  merged(e.attrs, [k \in {k \in Dimensions : fields[k] # ""} |-> Text(fields[k])])

\* The descriptive fields that are not empty.
dimensionPairs(e) ==
  LET fields == descriptive(e.instance, e.operation, e.model)
  IN  [k \in {k \in Dimensions : fields[k] # ""} |-> Text(fields[k])]

\* What was reported of tokens and cost.
reported(e) ==
  [k \in Usage |-> CASE k = AttrUsageInput  -> e.input
                    [] k = AttrUsageOutput -> e.output
                    [] k = AttrCostUSD     -> e.cost]

usagePairs(e) ==
  [k \in {k \in Usage : reported(e)[k] # {}} |->
     LET x == CHOOSE x \in reported(e)[k] : TRUE
     IN  IF k = AttrCostUSD THEN DoubleValue(x) ELSE IntValue(x)]

\* The list pairs builds, as the SDK keeps it: of two pairs with one key the
\* later wins, and the adapter's attributes come last.
pairs(e) == merged(e.attrs, merged(usagePairs(e), dimensionPairs(e)))

SpanName(e) == IF e.operation # "" THEN e.operation ELSE "gen_ai.operation"

-----------------------------------------------------------------------------
(* Instruments.Record: one measurement for each account that has an amount. *)

Accounts == {"input", "output", "duration", "cost"}

\* A slip: an unreported amount is zero.
falseZeros(e) ==
  [input    |-> {Exactly(n) : n \in IF e.input = {} THEN {0} ELSE e.input},
   output   |-> {Exactly(n) : n \in e.output},
   duration |-> {Exactly(n) : n \in {n \in {e.duration} : n > 0}},
   cost     |-> e.cost]

\* An amount that was not reported, and a duration that is not positive, is
\* not measured.
amounts(e) ==
  [input    |-> {Exactly(n) : n \in e.input},
   output   |-> {Exactly(n) : n \in e.output},
   duration |-> {Exactly(n) : n \in {n \in {e.duration} : n > 0}},
   cost     |-> e.cost]

\* The series: the dimensions, and for tokens their direction.
series(e, account) ==
  IF account \in {"input", "output"}
    THEN merged([k \in {AttrTokenType} |-> Text(account)], dimensionPairs(e))
    ELSE dimensionPairs(e)
=============================================================================
