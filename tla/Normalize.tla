----------------------------- MODULE Normalize ------------------------------
(***************************************************************************)
(* How the Claude Code adapter reads a record: the numeric, text and time  *)
(* conversions of internal/claudecode (normalize.go, identity.go), and the *)
(* event they build.  A word has 2 * HalfWord values and doubles are       *)
(* counted in halves, so that width, sign, fraction and NaN are all there  *)
(* at a small scale.                                                       *)
(*                                                                         *)
(* An optional value (a Go pointer, or a result with ok) is a set of at    *)
(* most one element.  A conversion whose result the Go specification       *)
(* leaves to the implementation yields the set of its possible results.    *)
(***************************************************************************)
EXTENDS Integers, Sequences, FiniteSetsExt

CONSTANTS
  HalfWord,        \* 2^63 in the program: a word has twice as many values
  Millisecond,     \* time.Millisecond, in units of time.Duration
  ZeroTime,        \* time.Time{}, long before any time a record can carry
  identityAttrs,   \* attribute names that identify a person
  forwardIdentity  \* the adapter's setting

MaxInt == HalfWord - 1
MinInt == -HalfWord
Word   == 0 .. 2 * HalfWord - 1

ASSUME WordAssumption ==
  /\ HalfWord \in Nat \ {0} /\ Millisecond \in Nat \ {0}
  /\ ZeroTime \in Int /\ ZeroTime < MinInt + MinInt
  /\ forwardIdentity \in BOOLEAN

-----------------------------------------------------------------------------
(* Values.                                                                 *)

Double(halves) == [finite |-> TRUE, halves |-> halves]
Exactly(n)     == Double(2 * n)
NaN            == [finite |-> FALSE, halves |-> 0]
Inf(sign)      == [finite |-> FALSE, halves |-> sign]

\* An attribute's value.  For text, `literal` says what strconv makes of it:
\* an "integer", another "decimal" (NaN and Inf are decimals too), or "none".
IntValue(n)    == [form |-> "int", number |-> Exactly(n), literal |-> "none", text |-> ""]
DoubleValue(d) == [form |-> "double", number |-> d, literal |-> "none", text |-> ""]
Numeral(s, d, literal) == [form |-> "string", number |-> d, literal |-> literal, text |-> s]
Text(s)        == Numeral(s, NaN, "none")
Unset          == [form |-> "nil", number |-> NaN, literal |-> "none", text |-> ""]

\* What an attribute can hold: an int is a word, only text is parsed, and what
\* ParseInt takes is an integer.
IsValue(v) ==
  /\ v.number \in [finite : BOOLEAN, halves : Int]
  /\ v.form = "int" => v.number.halves \in 2 * MinInt .. 2 * MaxInt
  /\ v.literal # "none" => v.form = "string"
  /\ v.form = "int" \/ v.literal = "integer" => v.number.finite /\ v.number.halves % 2 = 0

\* A record as the wire carries it: unsigned times, of which only log records
\* have a second, and a list of attributes.
IsRecord(rec) ==
  /\ rec.time \in Word /\ rec.observed \in Word
  /\ rec.shape # "log" => rec.observed = 0
  /\ DOMAIN rec.attrs \subseteq Nat
  /\ \A i \in DOMAIN rec.attrs : IsValue(rec.attrs[i].value)

-----------------------------------------------------------------------------
(* Numbers.                                                                *)

\* Conversion to an integer drops the fraction, towards zero.
Truncated(d) == IF d.halves >= 0 THEN d.halves \div 2 ELSE -((-d.halves) \div 2)

Fits(d) == d.finite /\ Truncated(d) \in MinInt .. MaxInt

\* int64(d).  What does not fit becomes MinInt on amd64; arm64 saturates, and
\* makes NaN zero.
toInt(d) ==
  IF Fits(d) THEN {Truncated(d)}
  ELSE {MinInt, IF d = NaN THEN 0 ELSE IF d.halves > 0 THEN MaxInt ELSE MinInt}

\* The first attribute with this key decides, whatever its form.
attr(attrs, key) ==
  LET found == {i \in DOMAIN attrs : attrs[i].key = key}
  IN  IF found = {} THEN Unset ELSE attrs[Min(found)].value

stringAttr(attrs, key) == attr(attrs, key).text

\* Either numeric form, and text that ParseFloat takes.
floatAttr(attrs, key) ==
  LET v == attr(attrs, key)
  IN  IF v.form \in {"int", "double"} \/ v.literal # "none" THEN {v.number} ELSE {}

\* The same for integers; the outcomes are optional values.
intAttr(attrs, key) ==
  LET v == attr(attrs, key)
  IN  IF v.form = "double" THEN {{n} : n \in toInt(v.number)}
      ELSE IF v.form = "int" \/ (v.literal = "integer" /\ Fits(v.number))
        THEN {{Truncated(v.number)}} ELSE {{}}

\* An int that is not zero, else a double that is not, else the int zero.
numberValue(v) ==
  IF v.form \in {"int", "double"} /\ v.number # Exactly(0) THEN v ELSE IntValue(0)

-----------------------------------------------------------------------------
(* Times.                                                                  *)

\* A slip: an unknown time becomes the epoch.
timeOrEpoch(ns) == IF ns > MaxInt THEN ns - 2 * HalfWord ELSE ns

\* Unsigned nanoseconds, of which zero means unknown; the conversion to a
\* signed word wraps.
timeFromUnixNano(ns) ==
  IF ns = 0 THEN ZeroTime
  ELSE IF ns > MaxInt THEN ns - 2 * HalfWord ELSE ns

\* The record's own time, else when it was observed.
logTime(rec) == IF rec.time # 0 THEN rec.time ELSE rec.observed

-----------------------------------------------------------------------------
(* Attributes and events.                                                  *)

AttrSubagentName == "claude_code.subagent.name"

renamed(key) == IF key = "agent.name" THEN AttrSubagentName ELSE key

\* A slip: identity stays.
isSet(a) == a.value.form # "nil"

\* Identity is dropped unless forwarded, and a value that is not set left out.
isKept(a) == (forwardIdentity \/ a.key \notin identityAttrs) /\ a.value.form # "nil"

\* What is kept, agent.name renamed; the last of several with one name wins.
scrubbedAttrs(attrs) ==
  LET kept == {i \in DOMAIN attrs : isKept(attrs[i])}
  IN  [k \in {renamed(attrs[i].key) : i \in kept} |->
         attrs[Max({i \in kept : renamed(attrs[i].key) = k})].value]

newEvent(instance, operation, time, attrs) ==
  [time |-> time, instance |-> instance, operation |-> operation, model |-> "",
   input |-> {}, output |-> {}, cost |-> {}, duration |-> 0, attrs |-> attrs]

logEventName(rec) == IF rec.name # "" THEN rec.name ELSE stringAttr(rec.attrs, "event.name")

\* A slip: the milliseconds lose their fraction before they are scaled.
durationsInWholeMilliseconds(attrs) ==
  LET ms == floatAttr(attrs, "duration_ms")
  IN  IF ms = {} THEN {0} ELSE UNION {{n * Millisecond : n \in toInt(d)} : d \in ms}

\* time.Duration(ms * float64(time.Millisecond)); none means zero.
durations(attrs) ==
  LET ms == floatAttr(attrs, "duration_ms")
  IN  IF ms = {} THEN {0}
      ELSE UNION {toInt([d EXCEPT !.halves = IF d.finite THEN @ * Millisecond ELSE @]) : d \in ms}

\* The events ConsumeLog may build: only an api_request is a model call, and
\* only a model call carries numbers.
logEvents(rec) ==
  LET bare  == newEvent(rec.instance, logEventName(rec), timeFromUnixNano(logTime(rec)),
                        scrubbedAttrs(rec.attrs))
      model == stringAttr(rec.attrs, "model")
      call(in, out, ns) ==
        [time |-> bare.time, instance |-> bare.instance, operation |-> "chat", model |-> model,
         input |-> in, output |-> out, cost |-> floatAttr(rec.attrs, "cost_usd"),
         duration |-> ns, attrs |-> bare.attrs]
  IN  IF logEventName(rec) # "api_request" THEN {bare}
      ELSE {call(in, out, ns) : in  \in intAttr(rec.attrs, "input_tokens"),
                                out \in intAttr(rec.attrs, "output_tokens"),
                                ns  \in durations(rec.attrs)}

\* One data point of a metric: its value becomes an attribute of that name.  A
\* histogram's sum is a double, zero when there is none.
pointEvent(rec) ==
  LET value == IF rec.shape = "histogram"
                 THEN IF rec.value = Unset THEN DoubleValue(Exactly(0)) ELSE rec.value
                 ELSE numberValue(rec.value)
      attrs == scrubbedAttrs(rec.attrs)
  IN  newEvent(rec.instance, rec.name, timeFromUnixNano(rec.time),
        [k \in DOMAIN attrs \cup {rec.name} |-> IF k = rec.name THEN value ELSE attrs[k]])

\* What the adapter may make of a record.
eventsOf(rec) == IF rec.shape = "log" THEN logEvents(rec) ELSE {pointEvent(rec)}
=============================================================================
