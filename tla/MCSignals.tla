----------------------------- MODULE MCSignals ------------------------------
(* Instances of Signals: a word of five bits, and records around its edges.  *)
EXTENDS Signals

TimeZero == -100

A(key, value) == [key |-> key, value |-> value]

Log(name, time, observed, attrs) ==
  [shape |-> "log", name |-> name, instance |-> "host", time |-> time, observed |-> observed,
   attrs |-> attrs, value |-> Unset]
Point(shape, name, time, attrs, value) ==
  [shape |-> shape, name |-> name, instance |-> "host", time |-> time, observed |-> 0,
   attrs |-> attrs, value |-> value]

Model == A("model", Text("m"))

SomeRecords ==
  \* a full call, and one that uses a reserved key, and a key twice
  {Log("api_request", 3, 9,
       <<Model, A("session.id", Text("s1")), A("user.email", Text("me")),
         A("input_tokens", IntValue(4)), A("output_tokens", IntValue(0)),
         A("duration_ms", IntValue(2)), A("cost_usd", DoubleValue(Double(1)))>>),
   Log("", 0, 5,
       <<A("event.name", Text("api_request")), Model, A("session.id", Text("s2")),
         A("didebaan.instance", Text("other")), A("model", Text("n")),
         A("input_tokens", Numeral("7", Exactly(7), "integer")),
         A("duration_ms", Numeral("0.5", Double(1), "decimal"))>>),
   \* fractions, either sign, and no time
   Log("api_request", 0, 0,
       <<Model, A("input_tokens", DoubleValue(Double(5))), A("output_tokens", DoubleValue(Double(-5))),
         A("duration_ms", DoubleValue(Double(-3))), A("cost_usd", Numeral("NaN", NaN, "decimal"))>>),
   \* beyond the word, and a time that wraps
   Log("api_request", 20, 0,
       <<A("input_tokens", DoubleValue(Exactly(16))),
         A("output_tokens", Numeral("16", Exactly(16), "integer")),
         A("duration_ms", DoubleValue(Exactly(6)))>>),
   \* not numbers, and a negative duration
   Log("api_request", 1, 0,
       <<A("model", IntValue(1)), A("input_tokens", Text("many")),
         A("output_tokens", Numeral("2.5", Double(5), "decimal")), A("duration_ms", IntValue(-1)),
         A("cost_usd", Unset)>>),
   \* activity without a name that carries numbers
   Log("", 15, 16, <<A("input_tokens", IntValue(9)), A("agent.name", Text("Explore"))>>),
   Point("number", "session.count", 2, <<A("user.id", Text("u"))>>, IntValue(1)),
   Point("histogram", "latency", 31, <<>>, Unset)}
=============================================================================
