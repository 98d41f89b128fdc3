---------------------------- MODULE MCClaudeCode ----------------------------
(* Instances of ClaudeCode: three concurrent calls and a grace of two, so     *)
(* that the warning can fire with a call to spare.                            *)
EXTENDS ClaudeCode

CONSTANTS c1, c2, c3

ThreeCalls == {c1, c2, c3}

Rec(kind, instance, host, points) ==
  [kind |-> kind, instance |-> instance, host |-> host, points |-> points]

SomeRecords ==
  {Rec("aggregate", "", "", 1),
   Rec("activity", "i", "h", 2),
   Rec("activity", "i", "", 0),
   Rec("summary", "", "h", 1),
   Rec("call", "", "h", 0),
   Rec("event", "", "", 0)}
=============================================================================
