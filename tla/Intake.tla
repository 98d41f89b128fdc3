------------------------------- MODULE Intake -------------------------------
(***************************************************************************)
(* What a collector promises its senders, and nothing about how: requests  *)
(* are taken while it is open; it stops taking them once, flushes once,    *)
(* and in an orderly stop everything it took is settled before it reports  *)
(* and flushes.  Whether the stop is orderly is decided when it happens.   *)
(***************************************************************************)
CONSTANT Requests

VARIABLES
  phase,     \* "open", "stopped", "flushed" or "ended"
  orderly,   \* the stop was orderly; meaningful once it has happened
  working,   \* requests taken and not yet settled
  counted,   \* requests whose record has been counted
  kept,      \* requests whose record reached the pipeline while it was up
  reported,  \* the closing report has been made
  report     \* what it says: the requests counted at that moment

vars == <<phase, orderly, working, counted, kept, reported, report>>

Init ==
  /\ phase = "open"
  /\ orderly = FALSE
  /\ working = {}
  /\ counted = {}
  /\ kept = {}
  /\ reported = FALSE
  /\ report = {}

\* After an orderly stop the collector takes nothing and has nothing to do.
Active == phase = "open" \/ (phase \in {"stopped", "flushed"} /\ ~orderly)

Take(r) ==
  /\ Active
  /\ r \notin working
  /\ working' = working \cup {r}
  /\ UNCHANGED <<phase, orderly, counted, kept, reported, report>>

Count(r) ==
  /\ Active
  /\ r \in working \ counted
  /\ counted' = counted \cup {r}
  /\ UNCHANGED <<phase, orderly, working, kept, reported, report>>

\* A record is kept only while the pipeline is up.
Keep(r) ==
  /\ Active /\ phase # "flushed"
  /\ r \in (working \cap counted) \ kept
  /\ kept' = kept \cup {r}
  /\ UNCHANGED <<phase, orderly, working, counted, reported, report>>

Settle(r) ==
  /\ Active
  /\ r \in working
  /\ working' = working \ {r}
  /\ UNCHANGED <<phase, orderly, counted, kept, reported, report>>

Stop ==
  /\ phase = "open"
  /\ phase' = "stopped"
  /\ orderly' \in {FALSE, working = {}}
  /\ UNCHANGED <<working, counted, kept, reported, report>>

\* The closing report.
Report ==
  /\ phase = "stopped"
  /\ ~reported
  /\ reported' = TRUE
  /\ report' = counted
  /\ UNCHANGED <<phase, orderly, working, counted, kept>>

Flush ==
  /\ phase = "stopped"
  /\ phase' = "flushed"
  /\ UNCHANGED <<orderly, working, counted, kept, reported, report>>

End ==
  /\ phase = "flushed"
  /\ phase' = "ended"
  /\ UNCHANGED <<orderly, working, counted, kept, reported, report>>

Next ==
  \/ \E r \in Requests : Take(r) \/ Count(r) \/ Keep(r) \/ Settle(r)
  \/ Stop \/ Report \/ Flush \/ End

Spec == Init /\ [][Next]_vars

\* What that comes to: nothing is in hand once the stop was orderly, and its
\* closing report has every record that was counted, which are all that were
\* kept, however long one waits.
Conclusive ==
  /\ kept \subseteq counted
  /\ orderly => phase # "open" /\ working = {}
  /\ reported => phase # "open" /\ report \subseteq counted
  /\ orderly /\ reported => report = counted
=============================================================================
