------------------------------ MODULE Metering ------------------------------
(***************************************************************************)
(* What the metrics promise, whatever produces them: every delivered record*)
(* is charged once on each account for what it reports there, on no other, *)
(* and wholly, unless the books are closed under it.  A record delivered   *)
(* twice is two deliveries.                                                *)
(***************************************************************************)
CONSTANTS
  Deliveries,
  Accounts,
  Reports,    \* what a record may report: functions from accounts to sets of
              \* amounts, one of which is charged; none if the set is empty
  Blank       \* the report of a delivery that has not come

VARIABLES
  report,    \* what each delivery reports
  book,      \* entries made: [delivery, account, amount]
  settled,   \* deliveries whose handling has ended
  closed     \* no entry is made any more

vars == <<report, book, settled, closed>>

Init ==
  /\ report = [d \in Deliveries |-> Blank]
  /\ book = {}
  /\ settled = {}
  /\ closed = FALSE

Charged(d, account) == \E entry \in book : entry.delivery = d /\ entry.account = account

Deliver(d) ==
  /\ report[d] = Blank
  /\ \E r \in Reports : report' = [report EXCEPT ![d] = r]
  /\ UNCHANGED <<book, settled, closed>>

Charge(d, account) ==
  /\ ~closed
  /\ report[d] # Blank /\ d \notin settled
  /\ ~Charged(d, account)
  /\ \E amount \in report[d][account] :
       book' = book \cup {[delivery |-> d, account |-> account, amount |-> amount]}
  /\ UNCHANGED <<report, settled, closed>>

\* A delivery ends with every account charged that has an amount.
Settle(d) ==
  /\ report[d] # Blank /\ d \notin settled
  /\ closed \/ \A account \in Accounts : report[d][account] # {} => Charged(d, account)
  /\ settled' = settled \cup {d}
  /\ UNCHANGED <<report, book, closed>>

Close == ~closed /\ closed' = TRUE /\ UNCHANGED <<report, book, settled>>

Next ==
  \/ Close
  \/ \E d \in Deliveries : Deliver(d) \/ Settle(d)
  \/ \E d \in Deliveries, account \in Accounts : Charge(d, account)

Spec == Init /\ [][Next]_vars

\* What that comes to: an entry is for an amount that its delivery reports
\* there, no account of a delivery is charged twice, and while the books are
\* open what has ended is charged in full.
Balanced ==
  /\ \A x \in book : report[x.delivery] # Blank /\ x.amount \in report[x.delivery][x.account]
  /\ \A x, y \in book : x.delivery = y.delivery /\ x.account = y.account => x.amount = y.amount
  /\ \A d \in settled : \/ closed
                       \/ \A account \in Accounts : report[d][account] # {} => Charged(d, account)
=============================================================================
