--------------------------- MODULE OrderDispatch ----------------------------
(***************************************************************************)
(* What the asynchronous order path promises its clients, with no threads, *)
(* mutex or condition variable in it: orders are accepted into one FIFO,   *)
(* leave it from the front, one at a time, and each order that leaves it   *)
(* for execution is in flight until its single execution report.           *)
(***************************************************************************)
EXTENDS Sequences, Functions

CONSTANT Orders

VARIABLES
  pending,    \* accepted and not yet handed to anybody
  inFlight,   \* handed to a worker and not yet reported
  reports     \* reported, in the order of the reports

vars == <<pending, inFlight, reports>>

Init == pending = <<>> /\ inFlight = {} /\ reports = <<>>

\* An order that is already in the system is not accepted again.
Accept(o) ==
  /\ o \notin Range(pending) \cup inFlight \cup Range(reports)
  /\ pending' = Append(pending, o)
  /\ UNCHANGED <<inFlight, reports>>

Dispatch ==
  /\ pending # <<>>
  /\ inFlight' = inFlight \cup {Head(pending)}
  /\ pending' = Tail(pending)
  /\ UNCHANGED reports

\* A client that polls the queue takes the front order for itself.
Withdraw ==
  /\ pending # <<>>
  /\ pending' = Tail(pending)
  /\ UNCHANGED <<inFlight, reports>>

Report(o) ==
  /\ o \in inFlight
  /\ inFlight' = inFlight \ {o}
  /\ reports' = Append(reports, o)
  /\ UNCHANGED pending

Next ==
  \/ \E o \in Orders : Accept(o) \/ Report(o)
  \/ Dispatch
  \/ Withdraw

Spec == Init /\ [][Next]_vars
=============================================================================
