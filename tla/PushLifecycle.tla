--------------------------- MODULE PushLifecycle ---------------------------
(***************************************************************************)
(* What the application can rely on for each of its pushes: it is handed   *)
(* to the client at most once and never after it timed out, an answer is   *)
(* delivered at most once and only to a push that was sent and has not     *)
(* timed out, and a push that timed out, sent or not, stays so.  A push    *)
(* that was answered may still time out: nothing stops its timeout         *)
(* (compare TimedOutMeansNoAnswer in Channel).                             *)
(***************************************************************************)
EXTENDS Naturals

CONSTANT Pushes

VARIABLES
  status,    \* what became of each push
  traffic    \* how often each was sent and answered

vars == <<status, traffic>>

Init ==
  /\ status = [p \in Pushes |-> "new"]
  /\ traffic = [p \in Pushes |-> [sent |-> 0, answered |-> 0]]

Becomes(p, from, to) ==
  /\ status[p] \in from
  /\ status' = [status EXCEPT ![p] = to]

Buffer(p) == Becomes(p, {"new"}, "buffered") /\ UNCHANGED traffic

Send(p) ==
  /\ Becomes(p, {"new", "buffered"}, "sent")
  /\ traffic' = [traffic EXCEPT ![p].sent = @ + 1]

Answer(p) ==
  /\ Becomes(p, {"sent"}, "answered")
  /\ traffic' = [traffic EXCEPT ![p].answered = @ + 1]

Expire(p) ==
  /\ Becomes(p, {"buffered", "sent", "answered"}, "expired")
  /\ UNCHANGED traffic

Next == \E p \in Pushes : Buffer(p) \/ Send(p) \/ Answer(p) \/ Expire(p)

Spec == Init /\ [][Next]_vars
=============================================================================
