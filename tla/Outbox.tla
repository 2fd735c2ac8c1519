------------------------------- MODULE Outbox -------------------------------
(***************************************************************************)
(* What the send buffer of the client promises: messages accepted while    *)
(* there is no connection wait in a queue, and leave it in order, each     *)
(* handed to a connection.                                                 *)
(***************************************************************************)
EXTENDS Sequences, Naturals

CONSTANT Messages

VARIABLES
  queue,  \* accepted and not handed to a connection
  handed  \* handed to a connection for the first time, in order

vars == <<queue, handed>>

Init == queue = <<>> /\ handed = <<>>

Accept(m) ==
  /\ queue' = Append(queue, m)
  /\ UNCHANGED handed

(* A flush hands over the first n messages.                                *)
Hand(n) ==
  /\ handed' = handed \o SubSeq(queue, 1, n)
  /\ queue' = SubSeq(queue, n + 1, Len(queue))

Next == (\E m \in Messages : Accept(m)) \/ (\E n \in 1..Len(queue) : Hand(n))

Spec == Init /\ [][Next]_vars
=============================================================================
