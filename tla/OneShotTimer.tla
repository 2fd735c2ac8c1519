---------------------------- MODULE OneShotTimer ----------------------------
(***************************************************************************)
(* What a caller of AsyncTimer relies on: every call of schedule_timeout   *)
(* is a new request, at most one request is pending, a newer request or a  *)
(* reset withdraws the pending one, and only the pending request expires,  *)
(* once.                                                                   *)
(***************************************************************************)
EXTENDS Naturals

VARIABLES
  requests,  \* how many requests were made so far
  pending,   \* the request that will expire, 0 for none
  expired    \* the requests whose callback was started

vars == <<requests, pending, expired>>

Init ==
  /\ requests = 0
  /\ pending = 0
  /\ expired = {}

Request ==
  /\ requests' = requests + 1
  /\ pending' = requests + 1
  /\ UNCHANGED expired

Withdraw ==
  /\ pending' = 0
  /\ UNCHANGED <<requests, expired>>

Expire ==
  /\ pending # 0
  /\ pending \notin expired
  /\ expired' = expired \cup {pending}
  /\ pending' = 0
  /\ UNCHANGED requests

Next == Request \/ Withdraw \/ Expire

Spec == Init /\ [][Next]_vars
=============================================================================
