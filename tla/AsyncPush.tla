----------------------------- MODULE AsyncPush -----------------------------
(***************************************************************************)
(* AsyncPush (realtime/_async/push.py): one request and its outcome.  This *)
(* module has no state of its own: it describes what the methods do to the *)
(* fields of one push, and Channel composes them with the table of pushes  *)
(* that wait for an answer.                                                *)
(*                                                                         *)
(*   ref    the reference of its last transmission, 0 for None             *)
(*   resp   received_resp: how it was answered last                        *)
(*   timer  timeout_task: "none", "running", or "done" for a task that     *)
(*          ended and is still referred to                                 *)
(***************************************************************************)
EXTENDS Naturals

Outcomes == {"none", "ok", "error", "timeout"}

PushRecords(Refs) ==
  [ref : Refs, resp : Outcomes, timer : {"none", "running", "done"}]

(* __init__                                                                *)
NewPush == [ref |-> 0, resp |-> "none", timer |-> "none"]

(* start_timeout(): a task that is known, even one that ended, is kept.    *)
TimeoutStarted(p) ==
  [p EXCEPT !.timer = IF p.timer = "none" THEN "running" ELSE p.timer]

(* A send() without the early return for a push that timed out.            *)
MayAlwaysBeSent(p) == TRUE

(* send(): a push that timed out stays unsent.                             *)
MayBeSent(p) == p.resp # "timeout"

Sent(p, r) == TimeoutStarted([p EXCEPT !.ref = r])

(* resend(): the old answer is forgotten, so send() never returns early.   *)
Resent(p, r) == Sent([p EXCEPT !.resp = "none"], r)

(* trigger()'s effect on the push itself, for an answer of the server.     *)
Answered(p, status) == [p EXCEPT !.resp = status]

(* The timeout task ran to its end.                                        *)
TimedOut(p) == [p EXCEPT !.resp = "timeout", !.timer = "done"]

(* A destroy() that cancels the timeout task and still refers to it.       *)
CancelledOnly(p) ==
  [p EXCEPT !.timer = IF p.timer = "none" THEN "none" ELSE "done"]

(* destroy(): the timeout task is cancelled and forgotten.                 *)
Destroyed(p) == [p EXCEPT !.timer = "none"]
=============================================================================
