----------------------------- MODULE SendBuffer -----------------------------
(***************************************************************************)
(* The send buffer of AsyncRealtimeClient (realtime/_async/client.py): a   *)
(* list of messages accepted while there is no connection, sent by         *)
(* _flush_send_buffer() when connect() succeeds.  The loop over the list   *)
(* suspends in every message, and a connection lost there makes            *)
(* send_message() reconnect, so that connect() and the flush run again     *)
(* inside the flush, on the same list or on the one that replaced it.      *)
(*                                                                         *)
(* A caller's connect() is a stack of such calls.  The listening task also *)
(* reconnects, but it cancels itself on the way: its flush is cut at the   *)
(* first suspension.  auto_reconnect is on.  Messages sent with a          *)
(* connection do not pass the buffer.                                      *)
(***************************************************************************)
EXTENDS SequencesExt, FiniteSetsExt, Naturals

CONSTANTS
  Messages,     \* what is sent while there is no connection, each once
  Callers,      \* coroutines that call connect() and send()
  MaxRetries,   \* self.max_retries
  MaxConns,     \* bound: connections ever opened
  MaxFailures   \* bound: attempts to connect that fail

ASSUME SendBufferAssumption == {MaxRetries, MaxConns, MaxFailures} \subseteq Nat

VARIABLES
  ws,         \* self._ws_connection, 0 for None
  conn,       \* the state of every connection
  listening,  \* what the newest listening task does
  calls,      \* the connect() calls each caller is in, the innermost last
  lists,      \* the list objects send_buffer has been, the last is current
  handed,     \* history: messages handed to a connection, each once
  given,      \* history: how often the flush that began on a connection gave
              \* a message to whatever connection was in use
  failures

vars == <<ws, conn, listening, calls, lists, handed, given, failures>>

Conns == 1..MaxConns

(* A connect(): how many attempts failed, the connection on which its      *)
(* flush began and the list it iterates over (both 0 while it is still     *)
(* connecting), the position, and the connection on which that message is  *)
(* being sent.                                                             *)
Calls == [tries : 0..MaxRetries, since : 0..MaxConns, list : Nat, pos : Nat,
          on : 0..MaxConns]

NewCall == [tries |-> 0, since |-> 0, list |-> 0, pos |-> 0, on |-> 0]

(* A flush is at a message of a list that exists.                          *)
OnItsList(call) ==
  call.list # 0 =>
    call.list <= Len(lists) /\ call.pos \in 1..Len(lists[call.list]) /\ call.on # 0

TypeOK ==
  /\ ws \in 0..MaxConns
  /\ conn \in [Conns -> {"unborn", "open", "closed", "lost"}]
  /\ listening \in {"no", "waiting", "connecting"}
  /\ \A p \in Callers :
       /\ ToSet(calls[p]) \subseteq Calls
       /\ \A i \in DOMAIN calls[p] : OnItsList(calls[p][i])
       /\ \A i \in 1..Len(calls[p]) - 1 : calls[p][i].list # 0
  /\ lists # <<>> /\ \A i \in DOMAIN lists : IsInjective(lists[i])
  /\ IsInjective(handed)
  /\ (UNION {ToSet(lists[i]) : i \in DOMAIN lists}) \cup ToSet(handed)
       \subseteq Messages
  /\ given \in [Messages \X Conns -> Nat]
  /\ failures \in 0..MaxFailures

Init ==
  /\ ws = 0
  /\ conn = [c \in Conns |-> "unborn"]
  /\ listening = "no"
  /\ calls = [p \in Callers |-> <<>>]
  /\ lists = <<<<>>>>
  /\ handed = <<>>
  /\ given = [x \in Messages \X Conns |-> 0]
  /\ failures = 0

sendBuffer == Last(lists)
Unborn == {c \in Conns : conn[c] = "unborn"}

(* A lock around connect() that a nested call waits for.                   *)
ConnectingLocked(p) == Len(calls[p]) = 1 /\ Last(calls[p]).list = 0

Connecting(p) == calls[p] # <<>> /\ Last(calls[p]).list = 0
Flushing(p) == calls[p] # <<>> /\ Last(calls[p]).list # 0

-----------------------------------------------------------------------------
(* The messages of ms that are not among those done, in their order.       *)
Unsent(ms, done) ==
  LET kept[i \in 0..Len(ms)] ==
        IF i = 0 THEN <<>>
        ELSE IF ms[i] \in done THEN kept[i - 1] ELSE Append(kept[i - 1], ms[i])
  IN  kept[Len(ms)]

(* Messages given to a connection, one that was closed normally included   *)
(* (send_message() ignores ConnectionClosedOK), by the flush that began on *)
(* the connection c.                                                       *)
HandOver(ms, c) ==
  /\ handed' = handed \o Unsent(ms, ToSet(handed))
  /\ given' = [x \in Messages \X Conns |->
                 IF x[1] \in ToSet(ms) /\ x[2] = c
                   THEN given[x] + 1
                   ELSE given[x]]

NothingHandedOver == UNCHANGED <<handed, given>>

(* A connect() that tries again by calling itself.                         *)
FailedInside(cs) == Append(cs, NewCall)

(* An attempt of the innermost connect() failed, or its flush raised: the  *)
(* list is not replaced.                                                   *)
Failed(cs) == Front(cs) \o <<[NewCall EXCEPT !.tries = Last(cs).tries + 1]>>

(* The innermost call has returned to a flush: the message it was called   *)
(* for is done, and with it the flushes of which that was the last one.    *)
Unwound(cs) ==
  LET more == {i \in 1..Len(cs) - 1 : cs[i].pos < Len(lists[cs[i].list])}
  IN  IF more = {} THEN <<>>
      ELSE [SubSeq(cs, 1, Max(more)) EXCEPT ![Max(more)].pos = @ + 1]

(* The next callback of the innermost flush of cs, on the connection w.    *)
Run(p, cs, w) ==
  IF cs = <<>> THEN
    calls' = [calls EXCEPT ![p] = <<>>] /\ ws' = w /\ NothingHandedOver
  ELSE IF w = 0 THEN
    calls' = [calls EXCEPT ![p] = Failed(cs)] /\ ws' = 0 /\ NothingHandedOver
  ELSE IF conn'[w] = "lost" THEN
    calls' = [calls EXCEPT ![p] = Append(cs, NewCall)] /\ ws' = 0
    /\ NothingHandedOver
  ELSE LET top == Last(cs)
       IN  /\ calls' = [calls EXCEPT ![p] = Front(cs) \o <<[top EXCEPT !.on = w]>>]
           /\ ws' = w
           /\ HandOver(<<lists[top.list][top.pos]>>, top.since)

(* _flush_send_buffer() clears the buffer when it has sent all of it.      *)
Cleared == Append(lists, <<>>)

-----------------------------------------------------------------------------
(* connect().                                                              *)
CallConnect(p) ==
  /\ calls[p] = <<>>
  /\ ws = 0
  /\ calls' = [calls EXCEPT ![p] = <<NewCall>>]
  /\ UNCHANGED <<ws, conn, listening, lists, handed, given, failures>>

(* Newest first.                                                           *)
BufferedFirst(m) == [lists EXCEPT ![Len(lists)] = <<m>> \o @]

(* send() without a connection.                                            *)
Buffered(m) == [lists EXCEPT ![Len(lists)] = Append(@, m)]

Send(m) ==
  /\ ws = 0
  /\ \A i \in DOMAIN lists : ~Contains(lists[i], m)
  /\ lists' = Buffered(m)
  /\ UNCHANGED <<ws, conn, listening, calls, handed, given, failures>>

(* send() on a connection that was lost: it reconnects, and the message is *)
(* not sent again.                                                         *)
SendFails(p) ==
  /\ calls[p] = <<>>
  /\ ws # 0 /\ conn[ws] = "lost"
  /\ ws' = 0
  /\ calls' = [calls EXCEPT ![p] = <<NewCall>>]
  /\ UNCHANGED <<conn, listening, lists, handed, given, failures>>

(* The flush that follows a successful attempt.                            *)
Flush(p, c) ==
  IF sendBuffer = <<>>
    THEN Run(p, Unwound(calls[p]), c)
    ELSE Run(p, [calls[p] EXCEPT ![Len(calls[p])].since = c,
                                 ![Len(calls[p])].list = Len(lists),
                                 ![Len(calls[p])].pos = 1], c)

(* An attempt succeeds: a new listening task, and the flush begins.        *)
Succeed(p) ==
  /\ Connecting(p) /\ Last(calls[p]).tries < MaxRetries
  /\ Unborn # {}
  /\ conn' = [conn EXCEPT ![Min(Unborn)] = "open"]
  /\ listening' = "waiting"
  /\ Flush(p, Min(Unborn))
  /\ UNCHANGED <<lists, failures>>

Fail(p) ==
  /\ Connecting(p) /\ Last(calls[p]).tries < MaxRetries
  /\ failures < MaxFailures
  /\ calls' = [calls EXCEPT ![p] = Failed(@)]
  /\ failures' = failures + 1
  /\ UNCHANGED <<ws, conn, listening, lists, handed, given>>

(* No attempt is left: connect() raises, to the caller or out of the flush *)
(* that called it.                                                         *)
GiveUp(p) ==
  /\ Connecting(p) /\ Last(calls[p]).tries >= MaxRetries
  /\ calls' = [calls EXCEPT ![p] = IF Len(@) = 1 THEN <<>> ELSE Failed(Front(@))]
  /\ UNCHANGED <<ws, conn, listening, lists, handed, given, failures>>

(* Sends again what it was resumed in.                                     *)
SameMessage(cs) == cs

NextMessage(cs) == [cs EXCEPT ![Len(cs)].pos = @ + 1]

(* The message is sent (or ignored): the flush goes on, or clears the      *)
(* buffer and returns.                                                     *)
Resume(p) ==
  LET top == Last(calls[p])
      length == Len(lists[top.list])
  IN  /\ Flushing(p)
      /\ conn[top.on] # "lost"
      /\ UNCHANGED <<conn, listening, failures>>
      /\ IF top.pos < length
           THEN /\ Run(p, NextMessage(calls[p]), ws)
                /\ UNCHANGED lists
           ELSE Run(p, Unwound(calls[p]), ws) /\ lists' = Cleared

(* Its connection was lost: reconnect inside the flush.                    *)
ResumeLost(p) ==
  /\ Flushing(p)
  /\ conn[Last(calls[p]).on] = "lost"
  /\ ws' = 0
  /\ calls' = [calls EXCEPT ![p] = Append(@, NewCall)]
  /\ UNCHANGED <<conn, listening, lists, handed, given, failures>>

-----------------------------------------------------------------------------
(* The listening task reads from the newest connection.                    *)
ListenerSeesLoss ==
  /\ listening = "waiting"
  /\ conn[Max(Conns \ Unborn)] = "lost"
  /\ ws' = 0
  /\ listening' = "connecting"
  /\ UNCHANGED <<conn, calls, lists, handed, given, failures>>

(* It connects and flushes: all, or, as it is cancelled, up to the first   *)
(* message in which it suspends.                                           *)
ListenerConnects ==
  /\ listening = "connecting"
  /\ Unborn # {}
  /\ ws' = Min(Unborn)
  /\ conn' = [conn EXCEPT ![Min(Unborn)] = "open"]
  /\ listening' = "waiting"
  /\ \/ HandOver(sendBuffer, Min(Unborn)) /\ lists' = Cleared
     \/ \E n \in 1..Len(sendBuffer) :
          HandOver(SubSeq(sendBuffer, 1, n), Min(Unborn)) /\ UNCHANGED lists
  /\ UNCHANGED <<calls, failures>>

(* All its attempts fail.                                                  *)
ListenerGivesUp ==
  /\ listening = "connecting"
  /\ failures + MaxRetries <= MaxFailures
  /\ listening' = "no"
  /\ failures' = failures + MaxRetries
  /\ UNCHANGED <<ws, conn, calls, lists, handed, given>>

End(c, how) ==
  /\ conn[c] = "open"
  /\ conn' = [conn EXCEPT ![c] = how]
  /\ UNCHANGED <<ws, listening, calls, lists, handed, given, failures>>

Next ==
  \/ \E p \in Callers :
       \/ CallConnect(p) \/ SendFails(p) \/ Succeed(p) \/ Fail(p) \/ GiveUp(p)
       \/ Resume(p) \/ ResumeLost(p)
  \/ \E m \in Messages : Send(m)
  \/ ListenerSeesLoss \/ ListenerConnects \/ ListenerGivesUp
  \/ \E c \in Conns, how \in {"closed", "lost"} : End(c, how)

Spec == Init /\ [][Next]_vars

Fairness ==
  \A p \in Callers :
    WF_vars(Succeed(p) \/ Fail(p) \/ GiveUp(p) \/ Resume(p) \/ ResumeLost(p))

FairSpec == Spec /\ Fairness

-----------------------------------------------------------------------------
(* Accepted and not handed over to a connection yet.                       *)
Pending == Unsent(sendBuffer, ToSet(handed))

TheOutbox == INSTANCE Outbox WITH queue <- Pending

(* Whatever is lost, interrupted or nested: no flush drops a message that  *)
(* was accepted and not handed to a connection, and messages are handed    *)
(* over in order (client.py 207-211, 324-363).  It holds for one caller at *)
(* a time: of two that connect at once, one may end its flush and clear    *)
(* what was buffered after the connection of the other.                    *)
ImplementsOutbox == TheOutbox!Spec

(* However often a flush is interrupted, and whatever is flushed inside    *)
(* it, it hands each message over at most once (client.py 207-211,         *)
(* 324-363).  A message is handed over twice only by two flushes, and each *)
(* connection is flushed to once: the second is after a reconnection.      *)
RepeatsNeedReconnect ==
  \A m \in Messages, c \in Conns : given[<<m, c>>] <= 1

(* connect() returns, however often the flush is interrupted.              *)
ConnectReturns ==
  \A p \in Callers : calls[p] # <<>> ~> (calls[p] = <<>> \/ Unborn = {})
=============================================================================
