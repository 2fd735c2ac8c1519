----------------------------- MODULE Connection -----------------------------
(***************************************************************************)
(* The connection of AsyncRealtimeClient (realtime/_async/client.py) and   *)
(* the coroutines that share it: the listening and the heartbeat task of   *)
(* each connection, and callers, that is whoever calls connect(), send()   *)
(* or close() (the application, the push and rejoin tasks of channels).    *)
(*                                                                         *)
(* One action runs a coroutine from one suspension to the next.  Time is   *)
(* abstracted: a sleep ends, an attempt is answered at any moment.  The    *)
(* send buffer is empty (see SendBuffer) and the rejoins that end          *)
(* _reconnect() are sends (see Channel).                                   *)
(***************************************************************************)
EXTENDS Naturals

CONSTANTS
  Callers,      \* coroutines that call the client
  MaxRetries,   \* self.max_retries
  MaxConns,     \* bound: connections ever opened
  MaxLosses,    \* bound: connections that are lost
  MaxFailures   \* bound: attempts to connect that fail

ASSUME ConnectionAssumption ==
  /\ {MaxRetries, MaxConns, MaxLosses, MaxFailures} \subseteq Nat
  /\ \A p \in Callers : p \notin {"listen", "beat"} \X (1..MaxConns)

VARIABLES
  auto,           \* self.auto_reconnect
  ws,             \* self._ws_connection, 0 for None
  listenTask,     \* self._listen_task: whose, 0 for None
  heartbeatTask,  \* self._heartbeat_task
  born,           \* how many connections were opened
  conn,           \* the state of each of them
  pc,             \* where each coroutine is suspended, and on what
  losses, failures,
  raced           \* history: a connection was opened during a caller's call

vars == <<auto, ws, listenTask, heartbeatTask, born, conn, pc, losses,
          failures, raced>>

Conns == 1..MaxConns
Listener(c) == <<"listen", c>>
Heartbeat(c) == <<"beat", c>>
Tasks == {"listen", "beat"} \X Conns
Coroutines == Callers \cup Tasks

(* Where a coroutine is: "idle" is a caller between two calls, "created" a *)
(* task that did not start, "waiting" is for the next message or for the   *)
(* next heartbeat, "failed" the end by an exception of what handles a      *)
(* message.  `on` is the connection it holds meanwhile, `retries` the      *)
(* failed attempts of its connect().                                       *)
Places == [at : {"none", "idle", "created", "waiting", "sending",
                 "connecting", "closing", "ended", "failed"},
           on : 0..MaxConns, retries : 0..MaxRetries]

At(place) == [at |-> place, on |-> 0, retries |-> 0]
AtConn(place, c) == [At(place) EXCEPT !.on = c]

TypeOK ==
  /\ auto \in BOOLEAN
  /\ ws \in 0..MaxConns
  /\ listenTask \in 0..MaxConns
  /\ heartbeatTask \in 0..MaxConns
  /\ born \in 0..MaxConns
  /\ conn \in [Conns -> {"unborn", "open", "closing", "closed", "lost"}]
  /\ pc \in [Coroutines -> Places]
  /\ losses \in 0..MaxLosses
  /\ failures \in 0..MaxFailures
  /\ raced \in BOOLEAN

Init ==
  /\ auto \in BOOLEAN
  /\ ws = 0
  /\ listenTask = 0
  /\ heartbeatTask = 0
  /\ born = 0
  /\ conn = [c \in Conns |-> "unborn"]
  /\ pc = [t \in Coroutines |-> At(IF t \in Callers THEN "idle" ELSE "none")]
  /\ losses = 0
  /\ failures = 0
  /\ raced = FALSE

Up(c) == c # 0 /\ conn[c] = "open"

Live(t) == pc[t].at \in {"created", "waiting", "sending", "connecting"}

(* Suspended on a connection that has ended, in this way.                  *)
Woken(t, place, how) == pc[t].at = place /\ conn[pc[t].on] = how

(* A caller in the middle of a call that will set _ws_connection.          *)
Busy(p) == pc[p].at \in {"connecting", "closing"} \/ Woken(p, "sending", "lost")

-----------------------------------------------------------------------------
(* What a coroutine does after its connect() or _reconnect() ended: the    *)
(* listening task ends; so does the heartbeat, which cancelled itself in   *)
(* _on_connect() or ends by the exception of its last attempt.             *)
Ended(t) == At(IF t \in Callers THEN "idle" ELSE "ended")

(* ... and after a send().                                                 *)
Sent(t) == At(IF t \in Callers THEN "idle" ELSE "waiting")

(* Task.cancel() on the two tasks the client refers to: a suspended task   *)
(* gets a CancelledError, which nothing in client.py catches.              *)
Referred == {Listener(listenTask), Heartbeat(heartbeatTask)} \cap Tasks

(* Cancels the heartbeat only.                                             *)
HeartbeatCancelled == [t \in Coroutines |->
  IF t = Heartbeat(heartbeatTask) /\ Live(t) THEN At("ended") ELSE pc[t]]

Cancelled == [t \in Coroutines |->
  IF t \in Referred /\ Live(t) THEN At("ended") ELSE pc[t]]

(* Reconnects only while the connection that failed is the client's ...    *)
OnConnectErrorIfConnected(t, after) ==
  /\ ws' = IF auto THEN 0 ELSE ws
  /\ pc' = [pc EXCEPT ![t] = IF auto /\ pc[t].on = ws
                               THEN At("connecting") ELSE after]

(* _on_connect_error() and the begin of _reconnect().                      *)
OnConnectError(t, after) ==
  /\ ws' = IF auto THEN 0 ELSE ws
  /\ pc' = [pc EXCEPT ![t] = IF auto THEN At("connecting") ELSE after]

-----------------------------------------------------------------------------
(* connect() on a client that is connected opens another connection.       *)
AlwaysConnects == TRUE

(* connect(), and subscribe() on its way to it.  When connected, it        *)
(* returns at once.                                                        *)
MayConnect == ws = 0

CallConnect(p) ==
  /\ pc[p].at = "idle"
  /\ MayConnect
  /\ pc' = [pc EXCEPT ![p] = At("connecting")]
  /\ UNCHANGED <<auto, ws, listenTask, heartbeatTask, born, conn, losses,
                 failures, raced>>

(* Creates the tasks and cancels them in place of their predecessors.      *)
NewTasksCancelled(t) == [pc EXCEPT ![t] = Ended(t),
                                   ![Listener(born + 1)] = At("ended"),
                                   ![Heartbeat(born + 1)] = At("ended")]

(* An attempt succeeds: _on_connect() replaces the tasks of the client,    *)
(* one of which may be the one that runs it.                               *)
TasksReplaced(t) == [Cancelled EXCEPT ![t] = Ended(t),
                                      ![Listener(born + 1)] = At("created"),
                                      ![Heartbeat(born + 1)] = At("created")]

Succeed(t) ==
  /\ pc[t].at = "connecting"
  /\ pc[t].retries < MaxRetries
  /\ born < MaxConns
  /\ born' = born + 1
  /\ ws' = born + 1
  /\ listenTask' = born + 1
  /\ heartbeatTask' = born + 1
  /\ conn' = [conn EXCEPT ![born + 1] = "open"]
  /\ pc' = TasksReplaced(t)
  /\ raced' = (raced \/ \E p \in Callers \ {t} : Busy(p))
  /\ UNCHANGED <<auto, losses, failures>>

(* Counts the attempts that are left.                                      *)
OneLess(t) == pc[t].retries - 1

OneMore(t) == pc[t].retries + 1

(* An attempt fails and connect() sleeps before the next one; it does not  *)
(* look whether somebody else has connected meanwhile.                     *)
Retry(t) ==
  /\ pc[t].at = "connecting"
  /\ auto
  /\ failures < MaxFailures
  /\ OneMore(t) < MaxRetries
  /\ pc' = [pc EXCEPT ![t].retries = OneMore(t)]
  /\ failures' = failures + 1
  /\ UNCHANGED <<auto, ws, listenTask, heartbeatTask, born, conn, losses, raced>>

(* The last attempt fails: connect() raises.                               *)
GiveUp(t) ==
  /\ pc[t].at = "connecting"
  /\ failures < MaxFailures
  /\ OneMore(t) >= MaxRetries \/ ~auto
  /\ pc' = [pc EXCEPT ![t] = Ended(t)]
  /\ failures' = failures + 1
  /\ UNCHANGED <<auto, ws, listenTask, heartbeatTask, born, conn, losses, raced>>

-----------------------------------------------------------------------------
(* _listen(): starts on the connection there is, or raises.                *)
StartListening(c) ==
  /\ pc[Listener(c)].at = "created"
  /\ pc' = [pc EXCEPT ![Listener(c)] = IF ws = 0 THEN At("ended")
                                                 ELSE AtConn("waiting", ws)]
  /\ UNCHANGED <<auto, ws, listenTask, heartbeatTask, born, conn, losses,
                 failures, raced>>

(* ConnectionClosedError out of the loop over the messages.                *)
ListenerSeesLoss(c) ==
  /\ Woken(Listener(c), "waiting", "lost")
  /\ OnConnectError(Listener(c), At("ended"))
  /\ UNCHANGED <<auto, listenTask, heartbeatTask, born, conn, losses, failures,
                 raced>>

(* A connection closed normally ends the loop.                             *)
ListenerEnds(c) ==
  /\ Woken(Listener(c), "waiting", "closed")
  /\ pc' = [pc EXCEPT ![Listener(c)] = At("ended")]
  /\ UNCHANGED <<auto, ws, listenTask, heartbeatTask, born, conn, losses,
                 failures, raced>>

(* Any other exception ends the task, whatever became of the connection: a *)
(* reply nothing waits for raises KeyError, and so may a callback of the   *)
(* application, both within _handle_message().                             *)
ListenerFails(c) ==
  /\ pc[Listener(c)].at = "waiting"
  /\ pc' = [pc EXCEPT ![Listener(c)] = At("failed")]
  /\ UNCHANGED <<auto, ws, listenTask, heartbeatTask, born, conn, losses,
                 failures, raced>>

(* _heartbeat(): its loop ends when there is no connection.                *)
HeartbeatStops(c) ==
  /\ pc[Heartbeat(c)].at \in {"created", "waiting"}
  /\ ws = 0
  /\ pc' = [pc EXCEPT ![Heartbeat(c)] = At("ended")]
  /\ UNCHANGED <<auto, ws, listenTask, heartbeatTask, born, conn, losses,
                 failures, raced>>

(* send() with a connection, by a caller or as a heartbeat.  It suspends   *)
(* while the transport is full or the connection closes; one that does not *)
(* suspend is one that is resumed at once.                                 *)
Send(t) ==
  /\ \/ t \in Callers /\ pc[t].at = "idle"
     \/ t \in {Heartbeat(c) : c \in Conns} /\ pc[t].at \in {"created", "waiting"}
  /\ ws # 0
  /\ IF conn[ws] = "lost"
       THEN OnConnectError(t, Sent(t))
       ELSE pc' = [pc EXCEPT ![t] = AtConn("sending", ws)] /\ UNCHANGED ws
  /\ UNCHANGED <<auto, listenTask, heartbeatTask, born, conn, losses, failures,
                 raced>>

(* ConnectionClosedOK is ignored; ConnectionClosedError reconnects,        *)
(* whatever connection the client has by now.                              *)
ResumeSend(t) ==
  /\ pc[t].at = "sending"
  /\ conn[pc[t].on] # "closing"
  /\ IF conn[pc[t].on] = "lost"
       THEN OnConnectError(t, Sent(t))
       ELSE pc' = [pc EXCEPT ![t] = Sent(t)] /\ UNCHANGED ws
  /\ UNCHANGED <<auto, listenTask, heartbeatTask, born, conn, losses, failures,
                 raced>>

-----------------------------------------------------------------------------
(* close(): starts the closing handshake of an open connection ...         *)
CallClose(p) ==
  /\ pc[p].at = "idle"
  /\ ws # 0
  /\ conn' = [conn EXCEPT ![ws] = IF @ = "open" THEN "closing" ELSE @]
  /\ pc' = [pc EXCEPT ![p] = AtConn("closing", ws)]
  /\ UNCHANGED <<auto, ws, listenTask, heartbeatTask, born, losses, failures,
                 raced>>

(* ... and, when it is over or there is none, forgets what it has by then  *)
(* and cancels the tasks.                                                  *)
FinishClose(p) ==
  /\ \/ \E how \in {"closed", "lost"} : Woken(p, "closing", how)
     \/ pc[p].at = "idle" /\ ws = 0
  /\ ws' = 0
  /\ listenTask' = 0
  /\ heartbeatTask' = 0
  /\ pc' = [Cancelled EXCEPT ![p] = At("idle")]
  /\ UNCHANGED <<auto, born, conn, losses, failures, raced>>

-----------------------------------------------------------------------------
(* The network and the server.                                             *)
Lose(c) ==
  /\ conn[c] \in {"open", "closing"}
  /\ losses < MaxLosses
  /\ conn' = [conn EXCEPT ![c] = "lost"]
  /\ losses' = losses + 1
  /\ UNCHANGED <<auto, ws, listenTask, heartbeatTask, born, pc, failures, raced>>

CloseNormally(c) ==
  /\ conn[c] \in {"open", "closing"}
  /\ conn' = [conn EXCEPT ![c] = "closed"]
  /\ UNCHANGED <<auto, ws, listenTask, heartbeatTask, born, pc, losses,
                 failures, raced>>

Step(t) == Succeed(t) \/ Retry(t) \/ GiveUp(t) \/ Send(t) \/ ResumeSend(t)

Next ==
  \/ \E p \in Callers : CallConnect(p) \/ CallClose(p) \/ FinishClose(p)
  \/ \E t \in Coroutines : Step(t)
  \/ \E c \in Conns :
       \/ StartListening(c) \/ ListenerSeesLoss(c) \/ ListenerEnds(c)
       \/ ListenerFails(c) \/ HeartbeatStops(c)
       \/ Lose(c) \/ CloseNormally(c)

Spec == Init /\ [][Next]_vars

(* asyncio runs what is ready; attempts are answered; a closing handshake  *)
(* ends.  Nothing is assumed of callers that are idle.                     *)
Fairness ==
  /\ \A t \in Coroutines :
       /\ WF_vars(Succeed(t) \/ Retry(t) \/ GiveUp(t))
       /\ WF_vars(ResumeSend(t))
  /\ \A p \in Callers : WF_vars(pc[p].at = "closing" /\ FinishClose(p))
  /\ \A c \in Conns :
       /\ WF_vars(StartListening(c))
       /\ WF_vars(ListenerSeesLoss(c) \/ ListenerEnds(c))
       /\ WF_vars(HeartbeatStops(c) \/ Send(Heartbeat(c)))
       /\ WF_vars(conn[c] = "closing" /\ CloseNormally(c))

FairSpec == Spec /\ Fairness

-----------------------------------------------------------------------------
(* Only the tasks the client refers to are alive, and they belong to the   *)
(* newest connection: close() and the next connection stop them all, one   *)
(* of which may be the one that reconnects (client.py 181-191, 229-235).   *)
OnlyReferredLive ==
  \A c \in Conns :
    /\ Live(Listener(c)) => listenTask = c /\ c = born
    /\ Live(Heartbeat(c)) => heartbeatTask = c /\ c = born

(* A connection the client uses, as long as it is open, has its heartbeat, *)
(* and a listening task on it unless that ended by an exception of what    *)
(* handles a message: no reconnection, close() or attempt to connect, of   *)
(* whatever task, ends or cancels them and leaves the connection           *)
(* (client.py 90-112, 181-191, 213-255).                                   *)
ConnectedIsTended ==
  Up(ws) =>
    /\ pc[Listener(ws)] \in {At("created"), AtConn("waiting", ws), At("failed")}
    /\ pc[Heartbeat(ws)].at \in {"created", "waiting", "sending"}

(* Until a connection is opened while a caller is itself connecting,       *)
(* closing or about to reconnect, every open connection is the client's    *)
(* own: the reconnections of its two tasks, which may run at the same      *)
(* time, leave none behind (client.py 114-116, 150-155, 224-227).          *)
NoOrphans ==
  ~raced => \A c \in Conns : conn[c] \in {"open", "closing"} => ws = c

(* With auto_reconnect a lost connection is replaced, unless the           *)
(* application closes the client (client.py 194-203).  The runs let fewer  *)
(* attempts fail than max_retries.                                         *)
LostIsReplaced ==
  (auto /\ ws # 0 /\ conn[ws] = "lost")
    ~> (Up(ws) \/ listenTask = 0 \/ born = MaxConns)

(* test_connection.py:424 on a send after the websocket was closed: "this  *)
(* should trigger reconnection".                                           *)
ClosedIsReplaced ==
  (auto /\ ws # 0 /\ conn[ws] = "closed")
    ~> (Up(ws) \/ listenTask = 0 \/ born = MaxConns)
=============================================================================
