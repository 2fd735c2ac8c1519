-------------------------- MODULE ConnectionProofs --------------------------
(* Proofs about Connection, for any callers and any bounds.                *)
EXTENDS Connection, TLAPS

LEMMA BoundsAreNaturals ==
  MaxRetries \in Nat /\ MaxConns \in Nat /\ MaxLosses \in Nat /\ MaxFailures \in Nat
  BY ConnectionAssumption

USE BoundsAreNaturals

-----------------------------------------------------------------------------
(* What the invariants rest on.  The client refers to the newest           *)
(* connection and to its tasks, or to none.                                *)
RefersToNewest ==
  /\ ws \in {0, born}
  /\ listenTask \in {0, born}
  /\ heartbeatTask = listenTask

(* A task that is alive is the one referred to, is suspended on its own    *)
(* connection, and reconnects only while the client has none.              *)
TasksInPlace ==
  \A c \in Conns :
    /\ pc[Listener(c)].at
         \in {"none", "created", "waiting", "connecting", "ended", "failed"}
    /\ pc[Heartbeat(c)].at
         \in {"none", "created", "waiting", "sending", "connecting", "ended"}
    /\ Live(Listener(c)) \/ Live(Heartbeat(c)) => listenTask = c
    /\ pc[Listener(c)].at = "waiting" => pc[Listener(c)].on = c
    /\ pc[Heartbeat(c)].at = "sending" => pc[Heartbeat(c)].on = c
    /\ "connecting" \in {pc[Listener(c)].at, pc[Heartbeat(c)].at} => ws = 0

CallersInPlace ==
  \A p \in Callers : pc[p].at \in {"sending", "closing"} => pc[p].on \in Conns

(* Without a race nobody connects while the client is connected, and what  *)
(* closes or reconnects is about the connection the client has, if any.    *)
CallersAgree ==
  ~raced => \A p \in Callers :
    /\ pc[p].at = "connecting" => ws = 0
    /\ pc[p].at = "closing" => ws \in {0, pc[p].on}
    /\ Woken(p, "sending", "lost") => ws \in {0, pc[p].on}

TaskInv == TypeOK /\ RefersToNewest /\ TasksInPlace /\ ConnectedIsTended

IInv == TaskInv /\ CallersInPlace /\ CallersAgree /\ NoOrphans

-----------------------------------------------------------------------------
(* Callers, listening tasks and heartbeats are different coroutines.       *)
LEMMA Different ==
  /\ \A c \in Conns : /\ Listener(c) \in Coroutines /\ Listener(c) \notin Callers
                      /\ Heartbeat(c) \in Coroutines /\ Heartbeat(c) \notin Callers
                      /\ Listener(c) \in Tasks /\ Heartbeat(c) \in Tasks
  /\ \A c, d : /\ Listener(c) # Heartbeat(d)
               /\ Listener(c) = Listener(d) => c = d
               /\ Heartbeat(c) = Heartbeat(d) => c = d
  /\ \A t \in Coroutines : \/ t \in Callers
                           \/ \E c \in Conns : t = Listener(c)
                           \/ \E c \in Conns : t = Heartbeat(c)
  /\ \A p \in Callers : p \in Coroutines /\ p \notin Tasks
  /\ Listener(0) \notin Tasks /\ Heartbeat(0) \notin Tasks
  BY ConnectionAssumption DEF Listener, Heartbeat, Coroutines, Tasks, Conns

(* The places and their fields.                                            *)
LEMMA PlaceFields ==
  /\ \A l \in {"none", "idle", "created", "waiting", "sending", "connecting",
               "closing", "ended", "failed"} :
       /\ At(l) \in Places /\ At(l).at = l
       /\ \A c \in 0..MaxConns :
            /\ AtConn(l, c) \in Places
            /\ AtConn(l, c).at = l /\ AtConn(l, c).on = c
  /\ \A t : /\ Ended(t) \in Places
            /\ Ended(t).at = (IF t \in Callers THEN "idle" ELSE "ended")
            /\ Sent(t) \in Places
            /\ Sent(t).at = (IF t \in Callers THEN "idle" ELSE "waiting")
  BY DEF At, AtConn, Ended, Sent, Places

-----------------------------------------------------------------------------
(* Type correctness.                                                       *)
LEMMA InitTyped == Init => TypeOK
<1> SUFFICES ASSUME Init PROVE TypeOK
  OBVIOUS
<1>1. pc \in [Coroutines -> Places]
  <2>1. At("idle") \in Places /\ At("none") \in Places
    BY PlaceFields
  <2> QED
    BY <2>1 DEF Init
<1>2. ws = 0 /\ listenTask = 0 /\ heartbeatTask = 0 /\ born = 0 /\ losses = 0
      /\ failures = 0
  BY DEF Init
<1>4. auto \in BOOLEAN /\ raced \in BOOLEAN
  BY Zenon DEF Init
<1>3. conn \in [Conns -> {"unborn", "open", "closing", "closed", "lost"}]
  BY DEF Init
<1> QED
  BY <1>1, <1>2, <1>3, <1>4 DEF TypeOK

LEMMA PlaceTyped ==
  ASSUME TypeOK, NEW t \in Coroutines
  PROVE  /\ [pc EXCEPT ![t] = Ended(t)] \in [Coroutines -> Places]
         /\ [pc EXCEPT ![t] = Sent(t)] \in [Coroutines -> Places]
         /\ [pc EXCEPT ![t] = At("ended")] \in [Coroutines -> Places]
         /\ [pc EXCEPT ![t] = At("connecting")] \in [Coroutines -> Places]
         /\ \A c \in 0..MaxConns, l \in {"waiting", "sending", "closing"} :
              [pc EXCEPT ![t] = AtConn(l, c)] \in [Coroutines -> Places]
  BY PlaceFields DEF TypeOK

LEMMA CancelledTyped ==
  ASSUME TypeOK
  PROVE  /\ Cancelled \in [Coroutines -> Places]
         /\ \A t \in Coroutines :
              \/ Cancelled[t] = pc[t]
              \/ t \in Referred /\ Live(t) /\ Cancelled[t] = At("ended")
         /\ \A t \in Referred : Live(t) => Cancelled[t] = At("ended")
<1>1. Referred \subseteq Coroutines
  BY DEF Referred, Coroutines
<1> QED
  BY <1>1, PlaceFields DEF TypeOK, Cancelled

(* What an error out of a send or out of the loop over the messages does.  *)
LEMMA OnErrorCases ==
  ASSUME TypeOK, NEW t \in Coroutines, NEW after, OnConnectError(t, after)
  PROVE  \/ ws' = 0 /\ pc' = [pc EXCEPT ![t] = At("connecting")]
         \/ ws' = ws /\ pc' = [pc EXCEPT ![t] = after]
<1>1. CASE auto
  BY <1>1 DEF OnConnectError
<1>2. CASE ~auto
  BY <1>2 DEF OnConnectError
<1> QED
  BY <1>1, <1>2

LEMMA SendCases ==
  ASSUME TypeOK, NEW t \in Coroutines, Send(t)
  PROVE  /\ \/ conn[ws] = "lost" /\ ws' = 0 /\ pc' = [pc EXCEPT ![t] = At("connecting")]
            \/ ws' = ws /\ pc' = [pc EXCEPT ![t] = Sent(t)]
            \/ ws' = ws /\ pc' = [pc EXCEPT ![t] = AtConn("sending", ws)]
         /\ ws # 0
         /\ \/ t \in Callers /\ pc[t].at = "idle"
            \/ \E c \in Conns : t = Heartbeat(c) /\ pc[t].at \in {"created", "waiting"}
         /\ UNCHANGED <<auto, listenTask, heartbeatTask, born, conn, losses,
                        failures, raced>>
<1>1. CASE conn[ws] = "lost"
  BY <1>1, OnErrorCases DEF Send
<1>2. CASE conn[ws] # "lost"
  BY <1>2 DEF Send
<1> QED
  BY <1>1, <1>2

LEMMA ResumeSendCases ==
  ASSUME TypeOK, NEW t \in Coroutines, ResumeSend(t)
  PROVE  /\ \/ /\ conn[pc[t].on] = "lost" /\ ws' = 0
               /\ pc' = [pc EXCEPT ![t] = At("connecting")]
            \/ ws' = ws /\ pc' = [pc EXCEPT ![t] = Sent(t)]
         /\ pc[t].at = "sending"
         /\ UNCHANGED <<auto, listenTask, heartbeatTask, born, conn, losses,
                        failures, raced>>
<1>1. CASE conn[pc[t].on] = "lost"
  BY <1>1, OnErrorCases DEF ResumeSend
<1>2. CASE conn[pc[t].on] # "lost"
  BY <1>2 DEF ResumeSend
<1> QED
  BY <1>1, <1>2

LEMMA TypeInductive == TypeOK /\ [Next]_vars => TypeOK'
<1> SUFFICES ASSUME TypeOK, [Next]_vars PROVE TypeOK'
  OBVIOUS
<1> USE DEF TypeOK, Conns
<1>1. ASSUME NEW p \in Callers, CallConnect(p) PROVE TypeOK'
  BY <1>1, PlaceTyped, Different DEF CallConnect
<1>2. ASSUME NEW p \in Callers, CallClose(p) PROVE TypeOK'
  <2>1. pc' \in [Coroutines -> Places]
    BY <1>2, PlaceTyped, Different DEF CallClose
  <2>2. conn' \in [Conns -> {"unborn", "open", "closing", "closed", "lost"}]
    BY <1>2 DEF CallClose
  <2> QED
    BY <1>2, <2>1, <2>2 DEF CallClose
<1>3. ASSUME NEW p \in Callers, FinishClose(p) PROVE TypeOK'
  <2>1. pc' \in [Coroutines -> Places]
    <3>1. p \in Coroutines /\ At("idle") \in Places
      BY Different, PlaceFields
    <3> QED
      BY <1>3, <3>1, CancelledTyped DEF FinishClose
  <2> QED
    BY <1>3, <2>1 DEF FinishClose
<1>4. ASSUME NEW t \in Coroutines, Succeed(t) PROVE TypeOK'
  <2>1. pc' \in [Coroutines -> Places]
    BY <1>4, CancelledTyped, PlaceFields DEF Succeed, TasksReplaced
  <2> QED
    BY <1>4, <2>1 DEF Succeed
<1>5. ASSUME NEW t \in Coroutines, Retry(t) PROVE TypeOK'
  <2>1. pc[t] \in Places /\ OneMore(t) < MaxRetries
    BY <1>5 DEF Retry
  <2>2. pc[t].retries \in 0..MaxRetries
    BY <2>1 DEF Places
  <2>4. OneMore(t) \in 0..MaxRetries
    BY <2>1, <2>2 DEF OneMore
  <2>5. [pc[t] EXCEPT !.retries = OneMore(t)] \in Places
    BY <2>1, <2>4 DEF Places
  <2>3. pc' = [pc EXCEPT ![t] = [pc[t] EXCEPT !.retries = OneMore(t)]]
    BY <1>5 DEF Retry
  <2> QED
    BY <1>5, <2>5, <2>3 DEF Retry
<1>6. ASSUME NEW t \in Coroutines, GiveUp(t) PROVE TypeOK'
  BY <1>6, PlaceTyped DEF GiveUp
<1>7. ASSUME NEW t \in Coroutines, Send(t) PROVE TypeOK'
  <2>1. ws' \in 0..MaxConns /\ pc' \in [Coroutines -> Places]
    BY <1>7, PlaceTyped, SendCases
  <2> QED
    BY <1>7, <2>1, SendCases
<1>8. ASSUME NEW t \in Coroutines, ResumeSend(t) PROVE TypeOK'
  <2>1. ws' \in 0..MaxConns /\ pc' \in [Coroutines -> Places]
    BY <1>8, PlaceTyped, ResumeSendCases
  <2> QED
    BY <1>8, <2>1, ResumeSendCases
<1>9. ASSUME NEW c \in Conns, StartListening(c) PROVE TypeOK'
  BY <1>9, Different, PlaceTyped DEF StartListening
<1>10. ASSUME NEW c \in Conns, ListenerSeesLoss(c) PROVE TypeOK'
  <2>1. Listener(c) \in Coroutines
    BY Different
  <2>2. ws' \in 0..MaxConns /\ pc' \in [Coroutines -> Places]
    BY <1>10, <2>1, PlaceTyped, OnErrorCases DEF ListenerSeesLoss
  <2> QED
    BY <1>10, <2>2 DEF ListenerSeesLoss
<1>11. ASSUME NEW c \in Conns, ListenerEnds(c) PROVE TypeOK'
  BY <1>11, Different, PlaceTyped DEF ListenerEnds
<1>12. ASSUME NEW c \in Conns, HeartbeatStops(c) PROVE TypeOK'
  BY <1>12, Different, PlaceTyped DEF HeartbeatStops
<1>13. ASSUME NEW c \in Conns, Lose(c) PROVE TypeOK'
  BY <1>13 DEF Lose
<1>14. ASSUME NEW c \in Conns, CloseNormally(c) PROVE TypeOK'
  BY <1>14 DEF CloseNormally
<1>15. ASSUME NEW c \in Conns, ListenerFails(c) PROVE TypeOK'
  <2>1. Listener(c) \in Coroutines /\ At("failed") \in Places
    BY Different, PlaceFields
  <2> QED
    BY <1>15, <2>1, PlaceTyped DEF ListenerFails, TypeOK
<1>16. CASE UNCHANGED vars
  BY <1>16 DEF vars
<1> QED
  BY <1>1, <1>2, <1>3, <1>4, <1>5, <1>6, <1>7, <1>8, <1>9, <1>10, <1>11, <1>12,
     <1>13, <1>14, <1>15, <1>16 DEF Next, Step

(* Type correctness of the connection.                                     *)
THEOREM TypeCorrect == Spec => []TypeOK
  BY InitTyped, TypeInductive, PTL DEF Spec

-----------------------------------------------------------------------------
(* The tasks.  First what a step of one coroutine leaves alone, and what   *)
(* cancelling the tasks of the client leaves alive: none.                  *)
LEMMA OneMoves ==
  ASSUME TypeOK, NEW t \in Coroutines, NEW x, pc' = [pc EXCEPT ![t] = x]
  PROVE  pc'[t] = x /\ \A u \in Coroutines \ {t} : pc'[u] = pc[u]
  BY DEF TypeOK

LEMMA CallerMoves ==
  ASSUME TypeOK, NEW p \in Callers, NEW x, pc' = [pc EXCEPT ![p] = x]
  PROVE  \A c \in Conns : /\ pc'[Listener(c)] = pc[Listener(c)]
                          /\ pc'[Heartbeat(c)] = pc[Heartbeat(c)]
  BY OneMoves, Different

LEMMA ListenerMoves ==
  ASSUME TypeOK, NEW c \in Conns, NEW x, pc' = [pc EXCEPT ![Listener(c)] = x]
  PROVE  /\ pc'[Listener(c)] = x
         /\ \A d \in Conns \ {c} : pc'[Listener(d)] = pc[Listener(d)]
         /\ \A d \in Conns : pc'[Heartbeat(d)] = pc[Heartbeat(d)]
<1>1. Listener(c) \in Coroutines
  BY Different
<1>2. pc'[Listener(c)] = x /\ \A u \in Coroutines \ {Listener(c)} : pc'[u] = pc[u]
  BY <1>1, OneMoves
<1>3. \A d \in Conns : Heartbeat(d) \in Coroutines \ {Listener(c)}
  BY Different
<1>4. \A d \in Conns \ {c} : Listener(d) \in Coroutines \ {Listener(c)}
  BY Different
<1> QED
  BY <1>2, <1>3, <1>4

LEMMA HeartbeatMoves ==
  ASSUME TypeOK, NEW c \in Conns, NEW x, pc' = [pc EXCEPT ![Heartbeat(c)] = x]
  PROVE  /\ pc'[Heartbeat(c)] = x
         /\ \A d \in Conns : pc'[Listener(d)] = pc[Listener(d)]
         /\ \A d \in Conns \ {c} : pc'[Heartbeat(d)] = pc[Heartbeat(d)]
<1>1. Heartbeat(c) \in Coroutines
  BY Different
<1>2. pc'[Heartbeat(c)] = x /\ \A u \in Coroutines \ {Heartbeat(c)} : pc'[u] = pc[u]
  BY <1>1, OneMoves
<1>3. \A d \in Conns : Listener(d) \in Coroutines \ {Heartbeat(c)}
  BY Different
<1>4. \A d \in Conns \ {c} : Heartbeat(d) \in Coroutines \ {Heartbeat(c)}
  BY Different
<1> QED
  BY <1>2, <1>3, <1>4

LEMMA NoneSurvives ==
  ASSUME TaskInv, NEW c \in Conns
  PROVE  /\ Cancelled[Listener(c)].at \in {"none", "ended", "failed"}
         /\ Cancelled[Heartbeat(c)].at \in {"none", "ended"}
<1>1. Live(Listener(c)) => Listener(c) \in Referred
  BY Different DEF TaskInv, TasksInPlace, Referred
<1>2. Live(Heartbeat(c)) => Heartbeat(c) \in Referred
  BY Different DEF TaskInv, TasksInPlace, RefersToNewest, Referred
<1>3. ~Live(Listener(c)) => pc[Listener(c)].at \in {"none", "ended", "failed"}
  BY DEF TaskInv, TasksInPlace, Live
<1>4. ~Live(Heartbeat(c)) => pc[Heartbeat(c)].at \in {"none", "ended"}
  BY DEF TaskInv, TasksInPlace, Live
<1>5. Listener(c) \in Coroutines /\ Heartbeat(c) \in Coroutines
  BY Different
<1> QED
  BY <1>1, <1>2, <1>3, <1>4, <1>5, CancelledTyped, PlaceFields DEF TaskInv

(* With all tasks ended the invariant is about the references only.        *)
LEMMA AllEnded ==
  ASSUME RefersToNewest', ws' = 0,
         \A c \in Conns : /\ pc'[Listener(c)].at \in {"none", "ended", "failed"}
                          /\ pc'[Heartbeat(c)].at \in {"none", "ended"}
  PROVE  (TasksInPlace /\ ConnectedIsTended)'
  BY DEF TasksInPlace, ConnectedIsTended, Live, Up

(* A caller that does not open a connection disturbs no task.              *)
LEMMA CallerStep ==
  ASSUME TaskInv, NEW p \in Callers, NEW x, pc' = [pc EXCEPT ![p] = x],
         ws' \in {0, ws}, UNCHANGED <<listenTask, heartbeatTask, born>>,
         \A c \in Conns : conn'[c] = "open" => conn[c] = "open"
  PROVE  (RefersToNewest /\ TasksInPlace /\ ConnectedIsTended)'
<1> USE DEF TaskInv
<1>1. \A c \in Conns : /\ pc'[Listener(c)] = pc[Listener(c)]
                       /\ pc'[Heartbeat(c)] = pc[Heartbeat(c)]
  BY CallerMoves
<1>2. RefersToNewest'
  BY DEF RefersToNewest
<1>3. TasksInPlace'
  BY <1>1 DEF TasksInPlace, Live
<1>4. ConnectedIsTended'
  BY <1>1 DEF ConnectedIsTended, Up, TypeOK, Conns
<1> QED
  BY <1>2, <1>3, <1>4

(* A task that is alive moves on: it ends, reconnects without a connection *)
(* or goes on with its own.                                                *)
LEMMA ListenerStep ==
  ASSUME TaskInv, NEW c \in Conns, NEW x, pc' = [pc EXCEPT ![Listener(c)] = x],
         Live(Listener(c)), ws' \in {0, ws},
         UNCHANGED <<listenTask, heartbeatTask, born, conn>>,
         x.at \in {"waiting", "connecting", "ended", "failed"},
         x.at = "waiting" => x.on = c,
         x.at = "connecting" => ws' = 0,
         Up(ws)' => x \in {AtConn("waiting", c), At("failed")}
  PROVE  (RefersToNewest /\ TasksInPlace /\ ConnectedIsTended)'
<1> USE DEF TaskInv
<1>1. listenTask = c /\ ws \in {0, c}
  BY DEF TasksInPlace, RefersToNewest, Conns
<1>5. /\ pc'[Listener(c)] = x
      /\ \A d \in Conns \ {c} : pc'[Listener(d)] = pc[Listener(d)]
      /\ \A d \in Conns : pc'[Heartbeat(d)] = pc[Heartbeat(d)]
  BY ListenerMoves
<1>2. RefersToNewest'
  BY DEF RefersToNewest
<1>3. TasksInPlace'
  BY <1>1, <1>5 DEF TasksInPlace, Live
<1>4. ConnectedIsTended'
  <2> SUFFICES ASSUME Up(ws)' PROVE ConnectedIsTended'
    BY DEF ConnectedIsTended
  <2>1. Up(ws) /\ ws' = c /\ ws = c
    BY <1>1 DEF Up
  <2> QED
    BY <1>5, <2>1 DEF ConnectedIsTended
<1> QED
  BY <1>2, <1>3, <1>4

LEMMA HeartbeatStep ==
  ASSUME TaskInv, NEW c \in Conns, NEW x, pc' = [pc EXCEPT ![Heartbeat(c)] = x],
         Live(Heartbeat(c)), ws' \in {0, ws},
         UNCHANGED <<listenTask, heartbeatTask, born, conn>>,
         x.at \in {"waiting", "sending", "connecting", "ended"},
         x.at = "sending" => x.on = c,
         x.at = "connecting" => ws' = 0,
         Up(ws)' => x.at \in {"waiting", "sending"}
  PROVE  (RefersToNewest /\ TasksInPlace /\ ConnectedIsTended)'
<1> USE DEF TaskInv
<1>1. listenTask = c /\ ws \in {0, c}
  BY DEF TasksInPlace, RefersToNewest, Conns
<1>5. /\ pc'[Heartbeat(c)] = x
      /\ \A d \in Conns \ {c} : pc'[Heartbeat(d)] = pc[Heartbeat(d)]
      /\ \A d \in Conns : pc'[Listener(d)] = pc[Listener(d)]
  BY HeartbeatMoves
<1>2. RefersToNewest'
  BY DEF RefersToNewest
<1>3. TasksInPlace'
  BY <1>1, <1>5 DEF TasksInPlace, Live
<1>4. ConnectedIsTended'
  <2> SUFFICES ASSUME Up(ws)' PROVE ConnectedIsTended'
    BY DEF ConnectedIsTended
  <2>1. Up(ws) /\ ws' = c /\ ws = c
    BY <1>1 DEF Up
  <2> QED
    BY <1>5, <2>1 DEF ConnectedIsTended
<1> QED
  BY <1>2, <1>3, <1>4

LEMMA TasksInductive == TaskInv /\ [Next]_vars => TaskInv'
<1> SUFFICES ASSUME TaskInv, [Next]_vars
             PROVE  (RefersToNewest /\ TasksInPlace /\ ConnectedIsTended)'
  BY TypeInductive DEF TaskInv
<1> USE DEF TaskInv
<1> DEFINE Goal == RefersToNewest /\ TasksInPlace /\ ConnectedIsTended
<1>1. ASSUME NEW p \in Callers, CallConnect(p) PROVE Goal'
  BY <1>1, CallerStep DEF CallConnect
<1>2. ASSUME NEW p \in Callers, CallClose(p) PROVE Goal'
  <2>1. \A c \in Conns : conn'[c] = "open" => conn[c] = "open"
    BY <1>2 DEF CallClose, TypeOK
  <2> QED
    BY <1>2, <2>1, CallerStep DEF CallClose
<1>3. ASSUME NEW p \in Callers, FinishClose(p) PROVE Goal'
  <2>1. RefersToNewest'
    BY <1>3 DEF FinishClose, RefersToNewest
  <2>2. ASSUME NEW c \in Conns
        PROVE  /\ pc'[Listener(c)].at \in {"none", "ended", "failed"}
               /\ pc'[Heartbeat(c)].at \in {"none", "ended"}
    <3>1. pc'[Listener(c)] = Cancelled[Listener(c)] /\ pc'[Heartbeat(c)] = Cancelled[Heartbeat(c)]
      BY <1>3, Different, CancelledTyped DEF FinishClose
    <3> QED
      BY <3>1, NoneSurvives
  <2> QED
    BY <1>3, <2>1, <2>2, AllEnded DEF FinishClose
<1>4. ASSUME NEW t \in Coroutines, Succeed(t) PROVE Goal'
  <2> DEFINE n == born + 1
  <2>1. n \in Conns /\ ws' = n /\ born' = n /\ listenTask' = n /\ heartbeatTask' = n
    BY <1>4 DEF Succeed, TypeOK, Conns
  <2>2. /\ pc'[Listener(n)] = At("created")
        /\ pc'[Heartbeat(n)] = At("created")
    BY <1>4, <2>1, Different, CancelledTyped DEF Succeed, TasksReplaced
  <2>3. ASSUME NEW u \in Coroutines \ {Listener(n), Heartbeat(n)}
        PROVE  pc'[u] = Cancelled[u] \/ (u = t /\ pc'[u] = Ended(t))
    BY <1>4, <2>1, Different, CancelledTyped DEF Succeed, TasksReplaced
  <2>4. ASSUME NEW c \in Conns \ {n}
        PROVE  /\ pc'[Listener(c)].at \in {"none", "ended", "failed"}
               /\ pc'[Heartbeat(c)].at \in {"none", "ended"}
    <3>1. /\ Listener(c) \in Coroutines \ {Listener(n), Heartbeat(n)}
          /\ Heartbeat(c) \in Coroutines \ {Listener(n), Heartbeat(n)}
          /\ Listener(c) \notin Callers /\ Heartbeat(c) \notin Callers
      BY Different
    <3>2. Ended(Listener(c)).at = "ended" /\ Ended(Heartbeat(c)).at = "ended"
      BY <3>1, PlaceFields
    <3> QED
      BY <2>3, <3>1, <3>2, NoneSurvives
  <2>5. At("created").at = "created"
    BY PlaceFields
  <2>6. RefersToNewest'
    BY <2>1 DEF RefersToNewest
  <2>7. TasksInPlace'
    BY <2>1, <2>2, <2>4, <2>5 DEF TasksInPlace, Live
  <2>8. ConnectedIsTended'
    BY <2>1, <2>2, <2>5 DEF ConnectedIsTended
  <2> QED
    BY <2>6, <2>7, <2>8
<1>5. ASSUME NEW t \in Coroutines, Retry(t) PROVE Goal'
  <2> DEFINE x == [pc[t] EXCEPT !.retries = OneMore(t)]
  <2>1. pc' = [pc EXCEPT ![t] = x]
    BY <1>5 DEF Retry
  <2>2. x.at = "connecting"
    BY <1>5 DEF Retry, TypeOK, Places
  <2>3. CASE t \in Callers
    BY <1>5, <2>1, <2>3, CallerStep DEF Retry
  <2>4. ASSUME NEW c \in Conns, t = Listener(c) PROVE Goal'
    <3>1. Live(t) /\ ws = 0
      BY <1>5, <2>4 DEF Retry, Live, TasksInPlace
    <3> QED
      BY <1>5, <2>1, <2>2, <2>4, <3>1, ListenerStep DEF Retry, Up
  <2>5. ASSUME NEW c \in Conns, t = Heartbeat(c) PROVE Goal'
    <3>1. Live(t) /\ ws = 0
      BY <1>5, <2>5 DEF Retry, Live, TasksInPlace
    <3> QED
      BY <1>5, <2>1, <2>2, <2>5, <3>1, HeartbeatStep DEF Retry, Up
  <2> QED
    BY <2>3, <2>4, <2>5, Different
<1>6. ASSUME NEW t \in Coroutines, GiveUp(t) PROVE Goal'
  <2>1. CASE t \in Callers
    BY <1>6, <2>1, CallerStep DEF GiveUp
  <2>2. ASSUME NEW c \in Conns, t = Listener(c) PROVE Goal'
    <3>1. Live(t) /\ ws = 0 /\ Ended(t).at = "ended"
      BY <1>6, <2>2, Different, PlaceFields DEF GiveUp, Live, TasksInPlace
    <3> QED
      BY <1>6, <2>2, <3>1, ListenerStep DEF GiveUp, Up
  <2>3. ASSUME NEW c \in Conns, t = Heartbeat(c) PROVE Goal'
    <3>1. Live(t) /\ ws = 0 /\ Ended(t).at = "ended"
      BY <1>6, <2>3, Different, PlaceFields DEF GiveUp, Live, TasksInPlace
    <3> QED
      BY <1>6, <2>3, <3>1, HeartbeatStep DEF GiveUp, Up
  <2> QED
    BY <2>1, <2>2, <2>3, Different
<1>7. ASSUME NEW t \in Coroutines, Send(t) PROVE Goal'
  <2>1. CASE t \in Callers
    BY <1>7, <2>1, SendCases, CallerStep
  <2>2. ASSUME NEW c \in Conns, t = Heartbeat(c), pc[t].at \in {"created", "waiting"}
        PROVE  Goal'
    <3>6. Live(t) /\ ws # 0
      BY <1>7, <2>2, SendCases DEF Live
    <3>1. Live(t) /\ ws = c
      BY <2>2, <3>6 DEF TasksInPlace, RefersToNewest, Conns
    <3>2. /\ At("connecting").at = "connecting" /\ Sent(t).at = "waiting"
          /\ AtConn("sending", c).at = "sending" /\ AtConn("sending", c).on = c
      BY <2>2, PlaceFields, Different DEF Conns
    <3>3. CASE ws' = 0 /\ pc' = [pc EXCEPT ![t] = At("connecting")]
      BY <1>7, <2>2, <3>1, <3>2, <3>3, SendCases, HeartbeatStep DEF Up
    <3>4. CASE ws' = ws /\ pc' = [pc EXCEPT ![t] = Sent(t)]
      BY <1>7, <2>2, <3>1, <3>2, <3>4, SendCases, HeartbeatStep
    <3>5. CASE ws' = ws /\ pc' = [pc EXCEPT ![t] = AtConn("sending", ws)]
      BY <1>7, <2>2, <3>1, <3>2, <3>5, SendCases, HeartbeatStep
    <3> QED
      BY <1>7, <3>3, <3>4, <3>5, SendCases
  <2> QED
    BY <1>7, <2>1, <2>2, SendCases
<1>8. ASSUME NEW t \in Coroutines, ResumeSend(t) PROVE Goal'
  <2>1. CASE t \in Callers
    BY <1>8, <2>1, ResumeSendCases, CallerStep
  <2>2. ASSUME NEW c \in Conns, t = Heartbeat(c) PROVE Goal'
    <3>1. Live(t)
      BY <1>8, ResumeSendCases DEF Live
    <3>2. At("connecting").at = "connecting" /\ Sent(t).at = "waiting"
      BY <2>2, PlaceFields, Different
    <3>3. CASE ws' = 0 /\ pc' = [pc EXCEPT ![t] = At("connecting")]
      BY <1>8, <2>2, <3>1, <3>2, <3>3, ResumeSendCases, HeartbeatStep DEF Up
    <3>4. CASE ws' = ws /\ pc' = [pc EXCEPT ![t] = Sent(t)]
      BY <1>8, <2>2, <3>1, <3>2, <3>4, ResumeSendCases, HeartbeatStep
    <3> QED
      BY <1>8, <3>3, <3>4, ResumeSendCases
  <2>3. ASSUME NEW c \in Conns, t = Listener(c) PROVE FALSE
    BY <1>8, <2>3, ResumeSendCases DEF TasksInPlace
  <2> QED
    BY <2>1, <2>2, <2>3, Different
<1>9. ASSUME NEW c \in Conns, StartListening(c) PROVE Goal'
  <2>1. Live(Listener(c)) /\ ws \in {0, c}
    BY <1>9 DEF StartListening, Live, TasksInPlace, RefersToNewest, Conns
  <2>2. CASE ws = 0
    <3>1. /\ pc' = [pc EXCEPT ![Listener(c)] = At("ended")]
          /\ UNCHANGED <<ws, listenTask, heartbeatTask, born, conn>>
      BY <1>9, <2>2 DEF StartListening
    <3>2. At("ended").at = "ended" /\ ~Up(ws)'
      BY <2>2, <3>1, PlaceFields DEF Up
    <3> QED
      BY <2>1, <3>1, <3>2, ListenerStep
  <2>3. CASE ws = c
    <3>1. AtConn("waiting", c).at = "waiting" /\ AtConn("waiting", c).on = c
      BY PlaceFields DEF Conns
    <3>2. ws # 0
      BY <2>3 DEF Conns
    <3> QED
      BY <1>9, <2>1, <2>3, <3>1, <3>2, ListenerStep DEF StartListening
  <2> QED
    BY <2>1, <2>2, <2>3
<1>10. ASSUME NEW c \in Conns, ListenerSeesLoss(c) PROVE Goal'
  <2>1. /\ Live(Listener(c)) /\ ws \in {0, c} /\ conn[c] = "lost"
        /\ UNCHANGED <<listenTask, heartbeatTask, born, conn>>
    BY <1>10 DEF ListenerSeesLoss, Woken, Live, TasksInPlace, RefersToNewest, Conns
  <2>2. ~Up(ws) /\ ~Up(0)
    BY <2>1 DEF Up
  <2>3. CASE ws' = 0 /\ pc' = [pc EXCEPT ![Listener(c)] = At("connecting")]
    BY <2>1, <2>2, <2>3, PlaceFields, ListenerStep DEF Up
  <2>4. CASE ws' = ws /\ pc' = [pc EXCEPT ![Listener(c)] = At("ended")]
    BY <2>1, <2>2, <2>4, PlaceFields, ListenerStep DEF Up
  <2> QED
    BY <1>10, <2>3, <2>4, OnErrorCases, Different DEF ListenerSeesLoss
<1>11. ASSUME NEW c \in Conns, ListenerEnds(c) PROVE Goal'
  <2>1. Live(Listener(c)) /\ ws \in {0, c} /\ conn[c] = "closed"
    BY <1>11 DEF ListenerEnds, Woken, Live, TasksInPlace, RefersToNewest, Conns
  <2> QED
    BY <1>11, <2>1, PlaceFields, ListenerStep DEF ListenerEnds, Up
<1>12. ASSUME NEW c \in Conns, HeartbeatStops(c) PROVE Goal'
  <2>1. Live(Heartbeat(c))
    BY <1>12 DEF HeartbeatStops, Live
  <2> QED
    BY <1>12, <2>1, PlaceFields, HeartbeatStep DEF HeartbeatStops, Up
<1>13. ASSUME NEW c \in Conns, Lose(c) \/ CloseNormally(c) PROVE Goal'
  <2>1. /\ UNCHANGED <<ws, listenTask, heartbeatTask, born, pc>>
        /\ \A d \in Conns : conn'[d] = "open" => conn[d] = "open"
    BY <1>13 DEF Lose, CloseNormally, TypeOK
  <2>2. RefersToNewest'
    BY <2>1 DEF RefersToNewest
  <2>3. TasksInPlace'
    BY <2>1 DEF TasksInPlace, Live
  <2>4. ConnectedIsTended'
    BY <2>1 DEF ConnectedIsTended, Up, TypeOK, Conns
  <2> QED
    BY <2>2, <2>3, <2>4
<1>14. ASSUME NEW c \in Conns, ListenerFails(c) PROVE Goal'
  <2>1. Live(Listener(c))
    BY <1>14 DEF ListenerFails, Live
  <2>2. At("failed").at = "failed"
    BY PlaceFields
  <2> QED
    BY <1>14, <2>1, <2>2, ListenerStep DEF ListenerFails
<1>15. CASE UNCHANGED vars
  BY <1>15 DEF vars, RefersToNewest, TasksInPlace, ConnectedIsTended, Live, Up
<1> QED
  BY <1>1, <1>2, <1>3, <1>4, <1>5, <1>6, <1>7, <1>8, <1>9, <1>10, <1>11, <1>12,
     <1>13, <1>14, <1>15 DEF Next, Step

LEMMA InitTasks == Init => TaskInv
<1> SUFFICES ASSUME Init PROVE TaskInv
  OBVIOUS
<1>1. \A c \in Conns : pc[Listener(c)] = At("none") /\ pc[Heartbeat(c)] = At("none")
  BY Different DEF Init
<1>2. TasksInPlace
  BY <1>1, PlaceFields DEF TasksInPlace, Live
<1>3. RefersToNewest /\ ConnectedIsTended
  BY DEF Init, RefersToNewest, ConnectedIsTended, Up
<1> QED
  BY <1>2, <1>3, InitTyped DEF TaskInv

(* The tasks that are alive are those the client refers to, and belong to  *)
(* the newest connection.                                                  *)
THEOREM OnlyReferredTasksLive == Spec => []OnlyReferredLive
<1>1. TaskInv => OnlyReferredLive
  BY DEF TaskInv, TasksInPlace, RefersToNewest, OnlyReferredLive, Conns
<1> QED
  BY <1>1, InitTasks, TasksInductive, PTL DEF Spec

(* An open connection the client uses has a heartbeat, and a listening     *)
(* task that ends before it only by an exception of what handles a         *)
(* message, whatever fails, closes or reconnects at the same time.         *)
THEOREM ConnectionsAreTended == Spec => []ConnectedIsTended
<1>1. TaskInv => ConnectedIsTended
  BY DEF TaskInv
<1> QED
  BY <1>1, InitTasks, TasksInductive, PTL DEF Spec

-----------------------------------------------------------------------------
(* Orphans.  What a step of t leaves of the callers' agreement: t itself   *)
(* is in a place that agrees, and nobody opens or reopens a connection.    *)
OrphanInv == CallersInPlace /\ CallersAgree /\ NoOrphans

Agrees(t) ==
  /\ pc[t].at \in {"sending", "closing"} => pc[t].on \in Conns
  /\ ~raced => /\ pc[t].at = "connecting" => ws = 0
               /\ pc[t].at = "closing" => ws \in {0, pc[t].on}
               /\ Woken(t, "sending", "lost") => ws \in {0, pc[t].on}

LEMMA StepAgrees ==
  ASSUME IInv, NEW t \in Coroutines, NEW x, pc' = [pc EXCEPT ![t] = x],
         ws' \in {0, ws}, UNCHANGED <<conn, raced>>,
         ~raced /\ ws' # ws => conn[ws] \notin {"open", "closing"},
         t \in Callers => Agrees(t)'
  PROVE  OrphanInv'
<1>1. \A u \in Coroutines \ {t} : pc'[u] = pc[u]
  BY OneMoves DEF IInv, TaskInv
<1>2. CallersInPlace'
  BY <1>1, Different DEF IInv, CallersInPlace, Agrees
<1>3. CallersAgree'
  <2> SUFFICES ASSUME ~raced, NEW p \in Callers
               PROVE  /\ pc'[p].at = "connecting" => ws' = 0
                      /\ pc'[p].at = "closing" => ws' \in {0, pc'[p].on}
                      /\ Woken(p, "sending", "lost")' => ws' \in {0, pc'[p].on}
    BY DEF CallersAgree
  <2>1. CASE p = t
    BY <2>1 DEF Agrees
  <2>2. CASE p # t
    BY <1>1, <2>2, Different DEF IInv, CallersAgree, Woken
  <2> QED
    BY <2>1, <2>2
<1>4. NoOrphans'
  BY DEF IInv, NoOrphans, Conns
<1> QED
  BY <1>2, <1>3, <1>4 DEF OrphanInv

(* The places a caller gets to that agree.                                 *)
LEMMA PlaceAgrees ==
  ASSUME TypeOK, NEW t \in Coroutines, NEW x, pc' = [pc EXCEPT ![t] = x],
         \/ x.at = "idle"
         \/ x.at = "connecting" /\ ws' = 0
         \/ x.at = "sending" /\ x.on = ws' /\ ws' \in Conns
  PROVE  Agrees(t)'
<1>1. pc'[t] = x
  BY OneMoves
<1> QED
  BY <1>1 DEF Agrees, Woken

LEMMA CallersSurvive ==
  ASSUME TypeOK, NEW q \in Callers
  PROVE  Cancelled[q] = pc[q]
  BY CancelledTyped, Different DEF Referred

(* Whose connection it is that a coroutine finds lost.                     *)
LEMMA FoundLost ==
  ASSUME IInv, NEW t \in Coroutines, ~raced, pc[t].at = "sending",
         conn[pc[t].on] = "lost"
  PROVE  ws \in {0, pc[t].on}
<1>1. CASE t \in Callers
  BY <1>1 DEF IInv, CallersAgree, Woken
<1>2. ASSUME NEW c \in Conns, t = Heartbeat(c) PROVE ws \in {0, pc[t].on}
  BY <1>2 DEF IInv, TaskInv, TasksInPlace, RefersToNewest, Live, Conns
<1>3. ASSUME NEW c \in Conns, t = Listener(c) PROVE FALSE
  BY <1>3 DEF IInv, TaskInv, TasksInPlace
<1> QED
  BY <1>1, <1>2, <1>3, Different

LEMMA OrphansInductive == IInv /\ [Next]_vars => OrphanInv'
<1> SUFFICES ASSUME IInv, [Next]_vars PROVE OrphanInv'
  OBVIOUS
<1>0. TypeOK
  BY DEF IInv, TaskInv
<1>1. ASSUME NEW p \in Callers, CallConnect(p) PROVE OrphanInv'
  <2>1. /\ pc' = [pc EXCEPT ![p] = At("connecting")]
        /\ UNCHANGED <<ws, conn, raced>> /\ ws' = 0
    BY <1>1 DEF CallConnect, MayConnect
  <2>2. Agrees(p)'
    BY <1>0, <2>1, PlaceAgrees, PlaceFields, Different
  <2> QED
    BY <2>1, <2>2, StepAgrees, Different
<1>2. ASSUME NEW p \in Callers, CallClose(p) PROVE OrphanInv'
  <2> DEFINE x == AtConn("closing", ws)
  <2>1. ws \in Conns /\ x.at = "closing" /\ x.on = ws
    BY <1>2, PlaceFields DEF CallClose, IInv, TaskInv, TypeOK, Conns
  <2>2. pc'[p] = x /\ \A u \in Coroutines \ {p} : pc'[u] = pc[u]
    BY <1>2, OneMoves, Different DEF CallClose, IInv, TaskInv
  <2>3. /\ UNCHANGED <<ws, raced>>
        /\ \A c \in Conns : /\ conn'[c] \in {"open", "closing"} => conn[c] \in {"open", "closing"}
                            /\ conn'[c] = "lost" => conn[c] = "lost"
    BY <1>2 DEF CallClose, IInv, TaskInv, TypeOK
  <2>4. CallersInPlace'
    BY <2>1, <2>2, Different DEF IInv, CallersInPlace
  <2>5. CallersAgree'
    BY <2>1, <2>2, <2>3, Different DEF IInv, CallersInPlace, CallersAgree, Woken
  <2>6. NoOrphans'
    BY <2>3 DEF IInv, NoOrphans
  <2> QED
    BY <2>4, <2>5, <2>6 DEF OrphanInv
<1>3. ASSUME NEW p \in Callers, FinishClose(p) PROVE OrphanInv'
  <2>1. ws' = 0 /\ UNCHANGED <<conn, raced>>
    BY <1>3 DEF FinishClose
  <2>2. \A q \in Callers : pc'[q] = pc[q] \/ pc'[q].at = "idle"
    BY <1>3, <1>0, CancelledTyped, CallersSurvive, Different, PlaceFields DEF FinishClose
  <2>3. ASSUME ~raced, NEW c \in Conns PROVE conn[c] \notin {"open", "closing"}
    <3>1. CASE ws = 0
      BY <2>3, <3>1 DEF IInv, NoOrphans, Conns
    <3>2. CASE ws # 0
      <4>1. ws = pc[p].on /\ conn[ws] \in {"closed", "lost"}
        BY <1>3, <2>3, <3>2 DEF FinishClose, Woken, IInv, CallersAgree
      <4> QED
        BY <2>3, <4>1 DEF IInv, NoOrphans
    <3> QED
      BY <3>1, <3>2
  <2>4. CallersInPlace'
    BY <2>2 DEF IInv, CallersInPlace
  <2>5. CallersAgree'
    BY <2>1, <2>2 DEF CallersAgree, Woken
  <2>6. NoOrphans'
    BY <2>1, <2>3 DEF NoOrphans
  <2> QED
    BY <2>4, <2>5, <2>6 DEF OrphanInv
<1>4. ASSUME NEW t \in Coroutines, Succeed(t) PROVE OrphanInv'
  <2> DEFINE n == born + 1
  <2>1. /\ n \in Conns /\ ws' = n /\ conn' = [conn EXCEPT ![n] = "open"]
        /\ pc[t].at = "connecting"
    BY <1>4 DEF Succeed, IInv, TaskInv, TypeOK, Conns
  <2>2. \A q \in Callers \ {t} : pc'[q] = pc[q]
    BY <1>0, <1>4, <2>1, CancelledTyped, CallersSurvive, Different DEF Succeed, TasksReplaced
  <2>3. t \in Callers => pc'[t].at = "idle"
    BY <1>4, <2>1, CancelledTyped, Different, PlaceFields DEF Succeed, TasksReplaced, IInv, TaskInv
  <2>4. CallersInPlace'
    BY <2>2, <2>3 DEF IInv, CallersInPlace
  <2>5. ASSUME ~raced' PROVE ~raced /\ \A q \in Callers \ {t} : ~Busy(q)
    BY <1>4, <2>5 DEF Succeed, IInv, TaskInv, TypeOK
  <2>6. CallersAgree'
    <3> SUFFICES ASSUME ~raced', NEW q \in Callers
                 PROVE  /\ pc'[q].at \notin {"connecting", "closing"}
                        /\ ~Woken(q, "sending", "lost")'
      BY DEF CallersAgree
    <3>1. CASE q = t
      BY <2>3, <3>1 DEF Woken
    <3>2. CASE q # t
      <4>1. pc'[q] = pc[q] /\ ~Busy(q)
        BY <2>2, <2>5, <3>2
      <4>2. pc[q].at = "sending" => pc[q].on \in Conns
        BY DEF IInv, CallersInPlace
      <4> QED
        BY <2>1, <4>1, <4>2 DEF Busy, Woken, IInv, TaskInv, TypeOK
    <3> QED
      BY <3>1, <3>2
  <2>7. NoOrphans'
    <3> SUFFICES ASSUME ~raced', NEW c \in Conns, conn'[c] \in {"open", "closing"}
                 PROVE  c = n
      BY <2>1 DEF NoOrphans
    <3>1. ~raced
      BY <2>5
    <3>2. ws = 0
      BY <2>1, <3>1, Different DEF IInv, CallersAgree, TaskInv, TasksInPlace
    <3> QED
      BY <2>1, <3>1, <3>2 DEF IInv, NoOrphans, TaskInv, TypeOK, Conns
  <2> QED
    BY <2>4, <2>6, <2>7 DEF OrphanInv
<1>5. ASSUME NEW t \in Coroutines, Retry(t) PROVE OrphanInv'
  <2> DEFINE x == [pc[t] EXCEPT !.retries = OneMore(t)]
  <2>1. pc' = [pc EXCEPT ![t] = x] /\ UNCHANGED <<ws, conn, raced>>
    BY <1>5 DEF Retry
  <2>2. x.at = "connecting" /\ pc[t].at = "connecting"
    BY <1>5 DEF Retry, IInv, TaskInv, TypeOK, Places
  <2>3. pc'[t] = x
    BY <2>1, OneMoves DEF IInv, TaskInv
  <2>4. t \in Callers => Agrees(t)'
    BY <2>1, <2>2, <2>3 DEF Agrees, Woken, IInv, CallersAgree
  <2> QED
    BY <2>1, <2>4, StepAgrees
<1>6. ASSUME NEW t \in Coroutines, GiveUp(t) PROVE OrphanInv'
  <2>1. pc' = [pc EXCEPT ![t] = Ended(t)] /\ UNCHANGED <<ws, conn, raced>>
    BY <1>6 DEF GiveUp
  <2>2. t \in Callers => Agrees(t)'
    BY <1>0, <2>1, PlaceAgrees, PlaceFields
  <2> QED
    BY <2>1, <2>2, StepAgrees
<1>7. ASSUME NEW t \in Coroutines, Send(t) PROVE OrphanInv'
  <2>1. UNCHANGED <<conn, raced>> /\ ws # 0 /\ ws \in 0..MaxConns
    BY <1>7, SendCases DEF IInv, TaskInv, TypeOK
  <2>2. CASE conn[ws] = "lost" /\ ws' = 0 /\ pc' = [pc EXCEPT ![t] = At("connecting")]
    <3>1. t \in Callers => Agrees(t)'
      BY <1>0, <2>2, PlaceAgrees, PlaceFields
    <3> QED
      BY <2>1, <2>2, <3>1, StepAgrees
  <2>3. CASE ws' = ws /\ pc' = [pc EXCEPT ![t] = Sent(t)]
    <3>1. t \in Callers => Agrees(t)'
      BY <1>0, <2>3, PlaceAgrees, PlaceFields
    <3> QED
      BY <2>1, <2>3, <3>1, StepAgrees
  <2>4. CASE ws' = ws /\ pc' = [pc EXCEPT ![t] = AtConn("sending", ws)]
    <3>1. t \in Callers => Agrees(t)'
      <4>1. ws' \in Conns /\ AtConn("sending", ws).at = "sending" /\ AtConn("sending", ws).on = ws'
        BY <2>1, <2>4, PlaceFields DEF Conns
      <4> QED
        BY <1>0, <2>4, <4>1, PlaceAgrees
    <3> QED
      BY <2>1, <2>4, <3>1, StepAgrees
  <2> QED
    BY <1>7, <2>2, <2>3, <2>4, SendCases DEF IInv, TaskInv
<1>8. ASSUME NEW t \in Coroutines, ResumeSend(t) PROVE OrphanInv'
  <2>1. UNCHANGED <<conn, raced>> /\ pc[t].at = "sending"
    BY <1>8, ResumeSendCases DEF IInv, TaskInv
  <2>2. CASE conn[pc[t].on] = "lost" /\ ws' = 0 /\ pc' = [pc EXCEPT ![t] = At("connecting")]
    <3>1. t \in Callers => Agrees(t)'
      BY <1>0, <2>2, PlaceAgrees, PlaceFields
    <3>2. ~raced /\ ws' # ws => conn[ws] \notin {"open", "closing"}
      BY <2>1, <2>2, FoundLost
    <3> QED
      BY <2>1, <2>2, <3>1, <3>2, StepAgrees
  <2>3. CASE ws' = ws /\ pc' = [pc EXCEPT ![t] = Sent(t)]
    <3>1. t \in Callers => Agrees(t)'
      BY <1>0, <2>3, PlaceAgrees, PlaceFields
    <3> QED
      BY <2>1, <2>3, <3>1, StepAgrees
  <2> QED
    BY <1>8, <2>2, <2>3, ResumeSendCases DEF IInv, TaskInv
<1>9. ASSUME NEW c \in Conns, StartListening(c) PROVE OrphanInv'
  BY <1>9, StepAgrees, Different DEF StartListening
<1>10. ASSUME NEW c \in Conns, ListenerSeesLoss(c) PROVE OrphanInv'
  <2>1. UNCHANGED <<conn, raced>> /\ conn[c] = "lost" /\ ws \in {0, c}
    BY <1>10 DEF ListenerSeesLoss, Woken, Live, IInv, TaskInv, TasksInPlace, RefersToNewest, Conns
  <2> QED
    BY <1>10, <2>1, StepAgrees, OnErrorCases, Different DEF ListenerSeesLoss, IInv, TaskInv
<1>11. ASSUME NEW c \in Conns, ListenerEnds(c) PROVE OrphanInv'
  BY <1>11, StepAgrees, Different DEF ListenerEnds
<1>12. ASSUME NEW c \in Conns, HeartbeatStops(c) PROVE OrphanInv'
  BY <1>12, StepAgrees, Different DEF HeartbeatStops
<1>13. ASSUME NEW c \in Conns, Lose(c) \/ CloseNormally(c) PROVE OrphanInv'
  <2>1. /\ UNCHANGED <<ws, pc, raced>> /\ conn[c] \in {"open", "closing"}
        /\ \A d \in Conns : d # c => conn'[d] = conn[d]
        /\ conn'[c] \in {"lost", "closed"}
    BY <1>13 DEF Lose, CloseNormally, IInv, TaskInv, TypeOK
  <2>2. CallersInPlace'
    BY <2>1 DEF IInv, CallersInPlace
  <2>3. CallersAgree'
    BY <2>1 DEF IInv, CallersInPlace, CallersAgree, NoOrphans, Woken
  <2>4. NoOrphans'
    BY <2>1 DEF IInv, NoOrphans
  <2> QED
    BY <2>2, <2>3, <2>4 DEF OrphanInv
<1>14. ASSUME NEW c \in Conns, ListenerFails(c) PROVE OrphanInv'
  BY <1>14, StepAgrees, Different DEF ListenerFails
<1>15. CASE UNCHANGED vars
  BY <1>15 DEF vars, OrphanInv, IInv, CallersInPlace, CallersAgree, NoOrphans, Woken
<1> QED
  BY <1>1, <1>2, <1>3, <1>4, <1>5, <1>6, <1>7, <1>8, <1>9, <1>10, <1>11, <1>12,
     <1>13, <1>14, <1>15 DEF Next, Step

(* Without a race of a caller, every open connection is the client's.      *)
THEOREM NoConnectionIsOrphaned == Spec => []NoOrphans
<1>1. Init => IInv
  <2> SUFFICES ASSUME Init PROVE IInv
    OBVIOUS
  <2>1. \A p \in Callers : pc[p].at = "idle"
    BY Different, PlaceFields DEF Init
  <2>2. NoOrphans
    BY DEF Init, NoOrphans
  <2> QED
    BY <2>1, <2>2, InitTasks DEF IInv, CallersInPlace, CallersAgree, Woken
<1>2. IInv /\ [Next]_vars => IInv'
  BY TasksInductive, OrphansInductive DEF IInv, OrphanInv
<1>3. IInv => NoOrphans
  BY DEF IInv
<1> QED
  BY <1>1, <1>2, <1>3, PTL DEF Spec
=============================================================================
