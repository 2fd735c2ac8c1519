------------------------------ MODULE Channel ------------------------------
(***************************************************************************)
(* AsyncRealtimeChannel (realtime/_async/channel.py) with its pushes       *)
(* (push.py), its rejoin timer (timer.py, in the abstraction OneShotTimer  *)
(* that AsyncTimer implements) and what it sees of the client: whether the *)
(* socket is connected, the send buffer, and the reconnections that rejoin *)
(* the registered channels (client.py).                                    *)
(*                                                                         *)
(* asyncio runs a coroutine without interruption up to a suspension, so    *)
(* one action is all a coroutine does between two suspensions.  A send     *)
(* suspends only when the transport is full or the connection is closing,  *)
(* and what it sends is already written then, or lost with the connection: *)
(* "backpressure" in Env makes the sends inside a coroutine possible       *)
(* suspensions.  Time is abstracted: a running timeout may fire at any     *)
(* moment ("timeouts" in Env), and so may the rejoin timer.                *)
(*                                                                         *)
(* The server is external: it handles what it receives in order, may       *)
(* refuse a join or answer one with other bindings than asked for          *)
(* ("refusals"), may leave requests unanswered ("silence"), and may send   *)
(* phx_error, system errors and phx_close at any time.                     *)
(***************************************************************************)
EXTENDS AsyncPush, Sequences

CONSTANTS
  Pushes,           \* the application's calls of push()
  MaxRef,           \* bound: references ever made
  MaxUnsubscribes,  \* bound: the application's calls of unsubscribe()
  MaxFaults,        \* bound: connections lost
  MaxServerEvents,  \* bound: errors and closes the server sends by itself
  MaxCloses,        \* bound: the application's calls of client.close()
  Env               \* what the environment does

ASSUME BoundsAssumption ==
  /\ MaxRef \in Nat
  /\ MaxUnsubscribes \in Nat
  /\ MaxFaults \in Nat
  /\ MaxServerEvents \in Nat
  /\ MaxCloses \in Nat

ASSUME PushesAssumption ==
  Pushes \cap {"none", "join", "leave", "unsubscribe"} = {}

ASSUME EnvAssumption ==
  Env \subseteq {"backpressure", "timeouts", "silence", "refusals", "rawjoin"}

VARIABLES
  state,        \* self.state
  joinedOnce,   \* self._joined_once
  hooks,        \* the outcomes of join_push that subscribe()'s callback hears
  joinPush,     \* self.join_push
  push,         \* the pushes of the application
  traffic,      \* history: how often each was sent and answered
  acks,         \* self.messages_waiting_for_ack; every leave push is "leave"
  pushBuffer,   \* self._push_buffer
  ready,        \* tasks create_task() made and the loop has not run yet
  rejoinArmed,  \* self.rejoin_timer has a pending task
  left,         \* _rejoin() calls suspended after their leave was sent
  notice,       \* history: the status the subscriber was told last
  unsubs        \* history: unsubscribe() calls of the application

VARIABLES
  ref,          \* client.ref
  registered,   \* client.channels[self.topic] is this channel
  socket,       \* "new", "open" (client.is_connected) or "down"
  listening,    \* the task of client._listen() is alive
  sendBuffer,   \* client.send_buffer
  due           \* reconnections whose loop has not reached this channel yet

VARIABLES
  out,          \* frames on their way to the server
  inn,          \* frames on their way to the client
  srvJoined,    \* the server has a subscription for the topic
  excuse,       \* history: why a joined channel may have no subscription
  faults,       \* connections lost so far
  events,       \* errors and closes the server sent by itself so far
  closes        \* the application's calls of close() so far

chanVars == <<state, joinedOnce, hooks, joinPush, push, traffic, acks,
              pushBuffer, ready, rejoinArmed, left, notice, unsubs>>
clientVars == <<ref, registered, socket, listening, sendBuffer, due>>
netVars == <<out, inn, srvJoined, excuse, faults, events, closes>>
vars == <<chanVars, clientVars, netVars>>

-----------------------------------------------------------------------------
Refs == 1..MaxRef

ChannelStates == {"joined", "closed", "errored", "joining", "leaving"}

Statuses == {"SUBSCRIBED", "TIMED_OUT", "CHANNEL_ERROR", "CLOSED"}

Traffics == [Pushes -> [sent : Nat, answered : Nat]]

(* What the client sends, and what it receives for this topic.  "mismatch" *)
(* is an ok reply to a join whose postgres bindings differ from ours.      *)
Frames == [event : {"join", "leave", "push"}, ref : Refs]

Incoming == [event : {"ok", "mismatch", "failed"}, ref : Refs]
              \cup [event : {"error", "close"}, ref : {0}]

TypeOK ==
  /\ state \in ChannelStates
  /\ joinedOnce \in BOOLEAN
  /\ hooks \subseteq {"ok", "error", "timeout"}
  /\ joinPush \in PushRecords(0..MaxRef)
  /\ push \in [Pushes -> PushRecords(0..MaxRef)]
  /\ traffic \in Traffics
  /\ acks \in [Refs -> Pushes \cup {"none", "join", "leave"}]
  /\ pushBuffer \in Seq(Pushes)
  /\ ready \in Seq(Pushes \cup {"unsubscribe"})
  /\ rejoinArmed \in BOOLEAN
  /\ left \in Nat
  /\ notice \in Statuses \cup {"none"}
  /\ unsubs \in 0..MaxUnsubscribes
  /\ ref \in 0..MaxRef
  /\ registered \in BOOLEAN
  /\ socket \in {"new", "open", "down"}
  /\ listening \in BOOLEAN
  /\ sendBuffer \in Seq(Frames)
  /\ due \in Nat
  /\ out \in Seq(Frames)
  /\ inn \in Seq(Incoming)
  /\ srvJoined \in BOOLEAN
  /\ excuse \in {"none", "refused", "closed"}
  /\ faults \in 0..MaxFaults
  /\ events \in 0..MaxServerEvents
  /\ closes \in 0..MaxCloses

Init ==
  /\ state = "closed"
  /\ joinedOnce = FALSE
  /\ hooks = {}
  /\ joinPush = NewPush
  /\ push = [p \in Pushes |-> NewPush]
  /\ traffic = [p \in Pushes |-> [sent |-> 0, answered |-> 0]]
  /\ acks = [r \in Refs |-> "none"]
  /\ pushBuffer = <<>>
  /\ ready = <<>>
  /\ rejoinArmed = FALSE
  /\ left = 0
  /\ notice = "none"
  /\ unsubs = 0
  /\ ref = 0
  /\ registered = TRUE
  /\ socket = "new"
  /\ listening = FALSE
  /\ sendBuffer = <<>>
  /\ due = 0
  /\ out = <<>>
  /\ inn = <<>>
  /\ srvJoined = FALSE
  /\ excuse = "none"
  /\ faults = 0
  /\ events = 0
  /\ closes = 0

-----------------------------------------------------------------------------
(* Sending *)

Connected == socket = "open"

JoinFrame(r) == [event |-> "join", ref |-> r]
LeaveFrame(r) == [event |-> "leave", ref |-> r]
PushFrame(r) == [event |-> "push", ref |-> r]

(* client.send() for each frame of fs: on the wire, or in the send buffer. *)
Transmit(fs) ==
  IF Connected
    THEN out' = out \o fs /\ UNCHANGED sendBuffer
    ELSE sendBuffer' = sendBuffer \o fs /\ UNCHANGED out

(* The next n references are made.                                         *)
MakeRefs(n) == ref + n <= MaxRef /\ ref' = ref + n

SentOnceMore(p) == [traffic EXCEPT ![p].sent = @ + 1]
AnsweredOnceMore(p) == [traffic EXCEPT ![p].answered = @ + 1]

(* AsyncPush.send() for a push of the application.                         *)
SendPush(p) ==
  /\ MakeRefs(1)
  /\ push' = [push EXCEPT ![p] = Sent(@, ref + 1)]
  /\ traffic' = SentOnceMore(p)
  /\ acks' = [acks EXCEPT ![ref + 1] = p]
  /\ Transmit(<<PushFrame(ref + 1)>>)

-----------------------------------------------------------------------------
(* Leaving and joining *)

(* A leave that keeps the rejoin timer armed.                              *)
LeaveWithoutReset ==
  /\ MakeRefs(1)
  /\ state' = "leaving"
  /\ joinPush' = Destroyed(joinPush)
  /\ acks' = [acks EXCEPT ![ref + 1] = "leave"]
  /\ Transmit(<<LeaveFrame(ref + 1)>>)
  /\ UNCHANGED rejoinArmed

(* unsubscribe(): the timers are stopped and a leave push is sent.  Its    *)
(* timeout task is acks[r] = "leave" itself: nothing destroys it.          *)
Leave ==
  /\ MakeRefs(1)
  /\ state' = "leaving"
  /\ rejoinArmed' = FALSE
  /\ joinPush' = Destroyed(joinPush)
  /\ acks' = [acks EXCEPT ![ref + 1] = "leave"]
  /\ Transmit(<<LeaveFrame(ref + 1)>>)

(* The rest of _rejoin() after _leave_open_topic().                        *)
JoinAgain ==
  /\ MakeRefs(1)
  /\ state' = "joining"
  /\ joinPush' = Resent(joinPush, ref + 1)
  /\ acks' = [acks EXCEPT ![ref + 1] = "join"]
  /\ Transmit(<<JoinFrame(ref + 1)>>)

(* client._leave_open_topic(): the registered channel of this topic, if it *)
(* is joined or joining, is left.  That is this channel itself.            *)
OpenTopic == registered /\ state \in {"joined", "joining"}

(* Leave and JoinAgain without a suspension between them.                  *)
LeaveAndJoinAgain ==
  /\ MakeRefs(2)
  /\ state' = "joining"
  /\ rejoinArmed' = FALSE
  /\ joinPush' = Resent(Destroyed(joinPush), ref + 2)
  /\ acks' = [acks EXCEPT ![ref + 1] = "leave", ![ref + 2] = "join"]
  /\ Transmit(<<LeaveFrame(ref + 1), JoinFrame(ref + 2)>>)

(* A _rejoin() that also returns early when the channel is joined.         *)
RejoinUnlessJoined ==
  \/ /\ state \in {"leaving", "joined"}
     /\ UNCHANGED <<ref, state, rejoinArmed, joinPush, acks, out, sendBuffer,
                    left>>
  \/ /\ state \notin {"leaving", "joined"}
     /\ ~OpenTopic
     /\ JoinAgain
     /\ UNCHANGED <<rejoinArmed, left>>
  \/ /\ state # "joined"
     /\ OpenTopic
     /\ LeaveAndJoinAgain
     /\ UNCHANGED left

(* _rejoin(), to its end or, if its leave suspends, up to there.           *)
Rejoin ==
  \/ /\ state = "leaving"
     /\ UNCHANGED <<ref, state, rejoinArmed, joinPush, acks, out, sendBuffer,
                    left>>
  \/ /\ state # "leaving"
     /\ ~OpenTopic
     /\ JoinAgain
     /\ UNCHANGED <<rejoinArmed, left>>
  \/ /\ OpenTopic
     /\ LeaveAndJoinAgain
     /\ UNCHANGED left
  \/ /\ OpenTopic
     /\ "backpressure" \in Env
     /\ Leave
     /\ left' = left + 1

-----------------------------------------------------------------------------
(* Calls of the application *)

(* subscribe() past its connect().  receive() calls a callback at once,    *)
(* and does not keep it, when the outcome it asks for is already there (an *)
(* ok that came before answered a join that asked for no bindings, so that *)
(* it cannot be a mismatch).                                               *)
Subscribe ==
  /\ Connected
  /\ ~joinedOnce
  /\ joinedOnce' = TRUE
  /\ hooks' = {"ok", "error", "timeout"} \ {joinPush.resp}
  /\ notice' = CASE joinPush.resp = "ok" -> "SUBSCRIBED"
                 [] joinPush.resp = "error" -> "CHANNEL_ERROR"
                 [] joinPush.resp = "timeout" -> "TIMED_OUT"
                 [] OTHER -> notice
  /\ Rejoin
  /\ UNCHANGED <<push, traffic, pushBuffer, ready, unsubs, registered, socket,
                 listening, due, inn, srvJoined, excuse, faults, events,
                 closes>>

Unsubscribe ==
  /\ unsubs < MaxUnsubscribes
  /\ unsubs' = unsubs + 1
  /\ Leave
  /\ UNCHANGED <<joinedOnce, hooks, push, traffic, pushBuffer, ready, left,
                 notice, registered, socket, listening, due, inn, srvJoined,
                 excuse, faults, events, closes>>

(* push(), also by way of send_broadcast(), send_presence(), track() and   *)
(* untrack().  _can_push() does not ask whether the channel is joined.     *)
Push(p) ==
  /\ joinedOnce
  /\ push[p] = NewPush
  /\ \/ /\ Connected
        /\ SendPush(p)
        /\ UNCHANGED pushBuffer
     \/ /\ ~Connected
        /\ push' = [push EXCEPT ![p] = TimeoutStarted(@)]
        /\ pushBuffer' = Append(pushBuffer, p)
        /\ UNCHANGED <<traffic, ref, acks, out, sendBuffer>>
  /\ UNCHANGED <<state, joinedOnce, hooks, joinPush, ready, rejoinArmed, left,
                 notice, unsubs, registered, socket, listening, due, inn,
                 srvJoined, excuse, faults, events, closes>>

(* join(): a join whose reference no push waits for.                       *)
RawJoin ==
  /\ "rawjoin" \in Env
  /\ MakeRefs(1)
  /\ Transmit(<<JoinFrame(ref + 1)>>)
  /\ UNCHANGED <<chanVars, registered, socket, listening, due, inn, srvJoined,
                 excuse, faults, events, closes>>

-----------------------------------------------------------------------------
(* Steps of the event loop: created tasks, timers, suspended coroutines *)

(* A task made by create_task() runs: unsubscribe(), or push.send().       *)
RunReady ==
  /\ ready # <<>>
  /\ ready' = Tail(ready)
  /\ \/ /\ Head(ready) = "unsubscribe"
        /\ Leave
        /\ UNCHANGED <<push, traffic>>
     \/ /\ Head(ready) \in Pushes
        /\ MayBeSent(push[Head(ready)])
        /\ SendPush(Head(ready))
        /\ UNCHANGED <<state, rejoinArmed, joinPush>>
     \/ /\ Head(ready) \in Pushes
        /\ ~MayBeSent(push[Head(ready)])
        /\ UNCHANGED <<state, rejoinArmed, joinPush, push, traffic, acks, ref,
                       out, sendBuffer>>
  /\ UNCHANGED <<joinedOnce, hooks, pushBuffer, left, notice, unsubs,
                 registered, socket, listening, due, inn, srvJoined, excuse,
                 faults, events, closes>>

(* _rejoin_until_connected(): the next try is scheduled, which cancels the *)
(* task that runs this callback, so that a suspension ends it.             *)
RejoinTimerFires ==
  /\ rejoinArmed
  /\ Connected
  /\ Rejoin
  /\ UNCHANGED <<joinedOnce, hooks, push, traffic, pushBuffer, ready, notice,
                 unsubs, registered, socket, listening, due, inn, srvJoined,
                 excuse, faults, events, closes>>

(* A timeout or an answer that leaves its entry in the table.              *)
StillWatched(r) == acks

(* The entry of reference r, if there is one, is removed.                  *)
Unwatched(r) == [x \in Refs |-> IF x = r THEN "none" ELSE acks[x]]

(* timeout() of a push of the application, in the buffer or sent.          *)
PushTimeout(p) ==
  /\ "timeouts" \in Env
  /\ push[p].timer = "running"
  /\ push' = [push EXCEPT ![p] = TimedOut(@)]
  /\ acks' = Unwatched(push[p].ref)
  /\ UNCHANGED <<traffic, state, joinedOnce, hooks, joinPush, pushBuffer,
                 ready, rejoinArmed, left, notice, unsubs, clientVars,
                 netVars>>

(* timeout() of a leave push: nothing listens to it but the table.         *)
LeaveTimeout(r) ==
  /\ "timeouts" \in Env
  /\ acks[r] = "leave"
  /\ acks' = Unwatched(r)
  /\ UNCHANGED <<state, joinedOnce, hooks, joinPush, push, traffic, pushBuffer,
                 ready, rejoinArmed, left, notice, unsubs, clientVars,
                 netVars>>

(* timeout() of the join push: the constructor's callback and subscribe()'s *)
(* are called, in this order.                                              *)
JoinTimeout ==
  /\ "timeouts" \in Env
  /\ joinPush.timer = "running"
  /\ joinPush' = TimedOut(joinPush)
  /\ acks' = Unwatched(joinPush.ref)
  /\ IF state = "joining"
       THEN state' = "errored" /\ rejoinArmed' = TRUE
       ELSE UNCHANGED <<state, rejoinArmed>>
  /\ notice' = IF "timeout" \in hooks THEN "TIMED_OUT" ELSE notice
  /\ UNCHANGED <<joinedOnce, hooks, push, traffic, pushBuffer, ready, left,
                 unsubs, clientVars, netVars>>

(* A _rejoin() that was suspended in its leave goes on.                    *)
ResumeRejoin ==
  /\ left > 0
  /\ left' = left - 1
  /\ JoinAgain
  /\ UNCHANGED <<joinedOnce, hooks, push, traffic, pushBuffer, ready,
                 rejoinArmed, notice, unsubs, registered, socket, listening,
                 due, inn, srvJoined, excuse, faults, events, closes>>

(* A _rejoin() that was suspended in its leave was cancelled: it ran in    *)
(* the task of the rejoin timer, or in a task its own reconnection ended.  *)
AbandonRejoin ==
  /\ left > 0
  /\ left' = left - 1
  /\ UNCHANGED <<state, joinedOnce, hooks, joinPush, push, traffic, acks,
                 pushBuffer, ready, rejoinArmed, notice, unsubs, clientVars,
                 netVars>>

-----------------------------------------------------------------------------
(* The client's connection *)

(* connect() and _on_connect(): a new task listens and the send buffer is  *)
(* flushed.                                                                *)
Opened ==
  /\ socket' = "open"
  /\ listening' = TRUE
  /\ out' = sendBuffer
  /\ inn' = <<>>
  /\ sendBuffer' = <<>>

Connect ==
  /\ socket = "new"
  /\ Opened
  /\ UNCHANGED <<chanVars, ref, registered, due, srvJoined, excuse, faults,
                 events, closes>>

(* The connection is lost and a task of the client starts to reconnect.    *)
Disconnect ==
  /\ Connected
  /\ faults < MaxFaults
  /\ faults' = faults + 1
  /\ socket' = "down"
  /\ listening' = FALSE
  /\ out' = <<>>
  /\ inn' = <<>>
  /\ srvJoined' = FALSE
  /\ excuse' = "none"
  /\ UNCHANGED <<chanVars, ref, registered, sendBuffer, due, events, closes>>

(* client.close(), as of the end of the closing handshake: what is on its  *)
(* way is lost, the tasks of the client are cancelled, one that reconnects *)
(* among them.  The channels are not told.                                 *)
CloseClient ==
  /\ socket # "new"
  /\ closes < MaxCloses
  /\ closes' = closes + 1
  /\ socket' = "new"
  /\ listening' = FALSE
  /\ out' = <<>>
  /\ inn' = <<>>
  /\ srvJoined' = FALSE
  /\ excuse' = "closed"
  /\ UNCHANGED <<chanVars, ref, registered, sendBuffer, due, faults, events>>

(* A flush that ends at its first suspension: the messages up to there are *)
(* written and stay in the buffer.                                         *)
OpenedAndCut ==
  /\ "backpressure" \in Env
  /\ socket' = "open"
  /\ listening' = TRUE
  /\ \E n \in 1..Len(sendBuffer) : out' = SubSeq(sendBuffer, 1, n)
  /\ inn' = <<>>
  /\ UNCHANGED sendBuffer

(* _reconnect() up to its loop over the registered channels, or up to the  *)
(* suspension at which the task that reconnects ends, because it cancelled *)
(* itself in _on_connect().                                                *)
Reconnect ==
  /\ socket = "down"
  /\ \/ Opened /\ due' = due + 1
     \/ OpenedAndCut /\ UNCHANGED due
  /\ UNCHANGED <<chanVars, ref, registered, srvJoined, excuse, faults,
                 events, closes>>

(* _reconnect() reaches this channel.                                      *)
RejoinDue ==
  /\ due > 0
  /\ due' = due - 1
  /\ \/ registered /\ Rejoin
     \/ /\ ~registered
        /\ UNCHANGED <<ref, state, rejoinArmed, joinPush, acks, out,
                       sendBuffer, left>>
  /\ UNCHANGED <<joinedOnce, hooks, push, traffic, pushBuffer, ready, notice,
                 unsubs, registered, socket, listening, inn, srvJoined, excuse,
                 faults, events, closes>>

(* The task that reconnects cancelled itself in _on_connect(), and ends at *)
(* a suspension before it reaches this channel.                            *)
AbandonDue ==
  /\ "backpressure" \in Env
  /\ due > 0
  /\ due' = due - 1
  /\ UNCHANGED <<chanVars, ref, registered, socket, listening, sendBuffer,
                 netVars>>

-----------------------------------------------------------------------------
(* _handle_message() and what it calls *)

(* An on_close() that leaves the rejoin timer armed.                       *)
OnCloseWithoutReset ==
  /\ state' = "closed"
  /\ registered' = FALSE
  /\ UNCHANGED rejoinArmed

(* on_close()                                                              *)
OnClose ==
  /\ rejoinArmed' = FALSE
  /\ state' = "closed"
  /\ registered' = FALSE

(* An on_error() that marks the channel and forgets to retry.              *)
OnErrorWithoutRetry ==
  IF state \in {"leaving", "closed"}
    THEN UNCHANGED <<state, rejoinArmed>>
    ELSE state' = "errored" /\ UNCHANGED rejoinArmed

(* on_error()                                                              *)
OnError ==
  IF state \in {"leaving", "closed"}
    THEN UNCHANGED <<state, rejoinArmed>>
    ELSE state' = "errored" /\ rejoinArmed' = TRUE

(* A join answered with ok whose callback does not empty the buffer.       *)
OnJoinPushOkKeepingBuffer(mismatch) ==
  /\ state' = "joined"
  /\ rejoinArmed' = FALSE
  /\ ready' = ready \o pushBuffer
  /\ UNCHANGED <<pushBuffer, notice>>

(* The callbacks of the join push for an answer: the constructor's first,  *)
(* then subscribe()'s, which leaves if the bindings differ.                *)
OnJoinPushOk(mismatch) ==
  /\ state' = "joined"
  /\ rejoinArmed' = FALSE
  /\ pushBuffer' = <<>>
  /\ ready' = ready \o pushBuffer \o
                (IF mismatch /\ "ok" \in hooks THEN <<"unsubscribe">> ELSE <<>>)
  /\ notice' = IF "ok" \notin hooks THEN notice
               ELSE IF mismatch THEN "CHANNEL_ERROR" ELSE "SUBSCRIBED"

OnJoinPushError ==
  /\ notice' = IF "error" \in hooks THEN "CHANNEL_ERROR" ELSE notice
  /\ UNCHANGED <<state, rejoinArmed, pushBuffer, ready>>

(* A status taken over as the server spells it.                            *)
SpelledStatusOf(m) == m.event

StatusOf(m) == IF m.event = "failed" THEN "error" ELSE "ok"

(* A reply nothing waits for: pop() raises KeyError, which ends _listen(). *)
UnexpectedReply(m) ==
  /\ acks[m.ref] = "none"
  /\ listening' = FALSE
  /\ UNCHANGED <<state, joinPush, push, traffic, acks, pushBuffer, ready,
                 rejoinArmed, notice, registered>>

JoinReply(m) ==
  /\ acks[m.ref] = "join"
  /\ acks' = Unwatched(m.ref)
  /\ joinPush' = Answered(joinPush, StatusOf(m))
  /\ IF m.event = "failed" THEN OnJoinPushError
                           ELSE OnJoinPushOk(m.event = "mismatch")
  /\ UNCHANGED <<push, traffic, listening, registered>>

(* A leave answered that closes only a channel that is still leaving.      *)
LeaveReplyIfLeaving(m) ==
  /\ acks[m.ref] = "leave"
  /\ acks' = Unwatched(m.ref)
  /\ IF state = "leaving" THEN OnClose
                          ELSE UNCHANGED <<state, rejoinArmed, registered>>
  /\ UNCHANGED <<joinPush, push, traffic, pushBuffer, ready, notice,
                 listening>>

(* Both outcomes close the channel.                                        *)
LeaveReply(m) ==
  /\ acks[m.ref] = "leave"
  /\ acks' = Unwatched(m.ref)
  /\ OnClose
  /\ UNCHANGED <<joinPush, push, traffic, pushBuffer, ready, notice,
                 listening>>

PushReply(m) ==
  /\ acks[m.ref] \in Pushes
  /\ acks' = Unwatched(m.ref)
  /\ push' = [push EXCEPT ![acks[m.ref]] = Answered(@, StatusOf(m))]
  /\ traffic' = AnsweredOnceMore(acks[m.ref])
  /\ UNCHANGED <<state, joinPush, pushBuffer, ready, rejoinArmed, notice,
                 registered, listening>>

(* phx_error, and a system message that is not a success.                  *)
ErrorEvent(m) ==
  /\ m.event = "error"
  /\ OnError
  /\ UNCHANGED <<joinPush, push, traffic, acks, pushBuffer, ready, notice,
                 registered, listening>>

CloseEvent(m) ==
  /\ m.event = "close"
  /\ OnClose
  /\ UNCHANGED <<joinPush, push, traffic, acks, pushBuffer, ready, notice,
                 listening>>

Reply(m) ==
  /\ m.event \in {"ok", "mismatch", "failed"}
  /\ \/ UnexpectedReply(m)
     \/ JoinReply(m)
     \/ LeaveReply(m)
     \/ PushReply(m)

(* _listen() takes the next message, for this channel if it is registered. *)
Receive ==
  /\ Connected
  /\ listening
  /\ inn # <<>>
  /\ inn' = Tail(inn)
  /\ \/ /\ registered
        /\ Reply(Head(inn)) \/ ErrorEvent(Head(inn)) \/ CloseEvent(Head(inn))
     \/ /\ ~registered
        /\ UNCHANGED <<state, joinPush, push, traffic, acks, pushBuffer, ready,
                       rejoinArmed, notice, registered, listening>>
  /\ UNCHANGED <<joinedOnce, hooks, left, unsubs, ref, socket, sendBuffer, due,
                 out, srvJoined, excuse, faults, events, closes>>

-----------------------------------------------------------------------------
(* The server (external) *)

Answers(f) ==
  {"ok"} \cup
  (IF "refusals" \notin Env \/ f.event = "leave" THEN {}
   ELSE IF f.event = "join" THEN {"mismatch", "failed"} ELSE {"failed"})

ServerHandle ==
  /\ out # <<>>
  /\ out' = Tail(out)
  /\ LET f == Head(out) IN
       \/ \E a \in Answers(f) :
            /\ inn' = Append(inn, [event |-> a, ref |-> f.ref])
            /\ srvJoined' = CASE f.event = "join" -> a # "failed"
                              [] f.event = "leave" -> FALSE
                              [] OTHER -> srvJoined
            /\ excuse' = IF f.event # "join" THEN excuse
                         ELSE IF a = "failed" THEN "refused" ELSE "none"
       \/ /\ "silence" \in Env
          /\ srvJoined' = (f.event = "join" \/ (f.event = "push" /\ srvJoined))
          /\ UNCHANGED <<inn, excuse>>
  /\ UNCHANGED <<chanVars, clientVars, faults, events, closes>>

(* phx_close, or an error unasked for: phx_error when the subscription     *)
(* ends, a failed system message when it may go on.                        *)
ServerEvent ==
  /\ Connected
  /\ srvJoined
  /\ events < MaxServerEvents
  /\ events' = events + 1
  /\ \E e \in {"error", "close"} :
       /\ inn' = Append(inn, [event |-> e, ref |-> 0])
       /\ srvJoined' \in IF e = "close" THEN {FALSE} ELSE BOOLEAN
  /\ UNCHANGED <<chanVars, clientVars, out, excuse, faults, closes>>

-----------------------------------------------------------------------------
(* A reconnection that no send suspends reaches the channel at once: until *)
(* then nothing else runs.                                                 *)
Reconnecting == due > 0 /\ "backpressure" \notin Env

Next ==
  \/ RejoinDue
  \/ AbandonDue
  \/ /\ ~Reconnecting
     /\ \/ Subscribe
        \/ Unsubscribe
        \/ \E p \in Pushes : Push(p) \/ PushTimeout(p)
        \/ RawJoin
        \/ RunReady
        \/ RejoinTimerFires
        \/ \E r \in Refs : LeaveTimeout(r)
        \/ JoinTimeout
        \/ ResumeRejoin
        \/ AbandonRejoin
        \/ Connect
        \/ Disconnect
        \/ CloseClient
        \/ Reconnect
        \/ Receive
        \/ ServerHandle
        \/ ServerEvent

Spec == Init /\ [][Next]_vars

-----------------------------------------------------------------------------
(* Safety *)

(* A channel in error always has a next try coming: no order of errors,    *)
(* timeouts, late answers, leaves and reconnections loses it (on_error,    *)
(* on_join_push_timeout and every reset of the rejoin timer).              *)
ErroredIsRetried == state = "errored" => rejoinArmed

(* The rejoin timer runs only for a channel that errored or that tries to  *)
(* join again: a channel that is left, closed or joined is not rejoined by *)
(* a timer somebody forgot (unsubscribe, on_close, on_join_push_ok).       *)
RetryOnlyWhileRecovering == rejoinArmed => state \in {"errored", "joining"}

(* While it leaves, a channel has no timer that could still act on it:     *)
(* "Sets channel state to LEAVING and cleans up timers" (unsubscribe).     *)
LeavingIsQuiet == state = "leaving" => ~rejoinArmed /\ joinPush.timer = "none"

(* A registered channel that waits for the answer to its join cannot wait  *)
(* forever: the join's timeout runs or a next try is scheduled, although   *)
(* start_timeout() does nothing when an older timeout task has ended.      *)
(* Sends that suspend inside a _rejoin() would break this.                 *)
JoiningHasAWayOut ==
  ("backpressure" \notin Env /\ registered /\ state = "joining")
    => (rejoinArmed \/ joinPush.timer = "running")

(* A push of the application that waits in the table for its answer was    *)
(* sent with that reference, has no answer yet, and its timeout, which     *)
(* removes the entry, still runs: entries of pushes do not leak.           *)
AcksAreWatched ==
  \A r \in Refs :
    acks[r] \in Pushes =>
      /\ push[acks[r]].ref = r
      /\ push[acks[r]].resp = "none"
      /\ push[acks[r]].timer = "running"

(* Two entries of a sequence are never the same push.                      *)
NoRepeat(s) ==
  \A i, j \in 1..Len(s) : (s[i] \in Pushes /\ s[i] = s[j]) => i = j

(* A push that can still be sent: not on the wire, and its timeout runs    *)
(* unless it has fired.                                                    *)
Unsent(p) ==
  /\ p.ref = 0
  /\ \/ p.resp = "none" /\ p.timer = "running"
     \/ p.resp = "timeout" /\ p.timer = "done"

(* A push that could not be sent waits at one place only, in the buffer or *)
(* in one task that will send it, and was not sent before: a join answered *)
(* twice, or again after a reconnection, does not send it twice.           *)
PushesWaitOnce ==
  /\ NoRepeat(pushBuffer)
  /\ NoRepeat(ready)
  /\ \A i \in 1..Len(pushBuffer) : Unsent(push[pushBuffer[i]])
  /\ \A j \in 1..Len(ready) : ready[j] \in Pushes => Unsent(push[ready[j]])
  /\ \A i \in 1..Len(pushBuffer), j \in 1..Len(ready) :
       pushBuffer[i] # ready[j]

(* What became of a push of the application, given its record.             *)
Stage(p) ==
  CASE p.resp = "timeout" -> "expired"
    [] p.resp \in {"ok", "error"} -> "answered"
    [] p.resp = "none" /\ p.ref # 0 -> "sent"
    [] p.resp = "none" /\ p.ref = 0 /\ p.timer # "none" -> "buffered"
    [] OTHER -> "new"

Lifecycle ==
  INSTANCE PushLifecycle WITH status <- [p \in Pushes |-> Stage(push[p])]

(* Whatever happens to the channel and its connection, each push lives as  *)
(* PushLifecycle says: every send() that reaches the client is the push's  *)
(* first and none comes after its timeout, and so it is with answers.  The *)
(* sends and answers are counted where they happen, so that a second one   *)
(* is no stuttering step (push, send, timeout, _handle_message).           *)
ImplementsPushLifecycle == Lifecycle!Spec

-----------------------------------------------------------------------------
(* The channel and a server that answers everything *)

Quiet ==
  /\ Connected /\ listening
  /\ out = <<>> /\ inn = <<>> /\ ready = <<>>
  /\ due = 0 /\ left = 0

(* Once everything in flight has arrived, a channel that believes to be    *)
(* joined is: leaves, joins, errors and reconnections that overtake each   *)
(* other do not leave it with a subscription the server has dropped.       *)
(* Except in two ways the code has: if the channel joined again before an  *)
(* older join was answered with ok, the refusal of the newer one finds it  *)
(* joined, and leaves it so (subscribe(), on_join_push_error); and close() *)
(* ends the subscription, tells no channel, and connect() rejoins none, so *)
(* that a joined channel stays joined without one until a connection is    *)
(* lost or something else makes it join (client.py 123-166, 213-235).      *)
JoinedMatchesServer ==
  ({"silence", "backpressure"} \cap Env = {} /\ Quiet /\ state = "joined")
    => srvJoined \/ excuse # "none"

(* asyncio runs what is ready, the server answers, and a lost connection   *)
(* is replaced before the retries of connect() are used up.                *)
Fairness ==
  /\ WF_vars(RunReady)
  /\ WF_vars(RejoinTimerFires)
  /\ WF_vars(ResumeRejoin)
  /\ WF_vars(Reconnect)
  /\ WF_vars(RejoinDue)
  /\ WF_vars(Receive)
  /\ WF_vars(ServerHandle)

FairSpec == Spec /\ Fairness

(* A registered channel that tries to join, for the first time or again,   *)
(* ends joined or closed and removed, unless the application leaves it or  *)
(* closes the client (_rejoin, _rejoin_until_connected, _reconnect).       *)
RecoveringSettles ==
  (registered /\ state \in {"joining", "errored"})
    ~> (state \in {"joined", "leaving"} \/ ~registered \/ closes > 0)

(* A channel that is left while connected is closed and removed in the     *)
(* end, also when a join is answered while it leaves (unsubscribe,         *)
(* on_join_push_ok, on_close), if the connection is not lost and the       *)
(* client not closed meanwhile.                                            *)
LeavingCloses ==
  (state = "leaving" /\ Connected /\ faults = 0)
    ~> (~registered \/ faults > 0 \/ closes > 0)

-----------------------------------------------------------------------------
(* What the documentation says and the code does not do.  Each of these is *)
(* refuted by a run.                                                       *)

(* README.md:64-65: TIMED_OUT is "Realtime server did not respond in       *)
(* time."  No answer stops the join's timeout (push.py:104-114), which     *)
(* tells the subscriber TIMED_OUT after it told SUBSCRIBED.                *)
TimedOutMeansNoAnswer ==
  [][notice' = "TIMED_OUT" /\ notice # "TIMED_OUT"
       => joinPush.resp \notin {"ok", "error"}]_vars

(* client.py:92: _listen() is "An infinite loop that keeps listening."  A  *)
(* reply that comes after its push timed out raises KeyError in            *)
(* _handle_message (channel.py:498), and the task ends.                    *)
KeepsListening == Connected => listening

(* client.py:120 and CHANGELOG.md:588: a channel is rejoined after a       *)
(* reconnection.  _rejoin() leaves the topic this channel itself still     *)
(* holds, the answer to that leave closes it, and its own join is ignored. *)
KeptUnlessLeft == (unsubs = 0 /\ events = 0) => registered
=============================================================================
