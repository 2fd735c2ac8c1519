# Verification of realtime-py

TLA+ models of the asynchronous Realtime client (`realtime/_async`), TLC runs
that check them on small instances, and TLAPS proofs that hold for every value
of their constants. `PROJECT.json` lists the components, the runs, the lines
every definition stands for, the hazards and the theorems.

## The system

The client keeps one websocket to a Phoenix server and multiplexes channels
over it. Everything runs in one asyncio loop: a coroutine is interrupted only
where it suspends, and the difficult behaviour comes from what other tasks do
meanwhile.

| component | state | operations | interacts with |
|---|---|---|---|
| `AsyncTimer` (`timer.py`) | `timer`, `tries`, its tasks in the loop | `reset`, `schedule_timeout`, `_run_timer` | calls back into its channel, which reschedules or resets it from there |
| `AsyncPush` (`push.py`) | `ref`, `received_resp`, `timeout_task`, hooks | `send`, `resend`, `receive`, `trigger`, `start_timeout`, `destroy` | enters itself in the channel's `messages_waiting_for_ack`, sends through the client |
| `AsyncRealtimeChannel` (`channel.py`) | `state`, `_joined_once`, `join_push`, `_push_buffer`, `messages_waiting_for_ack`, `rejoin_timer`, callbacks | `subscribe`, `unsubscribe`, `push`, `join`, `_rejoin`, `on_close`, `on_error`, `_handle_message` | the client registers it by topic, delivers its messages, rejoins it after a reconnection |
| `AsyncRealtimePresence` (`presence.py`) | `state` | `_on_state_event`, `_on_diff_event` | fed by its channel |
| `AsyncRealtimeClient` (`client.py`) | `_ws_connection`, `send_buffer`, `ref`, `channels`, listening and heartbeat tasks | `connect`, `close`, `send`, `channel`, `remove_channel`, `remove_all_channels`, `set_auth`, `_listen`, `_heartbeat`, `_reconnect` | owns the socket and all channels |
| postgres bindings (`channel.py`, `types.py`) | callbacks with filter and id | matching in `subscribe`'s join callback, dispatch by id | filled by the join's reply |
| sync client (`_sync`) | none | stubs that raise `NotImplementedError` | |
| helpers, messages (`utils.py`, `transformers.py`, `message.py`) | none | parsing and URL rewriting | |

What is hard in each, and what makes it correct:

- **Timer.** The callback runs in the timer's own task and reschedules the
  timer, which cancels that very task. Correct: only the latest request fires,
  once, and a reset request never does.
- **Push.** Answer and timeout race, and a timeout task that ended is still
  referred to. Correct: a push is handed to the client at most once, not after
  it expired, answered at most once, and its table entry does not outlive both.
- **Channel.** Joins, leaves, errors and timeouts of different attempts overtake
  each other; `_rejoin()` suspends between testing and setting the state.
  Correct: an errored channel is retried, a left one is not, a joined one is
  joined at the server, buffered pushes are sent once.
- **Presence.** Diffs and the table may overlap, and the replica survives the
  connection. Correct: it is what the server published.
- **Postgres bindings.** Callbacks are matched with the server's bindings by
  position, at every join; a rejoin renews the ids; the payload is as old as
  `subscribe()`. Correct: each callback gets the changes of its filter and no
  others, and a mismatch is told.
- **Client.** Connection attempts, `close()` and reconnections run in several
  tasks that cancel each other; the registry changes while it is iterated over.
  Correct: one live connection with one listening task, no message lost or sent
  twice by the buffer, every registered channel rejoined.

## The modules

| module | models |
|---|---|
| `OneShotTimer` | what the users of a timer rely on: one pending request, the latest |
| `AsyncTimer` | `timer.py`: all tasks ever created, their cancellation, the one reference kept; implements `OneShotTimer` |
| `AsyncPush` | what the methods of `push.py` do to one push, as operators on a record |
| `PushLifecycle` | what an application can rely on for each push, with its sends and answers counted |
| `Channel` | one channel, its pushes and timer, its part of the client, the network and the server; uses `AsyncPush`; each push implements `PushLifecycle` |
| `Presence` | `presence.py` and a server that tracks presences |
| `Connection` | `connect()`, `close()`, `send()`, `_listen()`, `_heartbeat()` and the reconnections they start, of any number of callers |
| `Outbox` | what the send buffer promises: a queue that is emptied in order |
| `SendBuffer` | `send_buffer` and its flushes, nested in the reconnections a flush starts; implements `Outbox` |
| `Bindings` | postgres callbacks from `on_postgres_changes()` over joins and rejoins to the dispatch of a change |
| `MC...` | the instances TLC checks |
| `...Proofs` | the theorems |

### AsyncTimer

`task` holds the state of every task, `timer` the reference to the newest,
`doomed` the tasks cancelled while their callback runs. `Reset` and
`ScheduleTimeout` are the methods, `Fire` the end of the sleep, `Finish` the
end of the callback in any of the ways `_run_timer` provides. Cancelling a task
that runs is remembered and ends it at a suspension, which is why `Fire` makes
the task `calling` and not `done`. `tries` affects only the delay; time is
abstracted.

### Channel

One action is what a coroutine does between two suspensions. `Subscribe`,
`Unsubscribe`, `Push` and `RawJoin` are the application's calls; `RunReady`,
`RejoinTimerFires`, `PushTimeout`, `LeaveTimeout`, `JoinTimeout`,
`ResumeRejoin` and `AbandonRejoin` are steps of the loop; `Connect`,
`CloseClient`, `Disconnect`, `Reconnect`, `RejoinDue` and `AbandonDue` are what
`client.py` does to a channel; `Receive` is one turn of `_listen()` with the whole of
`_handle_message()` and the callbacks it runs; `ServerHandle` and `ServerEvent`
are the server. The rejoin timer is one Boolean, `rejoinArmed`: that a timer
is no more than its pending request is what `AsyncTimerProofs!Refines` proves.

A websocket send suspends only when the transport's buffer is full, and its
frame is written by then, or while the connection is closing, and its frame is
lost then like everything on the way. So a `_rejoin()` normally runs to its end without a
suspension (`LeaveAndJoinAgain`); with `"backpressure"` in `Env` it may stop
after the leave it sends, other actions happen, and it goes on or, since the
timer or a reconnection cancelled its task, does not. The other members of
`Env` are `"timeouts"` (a running timeout may fire at any moment; without it,
answers are in time), `"silence"` (the server may not answer), `"refusals"` (it
may refuse, or answer with other bindings) and `"rawjoin"` (the application
calls `join()`).

A flush of the send buffer in a task that cancelled itself is cut at its first
suspension (`OpenedAndCut`); what was written stays in the buffer and is sent
again by the next flush.

`close()` tells no channel: `CloseClient` ends the connection and the
subscription and leaves the channel's state, its timers, its table and the send
buffer alone. A `connect()` after it rejoins nobody (`Connect`), unlike the
`Reconnect` of a lost connection.

Two variables are history. `traffic` counts how often each push was handed to
the client and answered. It is part of the state `PushLifecycle` is about, so
that a second send or a second answer is a step the lifecycle must allow, and
does not, rather than a stuttering step (`Stage` alone could not tell). `excuse`
is the reason why a joined channel may have no subscription: the last join that
was answered was refused, or the client was closed since. Nothing depends on it
but `JoinedMatchesServer` (see below).

Abstracted: payloads; which postgres binding mismatches; the delay of timers;
callbacks of the application, which are taken to return and to call nothing;
dispatch of broadcast, presence, system-ok and postgres messages, which leaves
this state alone; the time between the loss of a connection and the moment the
client notices, within which a send raises and starts the reconnection;
connection attempts that fail before the one that succeeds, and those of which
all fail; `close()` before the end of its closing handshake; listening tasks that
a callback of the application ends (`Connection` has them); the ok a channel
already received being looked at again by a `subscribe()` that comes after it
(`receive()` then compares the bindings: such an ok can only answer the rejoin,
after a reconnection, of a channel nobody had subscribed, which asked for none). Every leave push is "leave" in `acks`: it has no other
state that matters.

### Presence

`state` is the replica; dictionaries of lists become functions from keys to
sets of refs. `SyncDiff` is the set of results a diff can have: the loop over
the leaves ends at the first key nobody is known under, and which keys come
before it is up to the dictionary's order (`Reached`). The server is external:
it tracks, untracks and publishes diffs, and sends the table after a join. The
table may contain changes whose diff is not published yet, as the two are
produced independently; `clean` records that none was pending. `Told` is what the join and
leave callbacks are called with.

### Connection

`ws`, `listenTask`, `heartbeatTask` and `auto` are the fields of the client;
`conn` is the state of every connection ever opened; `pc` says where each
coroutine is suspended and on which connection. Coroutines are the listening
and the heartbeat task of each connection, and callers, which stand for the
application and for the tasks of channels that send. `Succeed`, `Retry` and
`GiveUp` are the outcomes of an attempt of `connect()`, the first with the
whole of `_on_connect()`, which cancels the tasks of the previous connection,
the one that runs it included; `Send` and `ResumeSend` are the two halves of
`send()`, for callers and heartbeats; `CallClose` and `FinishClose` those of
`close()`. `ListenerSeesLoss` and a send that fails run `_on_connect_error()`
and `_reconnect()` up to its first suspension. `ListenerEnds` is the end of
`_listen()` by a normal close; `ListenerFails` its end by any other exception
(the `KeyError` of a reply nothing waits for, see `channel_late_reply`, or one
of a callback of the application), which may happen with every message, also
while the connection is open. The task is "failed" then, the connection has no
listening task, and nothing replaces it: `ConnectedIsTended` has this exception
and says that nothing else takes the tasks of an open connection away. The
heartbeat goes on and notices a loss, so that `LostIsReplaced` needs no
exception for it. `raced` records that a
connection was opened while another caller was in the middle of connecting,
closing or noticing a loss.

This is the account of what `Channel` takes for granted in `Connect`,
`Disconnect` and `Reconnect`: one connection at a time, a loss that somebody
notices and repairs, a listening task on what is open. Where the account needs
an assumption (no racing callers) the hazards say so.

### SendBuffer

Every caller has the stack of the `connect()` calls it is in: a flush suspends
in each message, a loss there connects again from inside `send_message()`, and
that call flushes again. Python binds the list a `for` iterates over, and the
flush ends by assigning a new list, so `lists` keeps every list object
`send_buffer` has been. A nested flush that succeeds replaces the list; the
outer one goes on over the old one and sends the rest a second time. Each call
remembers the connection on which its flush began (`since`), and `given` counts
how often the flush that began on a connection handed each message over, to
whatever connection was in use by then: more than once would be a repetition no
reconnection explains (`RepeatsNeedReconnect`). `ListenerConnects` is the reconnection of the listening task,
whose flush is cut off at its first suspension, since `_on_connect()` has just
cancelled the task that runs it. `Pending` is the refinement mapping: what is
in the current list and was never handed to a connection.

Not modelled: the rejoins with which `_reconnect()` ends (client.py:118-121),
between a nested `connect()` and the flush it returns to. They send on a
connection that is there and do not touch the buffer; if one finds that
connection lost too, it reconnects as the next message of the flush does here.

Handing a message to a connection that was closed normally counts as handed
over: `send_message()` ignores that exception. A message whose send finds the
connection lost never enters the buffer, and nothing sends it again.

### Bindings

`callbacks` is the list of a channel's postgres callbacks with their ids,
`payload` what `subscribe()` put into the join. `JoinOk` is `on_join_push_ok`
with its loop, early return and the list it replaces; `Unsubscribe` the task
that a mismatch creates. The life of the channel is reduced to what decides
when answers arrive (`JoinTimeout`, `Rejoin`, errors, a leave). The server is
external: an answer lists the bindings asked for in their order, under ids that
differ, and each join may give other ids, those of other bindings included. It
repeats the filter of each as it was sent: the conversion of a callback's filter
for the comparison (`binding_filter`, types.py:143-149) leaves out a schema or filter that is None or
empty, and is taken for the identity; a filter given as an empty string, which
would come back as None and count as a mismatch, is not among the model's.

## The runs

| run | asks | bounds |
|---|---|---|
| `timer` | does only the latest request fire? | 4 tasks: a task, one that supersedes it from its callback, one after a reset, one more |
| `channel` | do retries, timers, table and pushes stay consistent under everything but `join()`? | 1 push, 4 references (a leave and a join twice, or a push in between), 1 unsubscribe, 1 lost connection, 1 close of the client, 1 event of the server |
| `channel_prompt` | without suspended sends: can a joining channel get stuck, and is a joined one joined at the server? | 5 references, as the hazard is an old answer after a second leave and join; 1 unsubscribe, 1 lost connection, 1 close of the client, 1 event of the server; no pushes, which touch neither property. A refusal overtaken by an older answer takes two errors: that `excuse` covers it is what the theorem shows, for any number |
| `channel_live` | does a recovering channel settle, does a left one close? | 10 references, so that the bound on references does not end an attempt early; 1 unsubscribe, 1 lost connection, 1 close of the client, 1 event of the server; no timeouts, a server that answers |
| `presence` | is the replica what was published, and do the callbacks tell news only? | 2 keys, 3 refs, 3 messages in flight; keys and refs are symmetric |
| `connection` | do tasks and connections stay one to one, whoever connects, closes and reconnects, and is a lost connection replaced? | 2 callers, 3 connections, 2 losses, 1 failed attempt of 2, any listening task may fail: a race of two callers, of a caller and both tasks, and a reconnection that is itself lost |
| `send_buffer` | does a flush drop or overtake messages when it is interrupted, or hand one over twice? | 3 messages, 1 caller and the listening task, 3 connections (a flush in a flush in a flush), 2 attempts and 2 failures, so that a `connect()` may give up |
| `bindings` | are callbacks called with their changes and no others over rejoins? | 3 filters (a wildcard and an event of one table, another table), 3 callbacks, 3 joins, 3 ids, queues of 2 |
| `channel_timed_out` | refuted: TIMED_OUT means that the server did not answer | |
| `channel_late_reply` | refuted: the client listens as long as it is connected | |
| `channel_reconnect` | refuted: a channel nobody leaves is kept over a reconnection | |
| `presence_ghosts` | refuted: the replica holds nobody who has left | |

The last four are disagreements between the code and what its documentation
says; `PROJECT.json` quotes both under `findings`. Deadlock is checked for presence
only: the others may stop (all tasks, references or connections used up, the
channel closed or removed).

One push is enough for properties of single pushes, since pushes meet in the
buffer and the ready tasks only, and what the code does to one depends on no
other. The theorems below are for any number of pushes.

**Fairness** (`FairSpec`, run `channel_live`): weak fairness of what asyncio runs
once it is ready (`RunReady`, `ResumeRejoin`, `RejoinDue`, `Receive`), of the
rejoin timer (it sleeps for a finite time), of `Reconnect` (a lost connection
is replaced before the retries of `connect()` are used up) and of the server's
answers. Nothing is assumed of the application; in particular nobody needs to
call `connect()` after `close()`, which is why both properties are excused by a
`close()`. `RecoveringSettles` and `LeavingCloses` are meant for that
environment; with a server that does not answer, a channel that leaves stays so,
as nothing closes it on a timeout.

In `connection`, `FairSpec` assumes that asyncio runs what is ready (a task that
was created or woken, a send that can go on), that an attempt to connect is
answered, and that a closing handshake ends. Callers that are idle need not
call anything. `LostIsReplaced` holds because fewer attempts fail than
`max_retries`; its other excuses are that the application closed the client
(`listenTask = 0`) and that the bound on connections is reached.
In `send_buffer`, the steps of a `connect()` that was called are fair;
`ConnectReturns` lets attempts fail and connections get lost during it.

`RecoveringSettles` counts a channel that was closed and removed as settled:
that this is what a reconnection does to it is the finding `channel_reconnect`.

## The theorems

All are proved for every value of the constants, from the assumptions named in
the modules (bounds are natural numbers, a push is none of the words used for
other entries, `Env` is a set of the known behaviours).

- `AsyncTimerProofs`: `TypeCorrect`, `LatestOnly`, and `Refines`: `AsyncTimer`
  implements `OneShotTimer`. The inductive invariant adds to the types that a
  task exists exactly if its number is not above `born`, that the reference is
  one of them, and that a sleeping task was not called before.
- `ChannelProofs`: `TypeCorrect`; `ErroredChannelsAreRetried`,
  `OnlyRecoveringChannelsAreRetried` and `LeavingChannelsAreQuiet`, whose
  conjunction is inductive; `JoiningChannelsHaveAWayOut`, whose
  invariant adds that no rejoin is suspended and that a registered closed
  channel has no timeout task, since it never joined: its first join then
  starts one, every other join follows an error, whose retry is scheduled, or
  a leave, which forgets the task; `WaitingPushesAreWatched` and `UnsentPushesWaitOnce`, one
  induction over the table, the buffer and the ready tasks together: an entry
  names a push with that reference, and a push in a queue is in no other place
  and was not sent; and `PushesLiveAsPromised`: the channel implements
  `PushLifecycle`, for which every step that sends or answers a push takes
  exactly one from a stage in which it may be sent or answered, and counts it
  once; and `JoinedChannelsAreJoined`, where no send suspends
  and the server answers, for any number of calls of `close()` and `connect()` too. A server that drops the subscription sends something
  after the answer to the join it drops: the answer to a leave or a close, which
  end the channel or the listening task for good (`Ending`), or an error, which
  takes the channel out of joined. The invariant, `MatchInv`, follows each ok on
  its way (`AnswersHold`) and the one taken last (`JoinedHolds`): unless an end
  is coming or the rejoin after a reconnection is due, the server has a
  subscription, the channel has an excuse, or its error is behind that ok
  (`Settled`). It
  needs that no reference is used for two frames (`FramesAreOld`,
  `MessagesAreOld`), and a step of the client only adds frames and removes
  entries of the table (`Grows`), which is why one lemma serves all of them.
- `PresenceProofs`: `TypeCorrect`; `StateEventsAreTaken`: a state event makes
  the replica what was sent, which rests on `SyncStateTakes`: every key that
  loses presences is known, so that the early end of the loop cannot happen
  there; and `NobodyIsMissed`, `ReplicaIsTable` and `OnlyNewsIsTold`. Their
  invariant, `Consistent`, follows each presence from a snapshot (the replica,
  or a table on its way) through the changes after it, on their way or pending:
  whoever is in the server's table is in the snapshot or joins later, and leaves
  no more (`Covered`); if the snapshot was clean, the joins and leaves alternate
  and end at the table (`Exact`). It needs that a ref is given out once
  (`Fresh`) and that at most one table is on its way (`OneSnapshot`).
- `ConnectionProofs`: `TypeCorrect`; `OnlyReferredTasksLive` and
  `ConnectionsAreTended`, from `TaskInv`: the client refers to the newest
  connection and its tasks or to none (`RefersToNewest`), and a task that is
  alive is the one referred to, suspended on its own connection, and
  reconnects only while there is none (`TasksInPlace`), which is why
  cancelling the two tasks referred to leaves none alive (`NoneSurvives`); a
  listening task that is not alive failed, or its connection is not open;
  and `NoConnectionIsOrphaned`, which also needs that, without a race, a caller
  that connects finds no connection and one that closes or found its
  connection lost speaks of the client's (`CallersAgree`).
- `SendBufferProofs`: `TypeCorrect` and `SecondTimeIsLater`, for any number of
  callers that connect and flush side by side, and `BufferIsOutbox`: `SendBuffer`
  implements `Outbox`. The invariant of the first two says that all calls of a
  stack but the innermost are in a flush, at a message of a list that exists
  (`WellTyped`), that connections are opened one after the other (`InOrder`),
  and (`EachOnce`) that on one connection begins one flush (`OneFlushEach`), on
  a connection that was opened, and that it gave nothing beyond what it has come
  to in its list, in which no message is twice (`OnItsConnection`). `BufferIsOutbox` assumes `OneCaller`, since the code
  does not keep the promise otherwise (see below); the listening task may
  reconnect at any time. Its invariant: every list but the current one is handed
  over completely (`OldListsAreDone`), of the current one a prefix is
  (`DoneFirst`), and a flush that is not about to fail runs on the connection in
  use and has come at least as far, or runs on an old list while nothing is left
  (`NothingSkipped`). `Pending` is a recursive function; its values are
  characterised by induction on the indices of the list (the least index at
  which a claim fails, from `WellFoundedInduction`), which `UnsentRuns`,
  `UnsentType` and `UnsentRest` do once.
- `BindingsProofs`: `TypeCorrect`, `HearsItsOwn`, `HearsAllOfIt`,
  `MismatchComesLate` and `BoundWhenTold`. Ids change with every answer to a
  join, so what a change on its way means depends on the answers before it:
  `ChangesAgree` and `ServedAgree` say that it is understood by the ids of the
  last answer before it, or of the callbacks if there is none, and that the
  server serves by the last ids on their way. `AskedFirst` and `Answered` keep
  callbacks, payload and answers in the same order.

Only model-checked: liveness (`RecoveringSettles`, `LeavingCloses`,
`LostIsReplaced`, `ConnectReturns`), which needs fairness and ENABLED. Every
other property of a passing run is a theorem.

## What the models show about the code

Besides the four refuted statements, these are consequences of the code that
the models contain and that an application meets. Some are kept as definitions
no run checks, since they do not hold.

- A refused join changes no state (`on_join_push_error` calls the subscriber
  only). If the channel errors twice and an ok to the join in between comes
  after the last rejoin was sent, it becomes joined, and the refusal of the last
  join leaves it so, without a subscription at the server and without a retry.
  This is the excuse "refused" of `JoinedMatchesServer`.
- After `close()` and `connect()` a channel that was joined stays joined without
  a subscription: nothing rejoins it until a connection is lost or an error
  reaches it (the excuse "closed"). tests/test_connection.py:355-397 closes and
  connects again, without a channel.
- A listening task that ends by an exception leaves the connection open and the
  client connected, and nothing listens until the connection is lost and a
  heartbeat or a send notices (`ListenerFails`).
- A reconnection whose task is cancelled by its own `_on_connect()` ends, if a
  send suspends, before it rejoins (`AbandonDue`). A channel that was joined on
  the lost connection then stays joined without being so; this is why
  `JoinedMatchesServer` excludes backpressure.
- A normal close by the server ends `_listen()` without an exception. The
  client then counts as connected, sends are ignored, and nothing reconnects
  (`Connection!ClosedIsReplaced`; tests/test_connection.py:424 calls such a
  send one that "should trigger reconnection").
- Without `auto_reconnect`, a lost connection also stays in `_ws_connection`:
  `connect()` returns at once until `close()` is called. The same holds for
  callers when all attempts of a reconnection fail: the exception ends a task
  nobody awaits.
- Two callers that connect at the same time open two connections. The client
  refers to the second; the first stays open without a task (`raced` in
  `NoOrphans`). With two callers `SendBuffer` does not implement `Outbox`: the
  flush that ends last clears what was buffered after the other's connection
  was lost.
- A message whose send finds the connection lost is dropped.
- A flush from the listening task stops at the first message in which it
  suspends; the rest waits for the next reconnection.
- A callback registered after `subscribe()` is not in the payload. A rejoin
  makes it a mismatch, which unsubscribes the channel; if there were none
  before, the answer drops it without a word (`Bindings!NoneForgotten`).
- A change that the table of a join shows and a diff publishes afterwards is told
  twice by `on_join`, and a diff may name somebody in `on_leave` who was never
  told to join; this is why `NewsOnly` has the proviso `clean` for diffs.
- A binding with the id 0 counts as one without an id and is never called; the
  ids in `Bindings` are positive.
- The delay between attempts multiplies two exponentials, the doubled
  `initial_backoff` and 2^(retries-1), so that it grows fourfold and soon
  passes the 60 seconds it is meant to be capped at. Time is abstracted here.

## Not modelled, and the plan

1. `Registry`: several channels and channels of the same topic; `_reconnect()`,
   `remove_channel()`, `remove_all_channels()` and `set_auth()` iterating over a
   dictionary that changes meanwhile. A listening task that delivers by topic,
   objects with their own tables of pushes, callers in the middle of a loop.
   Properties: a loop over the channels misses none that was there all the
   time; `remove_channel()` closes the client only when no channel is
   registered; answers reach the object that asked unless its topic was taken.
2. Theorems about `Registry`: that an answer reaches the object that asked, for
   any number of channels and topics.

The sync client is stubs, the helpers rewrite URLs, and message validation is
the parser of a library: these stay outside.
