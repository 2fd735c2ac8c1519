------------------------------ MODULE Presence ------------------------------
(***************************************************************************)
(* AsyncRealtimePresence (realtime/_async/presence.py): a replica of the   *)
(* presences the server tracks for a topic, kept from one presence_state   *)
(* per join and the presence_diffs that follow.  A presence is its         *)
(* presence_ref; a key (a user) has several of them.  Dictionaries of      *)
(* lists are functions from keys to sets of refs, the empty set standing   *)
(* for a key that is not in the dictionary: the server's messages hold no  *)
(* empty list, and the code deletes a key whose list becomes empty.        *)
(*                                                                         *)
(* The server is external: it tracks and untracks presences, publishes     *)
(* what changed as a diff to the channels that are joined, and sends a     *)
(* newly joined channel the table as it is, in which changes may show      *)
(* whose diff is not published yet.  The socket delivers in order.         *)
(***************************************************************************)
EXTENDS Sequences, Naturals

CONSTANTS
  Keys,     \* the keys presences are tracked under
  Refs,     \* the refs the server gives to presences, each used once
  MaxQueue  \* bound: presence messages on their way

ASSUME MaxQueueAssumption == MaxQueue \in Nat

VARIABLES
  state,    \* self.state
  synced,   \* history: the state event of the latest join was handled
  server,   \* the server's table
  used,     \* the refs the server gave out
  joins,    \* what joined since the last diff was published
  leaves,   \* what left since the last diff was published
  channel,  \* the server's side of the channel: "away", "joining" until the
            \*   table is sent, "joined"
  clean,    \* history: no change waited to be published when it was sent
  queue     \* the messages on their way

vars == <<state, synced, server, used, joins, leaves, channel, clean, queue>>
table == <<server, used, joins, leaves>>

Presences == [Keys -> SUBSET Refs]
Nobody == [k \in Keys |-> {}]

Messages == [kind : {"state"}, presences : Presences]
       \cup [kind : {"diff"}, joins : Presences, leaves : Presences]

TypeOK ==
  /\ state \in Presences
  /\ synced \in BOOLEAN
  /\ server \in Presences
  /\ used \subseteq Refs
  /\ joins \in Presences
  /\ leaves \in Presences
  /\ channel \in {"away", "joining", "joined"}
  /\ clean \in BOOLEAN
  /\ queue \in Seq(Messages)

Init ==
  /\ state = Nobody
  /\ synced = FALSE
  /\ server = Nobody
  /\ used = {}
  /\ joins = Nobody
  /\ leaves = Nobody
  /\ channel = "away"
  /\ clean = FALSE
  /\ queue = <<>>

-----------------------------------------------------------------------------
(* Operators on presences, key by key.                                     *)

Plus(p, q) == [k \in Keys |-> p[k] \cup q[k]]
Minus(p, q) == [k \in Keys |-> p[k] \ q[k]]
KeysOf(p) == {k \in Keys : p[k] # {}}

(* The keys for which the loop over the leaves removes presences: it ends  *)
(* at the first key nobody is present under, wherever the dictionary has   *)
(* it, and what comes later is not looked at.                              *)
Reached(present, left) ==
  IF KeysOf(left) \subseteq KeysOf(present)
    THEN {KeysOf(left)}
    ELSE SUBSET (KeysOf(left) \cap KeysOf(present))

(* The loop of _sync_diff over the leaves, as one that skips the key, and  *)
(* as one that forgets the key together with the presences that left.      *)
WithoutKeys(present, left, keys) ==
  [k \in Keys |-> IF k \in keys THEN {} ELSE present[k]]

Without(present, left, keys) ==
  [k \in Keys |-> IF k \in keys THEN present[k] \ left[k] ELSE present[k]]

(* _sync_diff applied to the leaves first.                                 *)
LeavesThenJoins(current, joined, left) ==
  {Plus(Without(current, left, keys), joined) : keys \in Reached(current, left)}

(* _sync_diff that returns at such a key: the caller assigns nothing.      *)
SyncDiffReturning(current, joined, left) ==
  LET present == Plus(current, joined)
  IN  IF KeysOf(left) \subseteq KeysOf(present)
        THEN {Without(present, left, KeysOf(left))}
        ELSE {<<>>}

(* _sync_diff(): what the state can become.                                *)
SyncDiff(current, joined, left) ==
  LET present == Plus(current, joined)
  IN  {Without(present, left, keys) : keys \in Reached(present, left)}

(* All that the new state holds, also who is known already.                *)
EverybodyJoins(current, new) == new

(* The joins and the leaves that _sync_state() computes, ...               *)
StateJoins(current, new) == Minus(new, current)
StateLeaves(current, new) == Minus(current, new)

(* _sync_state() that only lets those keys leave the new state lacks.      *)
SyncStateByKey(current, new) ==
  SyncDiff(current, Minus(new, current),
           [k \in Keys |-> IF new[k] = {} THEN current[k] ELSE {}])

(* ... and how it uses them.                                               *)
SyncState(current, new) ==
  SyncDiff(current, StateJoins(current, new), StateLeaves(current, new))

(* What on_join and on_leave are called with, key by key, when the message *)
(* m arrives (on_leave only for the keys that the loop reaches).           *)
Told(current, m) ==
  IF m.kind = "state"
    THEN [joined |-> StateJoins(current, m.presences),
          left   |-> StateLeaves(current, m.presences)]
    ELSE [joined |-> m.joins, left |-> m.leaves]

-----------------------------------------------------------------------------
(* The client's handlers.                                                  *)

OnStateEvent ==
  /\ queue # <<>>
  /\ Head(queue).kind = "state"
  /\ state' \in SyncState(state, Head(queue).presences)
  /\ synced' = TRUE
  /\ queue' = Tail(queue)
  /\ UNCHANGED <<table, channel, clean>>

OnDiffEvent ==
  /\ queue # <<>>
  /\ Head(queue).kind = "diff"
  /\ state' \in SyncDiff(state, Head(queue).joins, Head(queue).leaves)
  /\ queue' = Tail(queue)
  /\ UNCHANGED <<synced, table, channel, clean>>

-----------------------------------------------------------------------------
(* The server (external).                                                  *)

Track(k, r) ==
  /\ r \notin used
  /\ used' = used \cup {r}
  /\ server' = [server EXCEPT ![k] = @ \cup {r}]
  /\ joins' = [joins EXCEPT ![k] = @ \cup {r}]
  /\ UNCHANGED <<state, synced, leaves, channel, clean, queue>>

Untrack(k, r) ==
  /\ r \in server[k]
  /\ server' = [server EXCEPT ![k] = @ \ {r}]
  /\ leaves' = [leaves EXCEPT ![k] = @ \cup {r}]
  /\ UNCHANGED <<state, synced, used, joins, channel, clean, queue>>

Publish ==
  /\ joins # Nobody \/ leaves # Nobody
  /\ joins' = Nobody
  /\ leaves' = Nobody
  /\ IF channel = "away"
       THEN UNCHANGED queue
       ELSE /\ Len(queue) < MaxQueue
            /\ queue' = Append(queue, [kind |-> "diff", joins |-> joins,
                                       leaves |-> leaves])
  /\ UNCHANGED <<state, synced, server, used, channel, clean>>

(* The channel is joined, for the first time or again.                     *)
Join ==
  /\ channel = "away"
  /\ channel' = "joining"
  /\ UNCHANGED <<state, synced, table, clean, queue>>

SendState ==
  /\ channel = "joining"
  /\ Len(queue) < MaxQueue
  /\ channel' = "joined"
  /\ clean' = (joins = Nobody /\ leaves = Nobody)
  /\ queue' = Append(queue, [kind |-> "state", presences |-> server])
  /\ UNCHANGED <<state, synced, table>>

(* The channel is left or its connection is lost, with the messages on it. *)
(* The client keeps what it knows.                                         *)
Drop ==
  /\ channel # "away"
  /\ channel' = "away"
  /\ synced' = FALSE
  /\ queue' = <<>>
  /\ UNCHANGED <<state, table, clean>>

Next ==
  \/ OnStateEvent
  \/ OnDiffEvent
  \/ \E k \in Keys, r \in Refs : Track(k, r) \/ Untrack(k, r)
  \/ Publish
  \/ Join
  \/ SendState
  \/ Drop

Spec == Init /\ [][Next]_vars

-----------------------------------------------------------------------------
(* What the server has told: its table before the unpublished changes.     *)
Published == Minus(Plus(server, leaves), joins)

UpToDate == synced /\ queue = <<>>

(* Once the table was received and nothing is on its way, the replica      *)
(* misses no presence that was published, whatever happened before on this *)
(* or an earlier join (presence.py, _sync_state and _sync_diff).           *)
NoneIsMissing ==
  UpToDate => \A k \in Keys : server[k] \ joins[k] \subseteq state[k]

(* If no change was pending when the table was sent, the replica is        *)
(* exactly the published table: a diff never names a presence it does not  *)
(* know, and the state kept over a lost connection leaves no trace.        *)
InSync == UpToDate /\ clean => state = Published

(* An application that counts who is there by on_join and on_leave counts  *)
(* right: nobody is told to join who is present already, also not after a  *)
(* rejoin, nor to leave who is not (presence.py 69-76, 105-106, 124-125).  *)
(* For diffs it takes the proviso of InSync.                               *)
NewsOnly ==
  (queue # <<>> /\ (Head(queue).kind = "state" \/ (synced /\ clean))) =>
    LET told == Told(state, Head(queue))
    IN  \A k \in Keys :
          /\ told.joined[k] \cap state[k] = {}
          /\ told.left[k] \subseteq state[k] \cup told.joined[k]

(* The state event sets the replica to what it carries, whatever was there *)
(* before: the joins and leaves _sync_state computes are the difference.   *)
SnapshotIsTaken ==
  [][~synced /\ synced' => state' = Head(queue).presences]_vars

(* README.md:32: presence is there "to track and synchronize shared state  *)
(* across clients".  Without the proviso of InSync it does not hold: the   *)
(* loop over the leaves ends at a key it does not know (presence.py:112).  *)
NoGhosts ==
  UpToDate => \A k \in Keys : state[k] \subseteq server[k] \cup leaves[k]
=============================================================================
