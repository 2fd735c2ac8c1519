--------------------------- MODULE PresenceProofs ---------------------------
(***************************************************************************)
(* Proofs about Presence: what the merge operators do to a replica, that   *)
(* every state event sets it to the table the server sent, and that diffs  *)
(* and tables together make it what the server published.                  *)
(*                                                                         *)
(* The invariant says what the diffs on their way and the changes still    *)
(* pending do, one after the other, to what the replica is or to the table *)
(* that is on its way: they end at the server's table.                     *)
(***************************************************************************)
EXTENDS Presence, SequenceTheorems, TLAPS

-----------------------------------------------------------------------------
(* The operators on presences are closed.                                  *)
LEMMA NobodyType == Nobody \in Presences
BY DEF Nobody, Presences

LEMMA PlusType ==
  ASSUME NEW p \in Presences, NEW q \in Presences
  PROVE  Plus(p, q) \in Presences
BY DEF Plus, Presences

LEMMA MinusType ==
  ASSUME NEW p \in Presences, NEW q \in Presences
  PROVE  Minus(p, q) \in Presences
BY DEF Minus, Presences

(* Whatever keys the loop over the leaves reaches, it yields presences.    *)
LEMMA SyncDiffType ==
  ASSUME NEW p \in Presences, NEW j \in Presences, NEW l \in Presences,
         NEW s \in SyncDiff(p, j, l)
  PROVE  s \in Presences
<1> DEFINE present == Plus(p, j)
<1>1. PICK keys \in Reached(present, l) : s = Without(present, l, keys)
  BY DEF SyncDiff
<1>2. present \in Presences
  BY PlusType
<1> HIDE DEF present
<1>3. Without(present, l, keys) \in Presences
  BY <1>2 DEF Without, Presences
<1> QED
  BY <1>1, <1>3

(* Merging a whole state leaves no choice: every key that loses presences  *)
(* is known, so the loop over the leaves runs to its end, and the result   *)
(* is the state that was merged.                                           *)
LEMMA SyncStateTakes ==
  ASSUME NEW p \in Presences, NEW new \in Presences, NEW s \in SyncState(p, new)
  PROVE  s = new
<1> DEFINE present == Plus(p, Minus(new, p))
           left == Minus(p, new)
<1>1. PICK keys \in Reached(present, left) : s = Without(present, left, keys)
  BY DEF SyncState, SyncDiff, StateJoins, StateLeaves
<1>2. KeysOf(left) \subseteq KeysOf(present)
  BY DEF KeysOf, Plus, Minus
<1>3. keys = KeysOf(left)
  BY <1>1, <1>2 DEF Reached
<1>4. s = [k \in Keys |-> IF k \in KeysOf(left) THEN present[k] \ left[k]
                                                ELSE present[k]]
  BY <1>1, <1>3 DEF Without
<1>5. ASSUME NEW k \in Keys  PROVE s[k] = new[k]
  <2>1. present[k] = p[k] \cup new[k] /\ left[k] = p[k] \ new[k]
    BY DEF Plus, Minus
  <2>2. k \in KeysOf(left) <=> left[k] # {}
    BY DEF KeysOf
  <2> QED
    BY <1>4, <2>1, <2>2
<1>6. s = [k \in Keys |-> s[k]] /\ new = [k \in Keys |-> new[k]]
  BY <1>4 DEF Presences
<1> QED
  BY <1>5, <1>6

-----------------------------------------------------------------------------
LEMMA Initially == Init => TypeOK
<1>1. <<>> \in Seq(Messages)
  BY EmptySeq
<1> QED
  BY <1>1, NobodyType DEF Init, TypeOK

LEMMA TypeStep == TypeOK /\ [Next]_vars => TypeOK'
<1> SUFFICES ASSUME TypeOK, [Next]_vars  PROVE TypeOK'
  OBVIOUS
<1> USE DEF TypeOK
<1>1. CASE OnStateEvent
  <2>1. Head(queue) \in Messages /\ Tail(queue) \in Seq(Messages)
    BY <1>1, HeadTailProperties DEF OnStateEvent
  <2>2. Head(queue).presences \in Presences
    BY <1>1, <2>1 DEF OnStateEvent, Messages
  <2>3. state' \in Presences
    BY <1>1, <2>2, SyncStateTakes DEF OnStateEvent
  <2> QED
    BY <1>1, <2>1, <2>3 DEF OnStateEvent, table
<1>2. CASE OnDiffEvent
  <2>1. Head(queue) \in Messages /\ Tail(queue) \in Seq(Messages)
    BY <1>2, HeadTailProperties DEF OnDiffEvent
  <2>2. Head(queue).joins \in Presences /\ Head(queue).leaves \in Presences
    BY <1>2, <2>1 DEF OnDiffEvent, Messages
  <2>3. state' \in Presences
    BY <1>2, <2>2, SyncDiffType DEF OnDiffEvent
  <2> QED
    BY <1>2, <2>1, <2>3 DEF OnDiffEvent, table
<1>3. ASSUME NEW k \in Keys, NEW r \in Refs, Track(k, r)  PROVE TypeOK'
  BY <1>3 DEF Track, Presences
<1>4. ASSUME NEW k \in Keys, NEW r \in Refs, Untrack(k, r)  PROVE TypeOK'
  BY <1>4 DEF Untrack, Presences
<1>5. CASE Publish
  <2>1. [kind |-> "diff", joins |-> joins, leaves |-> leaves] \in Messages
    BY DEF Messages
  <2>2. queue' \in Seq(Messages)
    BY <1>5, <2>1, AppendProperties DEF Publish
  <2> QED
    BY <1>5, <2>2, NobodyType DEF Publish
<1>6. CASE Join
  BY <1>6 DEF Join, table
<1>7. CASE SendState
  <2>1. [kind |-> "state", presences |-> server] \in Messages
    BY DEF Messages
  <2>2. queue' \in Seq(Messages)
    BY <1>7, <2>1, AppendProperties DEF SendState
  <2> QED
    BY <1>7, <2>2 DEF SendState, table
<1>8. CASE Drop
  BY <1>8, EmptySeq DEF Drop, table
<1>9. CASE UNCHANGED vars
  BY <1>9 DEF vars, table
<1> QED
  BY <1>1, <1>2, <1>3, <1>4, <1>5, <1>6, <1>7, <1>8, <1>9 DEF Next

(* The replica, the table and what is on its way are what they should be   *)
(* in every reachable state.                                               *)
THEOREM TypeCorrect == Spec => []TypeOK
BY Initially, TypeStep, PTL DEF Spec

(* A state event makes the replica what the server sent, whatever the      *)
(* replica held before (presence.py, _on_state_event and _sync_state).     *)
THEOREM StateEventsAreTaken == Spec => SnapshotIsTaken
<1>1. TypeOK /\ [Next]_vars =>
        [~synced /\ synced' => state' = Head(queue).presences]_vars
  <2> SUFFICES ASSUME TypeOK, Next, ~synced, synced'
               PROVE  state' = Head(queue).presences
    BY DEF vars
  <2>1. OnStateEvent
    BY DEF Next, OnDiffEvent, Track, Untrack, Publish, Join, SendState, Drop
  <2>2. Head(queue) \in Messages
    BY <2>1, HeadTailProperties DEF OnStateEvent, TypeOK
  <2>3. Head(queue).presences \in Presences
    BY <2>1, <2>2 DEF OnStateEvent, Messages
  <2> QED
    BY <2>1, <2>3, SyncStateTakes DEF OnStateEvent, TypeOK
<1> QED
  BY <1>1, TypeCorrect, PTL DEF Spec, SnapshotIsTaken

-----------------------------------------------------------------------------
(* The changes after a snapshot.  A snapshot is the replica, once the      *)
(* table of this join was received, or the message that carries the table; *)
(* what follows it on the way, and at last what is not published yet, are  *)
(* the changes that turn it into the server's table.                       *)

Joined(i) == IF i <= Len(queue) THEN queue[i].joins ELSE joins
Left(i) == IF i <= Len(queue) THEN queue[i].leaves ELSE leaves
Later(s) == (s + 1)..(Len(queue) + 1)

IsSnapshot(s) ==
  \/ s = 0 /\ synced
  \/ s \in DOMAIN queue /\ queue[s].kind = "state"
Snapshot(s) == IF s = 0 THEN state ELSE queue[s].presences

(* Who is present at the server is in the snapshot or joins after it, and  *)
(* leaves no more.                                                         *)
Covered(p, s, k, r) ==
  r \in server[k] =>
    /\ r \in p[k] \/ \E i \in Later(s) : r \in Joined(i)[k]
    /\ \A i \in Later(s) : r \notin Left(i)[k]

(* The changes of a presence make sense, one after the other: it joins and *)
(* leaves once, it leaves after it joined, and in the end it is present at *)
(* the server unless it left.                                              *)
JoinsOnce(p, s, k, r) ==
  /\ r \in p[k] => \A i \in Later(s) : r \notin Joined(i)[k]
  /\ \A i, j \in Later(s) : r \in Joined(i)[k] /\ r \in Joined(j)[k] => i = j

LeavesOnce(p, s, k, r) ==
  /\ \A i, j \in Later(s) : r \in Left(i)[k] /\ r \in Left(j)[k] => i = j
  /\ \A i \in Later(s) : r \in Left(i)[k] =>
       /\ r \notin server[k]
       /\ r \in p[k] \/ \E j \in Later(s) : j <= i /\ r \in Joined(j)[k]

EndsRight(p, s, k, r) ==
  /\ r \in server[k] => r \in p[k] \/ \E i \in Later(s) : r \in Joined(i)[k]
  /\ r \in p[k] /\ r \notin server[k] => \E i \in Later(s) : r \in Left(i)[k]
  /\ \A i \in Later(s) : r \in Joined(i)[k] /\ r \notin server[k] =>
       \E j \in Later(s) : i <= j /\ r \in Left(j)[k]

Exact(p, s, k, r) ==
  JoinsOnce(p, s, k, r) /\ LeavesOnce(p, s, k, r) /\ EndsRight(p, s, k, r)

(* A presence whose ref was not given out is nowhere.                      *)
Fresh ==
  \A r \in Refs \ used, k \in Keys :
    /\ r \notin state[k] /\ r \notin server[k]
    /\ r \notin joins[k] /\ r \notin leaves[k]
    /\ \A i \in DOMAIN queue :
         IF queue[i].kind = "state" THEN r \notin queue[i].presences[k]
         ELSE r \notin queue[i].joins[k] /\ r \notin queue[i].leaves[k]

(* Who left is not present.                                                *)
GoneIsGone == \A k \in Keys : leaves[k] \cap server[k] = {}

(* There is a snapshot on a joined channel only, and nothing but diffs     *)
(* after it.                                                               *)
OneSnapshot ==
  \A s \in 0..Len(queue) : IsSnapshot(s) =>
    /\ channel = "joined"
    /\ \A i \in (s + 1)..Len(queue) : queue[i].kind = "diff"

Consistent ==
  \A s \in 0..Len(queue) : IsSnapshot(s) =>
    \A k \in Keys, r \in Refs :
      /\ Covered(Snapshot(s), s, k, r)
      /\ clean => Exact(Snapshot(s), s, k, r)

Inv ==
  /\ TypeOK
  /\ Fresh
  /\ GoneIsGone
  /\ channel = "away" => queue = <<>>
  /\ OneSnapshot
  /\ Consistent

-----------------------------------------------------------------------------
(* Handling the first message moves the others, and what they change, one  *)
(* place up.                                                               *)
LEMMA Moved ==
  ASSUME queue \in Seq(Messages), queue # <<>>, queue' = Tail(queue), UNCHANGED table,
         NEW n \in Nat, n = Len(queue')
  PROVE  /\ Len(queue) = n + 1 /\ DOMAIN queue = 1..(n + 1) /\ DOMAIN queue' = 1..n
         /\ queue' \in Seq(Messages)
         /\ \A i \in 1..n : queue'[i] = queue[i + 1]
         /\ \A i \in 1..(n + 1) : Joined(i)' = Joined(i + 1) /\ Left(i)' = Left(i + 1)
<1>1. /\ Len(queue) = n + 1 /\ DOMAIN queue = 1..(n + 1) /\ DOMAIN queue' = 1..n
      /\ queue' \in Seq(Messages)
      /\ \A i \in 1..n : queue'[i] = queue[i + 1]
  OBVIOUS
<1>2. ASSUME NEW i \in 1..(n + 1)
      PROVE  Joined(i)' = Joined(i + 1) /\ Left(i)' = Left(i + 1)
  <2>1. CASE i = n + 1
    BY <1>1, <2>1 DEF Joined, Left, table
  <2>2. CASE i # n + 1
    <3>1. i \in 1..n /\ i <= n /\ i + 1 <= n + 1
      BY <2>2
    <3> QED
      BY <1>1, <3>1 DEF Joined, Left
  <2> QED
    BY <2>1, <2>2
<1> QED
  BY <1>1, <1>2

LEMMA MovedUp ==
  ASSUME queue \in Seq(Messages), queue # <<>>, queue' = Tail(queue), UNCHANGED table,
         NEW s \in 0..Len(queue'), NEW p, NEW k \in Keys, NEW r \in Refs
  PROVE  /\ Covered(p, s + 1, k, r) => Covered(p, s, k, r)'
         /\ Exact(p, s + 1, k, r) => Exact(p, s, k, r)'
<1>0. PICK n \in Nat : n = Len(queue')
  OBVIOUS
<1>1. /\ Len(queue) = n + 1 /\ Len(queue') = n /\ s \in 0..n
      /\ \A i \in 1..(n + 1) : Joined(i)' = Joined(i + 1) /\ Left(i)' = Left(i + 1)
  BY <1>0, Moved
<1>2. Later(s)' = (s + 1)..(n + 1) /\ Later(s + 1) = (s + 2)..(n + 2)
  BY <1>1 DEF Later
<1>3. ASSUME NEW i \in Later(s)'
      PROVE  i + 1 \in Later(s + 1) /\ Joined(i)' = Joined(i + 1) /\ Left(i)' = Left(i + 1)
  BY <1>1, <1>2
<1>4. ASSUME NEW i \in Later(s + 1)
      PROVE  i - 1 \in Later(s)' /\ Joined(i - 1)' = Joined(i) /\ Left(i - 1)' = Left(i)
  <2>1. i - 1 \in 1..(n + 1) /\ (i - 1) + 1 = i /\ i - 1 \in Later(s)'
    BY <1>1, <1>2
  <2> QED
    BY <1>1, <2>1
<1>5. \A i \in Later(s + 1), j \in Later(s + 1) : i <= j => i - 1 <= j - 1
  BY <1>2
<1>6. \A i \in Later(s)', j \in Later(s)' : i + 1 = j + 1 => i = j
  BY <1>2
<1>7. \A i \in Later(s)' : (i + 1) - 1 = i
  BY <1>2
<1>8. server' = server
  BY DEF table
<1> HIDE DEF Later
<1>9. Covered(p, s + 1, k, r) => Covered(p, s, k, r)'
  BY <1>3, <1>4, <1>8 DEF Covered
<1>10. JoinsOnce(p, s + 1, k, r) => JoinsOnce(p, s, k, r)'
  BY <1>3, <1>6 DEF JoinsOnce
<1>11. LeavesOnce(p, s + 1, k, r) => LeavesOnce(p, s, k, r)'
  BY <1>3, <1>4, <1>5, <1>6, <1>7, <1>8 DEF LeavesOnce
<1>12. EndsRight(p, s + 1, k, r) => EndsRight(p, s, k, r)'
  BY <1>3, <1>4, <1>5, <1>7, <1>8 DEF EndsRight
<1> QED
  BY <1>9, <1>10, <1>11, <1>12 DEF Exact

(* The replica takes the first diff in.                                    *)
LEMMA TakenIn ==
  ASSUME queue \in Seq(Messages), queue # <<>>, NEW p, NEW k \in Keys, NEW r \in Refs
  PROVE  /\ Covered(state, 0, k, r)
              /\ (r \in state[k] \cup Joined(1)[k] /\ r \notin Left(1)[k] => r \in p[k])
              => Covered(p, 1, k, r)
         /\ Exact(state, 0, k, r)
              /\ (r \in p[k] <=> r \in state[k] \cup Joined(1)[k] /\ r \notin Left(1)[k])
              => Exact(p, 1, k, r)
<1>1. PICK n \in Nat : Len(queue) = n /\ n >= 1
  OBVIOUS
<1>2. Later(0) = 1..(n + 1) /\ Later(1) = 2..(n + 1)
  BY <1>1 DEF Later
<1>3. 1 \in Later(0) /\ \A i \in Later(1) : i \in Later(0) /\ i # 1 /\ ~(i <= 1)
  BY <1>1, <1>2
<1>4. \A i \in Later(0) : i # 1 => i \in Later(1)
  BY <1>2
<1>5. \A i \in Later(0) : 1 <= i
  BY <1>2
<1> HIDE DEF Later
<1>6. ASSUME Covered(state, 0, k, r),
             r \in state[k] \cup Joined(1)[k] /\ r \notin Left(1)[k] => r \in p[k]
      PROVE  Covered(p, 1, k, r)
  BY <1>3, <1>4, <1>6 DEF Covered
<1>7. ASSUME Exact(state, 0, k, r),
             r \in p[k] <=> r \in state[k] \cup Joined(1)[k] /\ r \notin Left(1)[k]
      PROVE  Exact(p, 1, k, r)
  <2>1. JoinsOnce(p, 1, k, r)
    BY <1>3, <1>7 DEF Exact, JoinsOnce
  <2>2. LeavesOnce(p, 1, k, r)
    <3>1. ASSUME NEW i \in Later(1), r \in Left(i)[k]
          PROVE  r \notin server[k] /\ (r \in p[k] \/ \E j \in Later(1) : j <= i /\ r \in Joined(j)[k])
      <4>1. r \notin Left(1)[k]
        BY <1>3, <1>7, <3>1 DEF Exact, LeavesOnce
      <4> QED
        BY <1>3, <1>4, <1>7, <3>1, <4>1 DEF Exact, LeavesOnce
    <3> QED
      BY <1>3, <1>7, <3>1 DEF Exact, LeavesOnce
  <2>3. EndsRight(p, 1, k, r)
    <3>1. r \in server[k] => r \in p[k] \/ \E i \in Later(1) : r \in Joined(i)[k]
      BY <1>3, <1>4, <1>7 DEF Exact, EndsRight, LeavesOnce
    <3>2. r \in p[k] /\ r \notin server[k] => \E i \in Later(1) : r \in Left(i)[k]
      BY <1>3, <1>4, <1>7 DEF Exact, EndsRight
    <3>3. ASSUME NEW i \in Later(1), r \in Joined(i)[k], r \notin server[k]
          PROVE  \E j \in Later(1) : i <= j /\ r \in Left(j)[k]
      <4>1. PICK j \in Later(0) : i <= j /\ r \in Left(j)[k]
        BY <1>3, <1>7, <3>3 DEF Exact, EndsRight
      <4>2. j # 1
        BY <1>3, <4>1
      <4> QED
        BY <1>4, <4>1, <4>2
    <3> QED
      BY <3>1, <3>2, <3>3 DEF EndsRight
  <2> QED
    BY <2>1, <2>2, <2>3 DEF Exact
<1> QED
  BY <1>6, <1>7

-----------------------------------------------------------------------------
(* A handler leaves at most the presences there were.                      *)
LEMMA HandlerFresh ==
  ASSUME Inv, queue # <<>>, queue' = Tail(queue), UNCHANGED table,
         \A k \in Keys, r \in Refs : r \in state'[k] => r \in used
  PROVE  Fresh'
<1>1. PICK n \in Nat : n = Len(queue')
  BY DEF Inv, TypeOK
<1>2. /\ DOMAIN queue = 1..(n + 1) /\ DOMAIN queue' = 1..n
      /\ \A i \in 1..n : queue'[i] = queue[i + 1] /\ i + 1 \in 1..(n + 1)
  BY <1>1, Moved DEF Inv, TypeOK
<1> QED
  BY <1>2 DEF Inv, Fresh, table

(* Who shows in a message was given a ref.                                 *)
LEMMA HeadFresh ==
  ASSUME Inv, queue # <<>>, NEW k \in Keys, NEW r \in Refs, r \notin used
  PROVE  /\ r \notin state[k]
         /\ Head(queue).kind = "state" => r \notin Head(queue).presences[k]
         /\ Head(queue).kind = "diff" => r \notin Head(queue).joins[k]
<1>1. 1 \in DOMAIN queue /\ Head(queue) = queue[1]
  BY DEF Inv, TypeOK
<1> QED
  BY <1>1 DEF Inv, Fresh

(* A snapshot that is still on the way was there before, one place below.  *)
LEMMA SnapshotMoved ==
  ASSUME Inv, queue # <<>>, queue' = Tail(queue), UNCHANGED <<table, channel, clean>>,
         NEW s \in 0..Len(queue'), s # 0, IsSnapshot(s)'
  PROVE  /\ IsSnapshot(s + 1) /\ s + 1 \in 0..Len(queue)
         /\ \A k \in Keys, r \in Refs :
              /\ Covered(Snapshot(s), s, k, r)'
              /\ clean => Exact(Snapshot(s), s, k, r)'
<1> USE DEF Inv, TypeOK
<1>1. PICK n \in Nat : n = Len(queue')
  OBVIOUS
<1>2. /\ Len(queue) = n + 1 /\ DOMAIN queue = 1..(n + 1) /\ DOMAIN queue' = 1..n
      /\ \A i \in 1..n : queue'[i] = queue[i + 1]
      /\ s \in 1..n /\ s + 1 \in 1..(n + 1) /\ s + 1 \in 0..(n + 1) /\ s + 1 # 0
  BY <1>1, Moved
<1>3. IsSnapshot(s + 1)
  BY <1>2 DEF IsSnapshot
<1>4. PICK p : p = Snapshot(s + 1)
  OBVIOUS
<1>5. Snapshot(s)' = p
  BY <1>2, <1>4 DEF Snapshot
<1>6. ASSUME NEW k \in Keys, NEW r \in Refs
      PROVE  Covered(p, s, k, r)' /\ (clean => Exact(p, s, k, r)')
  <2>1. Covered(p, s + 1, k, r) /\ (clean => Exact(p, s + 1, k, r))
    BY <1>2, <1>3, <1>4 DEF Consistent
  <2> QED
    BY <2>1, MovedUp
<1>7. ASSUME NEW k \in Keys, NEW r \in Refs
      PROVE  Covered(Snapshot(s), s, k, r)' /\ (clean => Exact(Snapshot(s), s, k, r)')
  BY <1>5, <1>6 DEF Covered, Exact, JoinsOnce, LeavesOnce, EndsRight
<1> QED
  BY <1>2, <1>3, <1>7

(* What the handlers preserve, if the replica they leave is a snapshot.    *)
LEMMA HandlerStep ==
  ASSUME Inv, TypeOK', queue # <<>>, queue' = Tail(queue), UNCHANGED <<table, channel, clean>>,
         \A k \in Keys, r \in Refs : r \in state'[k] => r \in used,
         synced' =>
           /\ IsSnapshot(0) \/ IsSnapshot(1)
           /\ \A k \in Keys, r \in Refs :
                /\ Covered(state', 1, k, r)
                /\ clean => Exact(state', 1, k, r)
  PROVE  Inv'
<1> USE DEF Inv
<1>1. Fresh'
  BY HandlerFresh
<1>2. GoneIsGone' /\ (channel = "away" => queue = <<>>)'
  BY DEF GoneIsGone, table
<1>3. PICK n \in Nat : n = Len(queue')
  BY DEF TypeOK
<1>4. /\ Len(queue) = n + 1 /\ DOMAIN queue = 1..(n + 1) /\ DOMAIN queue' = 1..n
      /\ \A i \in 1..n : queue'[i] = queue[i + 1]
  BY <1>3, Moved DEF TypeOK
<1>5. OneSnapshot'
  <2> SUFFICES ASSUME NEW s \in 0..n, IsSnapshot(s)'
               PROVE  channel = "joined" /\ \A i \in (s + 1)..n : queue'[i].kind = "diff"
    BY <1>3 DEF OneSnapshot
  <2>1. \E t \in 0..(n + 1) : t <= s + 1 /\ IsSnapshot(t)
    <3>1. CASE s = 0
      <4>1. synced'
        BY <1>4, <3>1 DEF IsSnapshot
      <4> QED
        BY <3>1, <4>1
    <3>2. CASE s # 0
      BY <1>3, <1>4, <3>2, SnapshotMoved
    <3> QED
      BY <3>1, <3>2
  <2>2. PICK t \in 0..(n + 1) : t <= s + 1 /\ IsSnapshot(t)
    BY <2>1
  <2>3. channel = "joined" /\ \A i \in (t + 1)..(n + 1) : queue[i].kind = "diff"
    BY <1>4, <2>2 DEF OneSnapshot
  <2>4. \A i \in (s + 1)..n : i \in 1..n /\ i + 1 \in (t + 1)..(n + 1)
    BY <2>2
  <2> QED
    BY <1>4, <2>3, <2>4
<1>6. Consistent'
  <2> SUFFICES ASSUME NEW s \in 0..n, IsSnapshot(s)', NEW k \in Keys, NEW r \in Refs
               PROVE  Covered(Snapshot(s), s, k, r)' /\ (clean => Exact(Snapshot(s), s, k, r)')
    BY <1>3 DEF Consistent
  <2>1. CASE s = 0
    <3>1. synced'
      BY <1>4, <2>1 DEF IsSnapshot
    <3>2. PICK p : p = state'
      OBVIOUS
    <3>3. Covered(p, 1, k, r) /\ (clean => Exact(p, 1, k, r))
      BY <3>1, <3>2
    <3>4. Covered(p, 0, k, r)' /\ (clean => Exact(p, 0, k, r)')
      <4>1. 0 \in 0..Len(queue') /\ 0 + 1 = 1 /\ queue \in Seq(Messages)
        BY <1>3 DEF TypeOK
      <4> QED
        BY <3>3, <4>1, MovedUp
    <3>5. Snapshot(s)' = p
      BY <2>1, <3>2 DEF Snapshot
    <3> QED
      BY <2>1, <3>4, <3>5 DEF Covered, Exact, JoinsOnce, LeavesOnce, EndsRight
  <2>2. CASE s # 0
    BY <1>3, <2>2, SnapshotMoved
  <2> QED
    BY <2>1, <2>2
<1> QED
  BY <1>1, <1>2, <1>5, <1>6

LEMMA OnStateEventStep ==
  ASSUME Inv, TypeOK', OnStateEvent
  PROVE  Inv'
<1> USE DEF Inv
<1>1. /\ queue # <<>> /\ Head(queue).kind = "state" /\ queue' = Tail(queue)
      /\ UNCHANGED <<table, channel, clean>>
  BY DEF OnStateEvent
<1>2. queue[1] = Head(queue) /\ 1 \in DOMAIN queue /\ 1 \in 0..Len(queue) /\ Head(queue) \in Messages
  BY <1>1 DEF TypeOK
<1>3. Head(queue).presences \in Presences
  BY <1>1, <1>2 DEF Messages
<1>4. state' = Head(queue).presences
  BY <1>3, SyncStateTakes DEF OnStateEvent, TypeOK
<1>5. IsSnapshot(1) /\ Snapshot(1) = state'
  BY <1>1, <1>2, <1>4 DEF IsSnapshot, Snapshot
<1>6. \A k \in Keys, r \in Refs : r \in state'[k] => r \in used
  BY <1>1, <1>4, HeadFresh
<1>7. \A k \in Keys, r \in Refs :
        Covered(Snapshot(1), 1, k, r) /\ (clean => Exact(Snapshot(1), 1, k, r))
  BY <1>2, <1>5 DEF Consistent
<1>8. \A k \in Keys, r \in Refs :
        Covered(state', 1, k, r) /\ (clean => Exact(state', 1, k, r))
  BY <1>5, <1>7
<1> QED
  BY <1>1, <1>5, <1>6, <1>8, HandlerStep

(* The loop over the leaves takes away no more than the diff says.         *)
LEMMA DiffTaken ==
  ASSUME NEW p \in Presences, NEW j \in Presences, NEW l \in Presences,
         NEW s \in SyncDiff(p, j, l), NEW k \in Keys
  PROVE  /\ s[k] \subseteq p[k] \cup j[k]
         /\ \A r \in p[k] \cup j[k] : r \notin l[k] => r \in s[k]
         /\ (\A q \in Keys : l[q] \subseteq p[q] \cup j[q]) => s[k] = (p[k] \cup j[k]) \ l[k]
<1> DEFINE present == Plus(p, j)
<1>1. PICK keys \in Reached(present, l) : s = Without(present, l, keys)
  BY DEF SyncDiff
<1>2. \A q \in Keys : present[q] = p[q] \cup j[q]
  BY DEF Plus
<1> HIDE DEF present
<1>3. s[k] = IF k \in keys THEN present[k] \ l[k] ELSE present[k]
  BY <1>1 DEF Without
<1>4. ASSUME \A q \in Keys : l[q] \subseteq p[q] \cup j[q]
      PROVE  s[k] = (p[k] \cup j[k]) \ l[k]
  <2>1. KeysOf(l) \subseteq KeysOf(present)
    BY <1>2, <1>4 DEF KeysOf
  <2>2. keys = KeysOf(l)
    BY <1>1, <2>1 DEF Reached
  <2> QED
    BY <1>2, <1>3, <2>2 DEF KeysOf
<1> QED
  BY <1>2, <1>3, <1>4

LEMMA OnDiffEventStep ==
  ASSUME Inv, TypeOK', OnDiffEvent
  PROVE  Inv'
<1> USE DEF Inv
<1>1. /\ queue # <<>> /\ Head(queue).kind = "diff" /\ queue' = Tail(queue)
      /\ UNCHANGED <<synced, table, channel, clean>>
      /\ queue \in Seq(Messages) /\ state \in Presences
  BY DEF OnDiffEvent, TypeOK
<1>2. PICK j \in Presences, l \in Presences : j = Head(queue).joins /\ l = Head(queue).leaves
  <2>1. Head(queue) \in Messages
    BY <1>1
  <2> QED
    BY <1>1, <2>1 DEF Messages
<1>3. state' \in SyncDiff(state, j, l)
  BY <1>2 DEF OnDiffEvent
<1>4. \A k \in Keys :
         /\ state'[k] \subseteq state[k] \cup j[k]
         /\ \A r \in state[k] \cup j[k] : r \notin l[k] => r \in state'[k]
         /\ (\A q \in Keys : l[q] \subseteq state[q] \cup j[q]) =>
              state'[k] = (state[k] \cup j[k]) \ l[k]
  BY <1>1, <1>3, DiffTaken
<1>5. \A k \in Keys, r \in Refs : r \in state'[k] => r \in used
  BY <1>1, <1>2, <1>4, HeadFresh
<1>6. Joined(1) = j /\ Left(1) = l
  BY <1>1, <1>2 DEF Joined, Left
<1>7. ASSUME synced'
      PROVE  /\ IsSnapshot(0)
             /\ \A k \in Keys, r \in Refs :
                  /\ Covered(state', 1, k, r)
                  /\ clean => Exact(state', 1, k, r)
  <2>1. IsSnapshot(0) /\ Snapshot(0) = state /\ 0 \in 0..Len(queue)
    BY <1>1, <1>7 DEF IsSnapshot, Snapshot
  <2>2. \A k \in Keys, r \in Refs :
          Covered(state, 0, k, r) /\ (clean => Exact(state, 0, k, r))
    BY <2>1 DEF Consistent
  <2>3. ASSUME NEW k \in Keys, NEW r \in Refs
        PROVE  Covered(state', 1, k, r)
    <3>1. r \in state[k] \cup Joined(1)[k] /\ r \notin Left(1)[k] => r \in state'[k]
      BY <1>4, <1>6
    <3> QED
      BY <1>1, <2>2, <3>1, TakenIn
  <2>4. ASSUME clean, NEW k \in Keys, NEW r \in Refs
        PROVE  Exact(state', 1, k, r)
    <3>1. ASSUME NEW q \in Keys, NEW x \in l[q]  PROVE x \in state[q] \cup j[q]
      <4>1. x \in Refs
        BY <1>2, <3>1 DEF Presences
      <4>2. 1 \in Later(0) /\ \A i \in Later(0) : i <= 1 => i = 1
        BY <1>1 DEF Later
      <4>3. LeavesOnce(state, 0, q, x)
        BY <2>2, <2>4, <4>1 DEF Exact
      <4> QED
        BY <1>6, <3>1, <4>2, <4>3 DEF LeavesOnce
    <3>2. state'[k] = (state[k] \cup j[k]) \ l[k]
      BY <1>4, <3>1
    <3>3. r \in state'[k] <=> r \in state[k] \cup Joined(1)[k] /\ r \notin Left(1)[k]
      BY <1>6, <3>2
    <3> QED
      BY <1>1, <2>2, <2>4, <3>3, TakenIn
  <2> QED
    BY <2>1, <2>3, <2>4
<1> QED
  BY <1>1, <1>5, <1>7, HandlerStep

-----------------------------------------------------------------------------
(* The server changes its table: what is on the way stays, and what is     *)
(* pending is the last of the changes.                                     *)
LEMMA Pending ==
  ASSUME queue \in Seq(Messages), queue' = queue, NEW n \in Nat, n = Len(queue), NEW s \in 0..n
  PROVE  /\ Later(s) = (s + 1)..(n + 1) /\ Later(s)' = Later(s) /\ n + 1 \in Later(s)
         /\ \A i \in Later(s) : i # n + 1 =>
              i \in 1..n /\ Joined(i)' = Joined(i) /\ Left(i)' = Left(i)
         /\ Joined(n + 1) = joins /\ Joined(n + 1)' = joins'
         /\ Left(n + 1) = leaves /\ Left(n + 1)' = leaves'
<1>1. Later(s) = (s + 1)..(n + 1) /\ Later(s)' = Later(s) /\ n + 1 \in Later(s)
  BY DEF Later
<1>2. \A i \in Later(s) : i # n + 1 => i \in 1..n /\ i <= n
  BY <1>1
<1>3. ~(n + 1 <= n)
  OBVIOUS
<1> QED
  BY <1>1, <1>2, <1>3 DEF Joined, Left

(* What does not concern a presence leaves its changes as they are.        *)
LEMMA Untouched ==
  ASSUME queue \in Seq(Messages), queue' = queue, NEW s \in 0..Len(queue),
         NEW p, NEW k \in Keys, NEW r \in Refs,
         r \in server'[k] <=> r \in server[k],
         r \in joins'[k] <=> r \in joins[k],
         r \in leaves'[k] <=> r \in leaves[k]
  PROVE  /\ Covered(p, s, k, r) => Covered(p, s, k, r)'
         /\ Exact(p, s, k, r) => Exact(p, s, k, r)'
<1>1. PICK n \in Nat : n = Len(queue)
  OBVIOUS
<1>2. \A i \in Later(s) : (r \in Joined(i)'[k] <=> r \in Joined(i)[k]) /\ (r \in Left(i)'[k] <=> r \in Left(i)[k])
  BY <1>1, Pending
<1>3. Later(s)' = Later(s)
  BY <1>1, Pending
<1>4. Covered(p, s, k, r) => Covered(p, s, k, r)'
  BY <1>2, <1>3 DEF Covered
<1>5. JoinsOnce(p, s, k, r) => JoinsOnce(p, s, k, r)'
  BY <1>2, <1>3 DEF JoinsOnce
<1>6. LeavesOnce(p, s, k, r) => LeavesOnce(p, s, k, r)'
  BY <1>2, <1>3 DEF LeavesOnce
<1>7. EndsRight(p, s, k, r) => EndsRight(p, s, k, r)'
  BY <1>2, <1>3 DEF EndsRight
<1> QED
  BY <1>4, <1>5, <1>6, <1>7 DEF Exact

(* A presence nobody heard of joins.                                       *)
LEMMA Newcomer ==
  ASSUME Inv, NEW k \in Keys, NEW r \in Refs, Track(k, r),
         NEW s \in 0..Len(queue), IsSnapshot(s), NEW p, p = Snapshot(s)
  PROVE  Covered(p, s, k, r)' /\ Exact(p, s, k, r)'
<1> USE DEF Inv
<1>1. queue \in Seq(Messages) /\ queue' = queue
  BY DEF TypeOK, Track
<1>2. PICK n \in Nat : n = Len(queue) /\ DOMAIN queue = 1..n
  BY <1>1
<1>3. r \in server'[k] /\ r \in joins'[k] /\ leaves' = leaves
  BY DEF Track, TypeOK, Presences
<1>4. r \notin p[k]
  BY DEF Track, Fresh, IsSnapshot, Snapshot
<1>5. r \notin used
  BY DEF Track
<1>6. ASSUME NEW i \in (s + 1)..n
      PROVE  r \notin Joined(i)[k] /\ r \notin Left(i)[k]
  <2>1. i \in 1..n /\ i <= n /\ queue[i].kind = "diff"
    BY <1>2 DEF OneSnapshot
  <2>2. r \notin queue[i].joins[k] /\ r \notin queue[i].leaves[k]
    BY <1>2, <1>5, <2>1 DEF Fresh
  <2> QED
    BY <1>2, <2>1, <2>2 DEF Joined, Left
<1>7. Later(s)' = (s + 1)..(n + 1) /\ n + 1 \in Later(s)'
  BY <1>1, <1>2, Pending
<1>8. ASSUME NEW i \in Later(s)'
      PROVE  (r \in Joined(i)'[k] <=> i = n + 1) /\ r \notin Left(i)'[k]
  <2>1. CASE i = n + 1
    <3>1. r \notin leaves[k]
      BY <1>5 DEF Fresh
    <3> QED
      BY <1>1, <1>2, <1>3, <2>1, <3>1, Pending
  <2>2. CASE i # n + 1
    <3>1. i \in (s + 1)..n
      BY <1>2, <1>7, <2>2
    <3>2. Joined(i)' = Joined(i) /\ Left(i)' = Left(i)
      BY <1>1, <1>2, <1>7, <2>2, Pending
    <3> QED
      BY <1>6, <2>2, <3>1, <3>2
  <2> QED
    BY <2>1, <2>2
<1> HIDE DEF Later
<1>9. Covered(p, s, k, r)'
  BY <1>3, <1>7, <1>8 DEF Covered
<1>10. JoinsOnce(p, s, k, r)' /\ LeavesOnce(p, s, k, r)' /\ EndsRight(p, s, k, r)'
  BY <1>3, <1>4, <1>7, <1>8 DEF JoinsOnce, LeavesOnce, EndsRight
<1> QED
  BY <1>9, <1>10 DEF Exact

(* A presence leaves that is known to the server.                          *)
LEMMA Leaver ==
  ASSUME queue \in Seq(Messages), NEW k \in Keys, NEW r \in Refs, Untrack(k, r),
         server \in Presences, leaves \in Presences,
         NEW s \in 0..Len(queue), NEW p
  PROVE  Covered(p, s, k, r)' /\ (Exact(p, s, k, r) => Exact(p, s, k, r)')
<1>1. queue' = queue /\ r \in server[k] /\ r \notin server'[k] /\ r \in leaves'[k] /\ joins' = joins
  BY DEF Untrack, Presences
<1>2. PICK n \in Nat : n = Len(queue)
  OBVIOUS
<1>3. /\ Later(s)' = Later(s) /\ n + 1 \in Later(s) /\ Later(s) = (s + 1)..(n + 1)
      /\ \A i \in Later(s) : Joined(i)' = Joined(i) /\ (i # n + 1 => Left(i)' = Left(i))
      /\ Left(n + 1)' = leaves'
  BY <1>1, <1>2, Pending
<1>4. \A i \in Later(s) : i <= n + 1
  BY <1>3
<1> HIDE DEF Later
<1>5. Covered(p, s, k, r)'
  BY <1>1 DEF Covered
<1>6. ASSUME Exact(p, s, k, r)
      PROVE  Exact(p, s, k, r)'
  <2>1. \A i \in Later(s) : r \notin Left(i)[k]
    BY <1>1, <1>6 DEF Exact, LeavesOnce
  <2>2. \A i \in Later(s) : r \in Left(i)'[k] <=> i = n + 1
    BY <1>1, <1>3, <2>1
  <2>3. JoinsOnce(p, s, k, r)'
    BY <1>3, <1>6 DEF Exact, JoinsOnce
  <2>4. r \in p[k] \/ \E j \in Later(s) : r \in Joined(j)[k]
    BY <1>1, <1>6 DEF Exact, EndsRight
  <2>5. LeavesOnce(p, s, k, r)'
    BY <1>1, <1>3, <1>4, <2>2, <2>4 DEF LeavesOnce
  <2>6. EndsRight(p, s, k, r)'
    BY <1>1, <1>3, <1>4, <2>2 DEF EndsRight
  <2> QED
    BY <2>3, <2>5, <2>6 DEF Exact
<1> QED
  BY <1>5, <1>6

(* The parts of the invariant when the server changes its table.           *)
LEMMA TableStep ==
  ASSUME Inv, TypeOK', UNCHANGED <<state, synced, channel, clean, queue>>,
         Fresh', GoneIsGone',
         \A s \in 0..Len(queue), k \in Keys, r \in Refs : \A p : IsSnapshot(s) /\ p = Snapshot(s) =>
           /\ Covered(p, s, k, r) => Covered(p, s, k, r)'
           /\ Exact(p, s, k, r) => Exact(p, s, k, r)'
  PROVE  Inv'
<1> USE DEF Inv
<1>1. OneSnapshot'
  BY DEF OneSnapshot, IsSnapshot
<1>2. Consistent'
  <2> SUFFICES ASSUME NEW s \in 0..Len(queue), IsSnapshot(s)', NEW k \in Keys, NEW r \in Refs
               PROVE  Covered(Snapshot(s), s, k, r)' /\ (clean => Exact(Snapshot(s), s, k, r)')
    BY DEF Consistent
  <2>1. IsSnapshot(s)
    BY DEF IsSnapshot
  <2>2. PICK p : p = Snapshot(s)
    OBVIOUS
  <2>3. Snapshot(s)' = p
    BY <2>2 DEF Snapshot
  <2>4. Covered(p, s, k, r)' /\ (clean => Exact(p, s, k, r)')
    BY <2>1, <2>2 DEF Consistent
  <2> QED
    BY <2>3, <2>4 DEF Covered, Exact, JoinsOnce, LeavesOnce, EndsRight
<1> QED
  BY <1>1, <1>2

LEMMA TrackStep ==
  ASSUME Inv, TypeOK', NEW k \in Keys, NEW r \in Refs, Track(k, r)
  PROVE  Inv'
<1> USE DEF Inv
<1>1. /\ UNCHANGED <<state, synced, leaves, channel, clean, queue>>
      /\ used' = used \cup {r} /\ r \notin used
  BY DEF Track
<1>2. /\ server \in Presences /\ joins \in Presences /\ queue \in Seq(Messages)
      /\ server' = [server EXCEPT ![k] = @ \cup {r}]
      /\ joins' = [joins EXCEPT ![k] = @ \cup {r}]
  BY DEF Track, TypeOK
<1>3. \A l \in Keys, q \in Refs : ~(l = k /\ q = r) =>
        (q \in server'[l] <=> q \in server[l]) /\ (q \in joins'[l] <=> q \in joins[l])
  BY <1>2 DEF Presences
<1>4. Fresh'
  BY <1>1, <1>3 DEF Fresh
<1>5. GoneIsGone'
  <2>1. r \notin leaves[k]
    BY <1>1 DEF Fresh
  <2> QED
    BY <1>1, <1>2, <2>1 DEF GoneIsGone, Presences
<1>6. ASSUME NEW s \in 0..Len(queue), NEW l \in Keys, NEW q \in Refs, NEW p,
             IsSnapshot(s), p = Snapshot(s)
      PROVE  /\ Covered(p, s, l, q) => Covered(p, s, l, q)'
             /\ Exact(p, s, l, q) => Exact(p, s, l, q)'
  <2>1. CASE l = k /\ q = r
    BY <1>6, <2>1, Newcomer
  <2>2. CASE ~(l = k /\ q = r)
    BY <1>1, <1>2, <1>3, <2>2, Untouched
  <2> QED
    BY <2>1, <2>2
<1> QED
  BY <1>1, <1>4, <1>5, <1>6, TableStep

LEMMA UntrackStep ==
  ASSUME Inv, TypeOK', NEW k \in Keys, NEW r \in Refs, Untrack(k, r)
  PROVE  Inv'
<1> USE DEF Inv
<1>1. UNCHANGED <<state, synced, used, joins, channel, clean, queue>>
  BY DEF Untrack
<1>2. /\ server \in Presences /\ leaves \in Presences /\ queue \in Seq(Messages)
      /\ server' = [server EXCEPT ![k] = @ \ {r}] /\ r \in server[k]
      /\ leaves' = [leaves EXCEPT ![k] = @ \cup {r}]
  BY DEF Untrack, TypeOK
<1>3. \A l \in Keys, q \in Refs : ~(l = k /\ q = r) =>
        (q \in server'[l] <=> q \in server[l]) /\ (q \in leaves'[l] <=> q \in leaves[l])
  BY <1>2 DEF Presences
<1>4. Fresh'
  <2>1. r \in used
    BY <1>2 DEF Fresh
  <2> QED
    BY <1>1, <1>3, <2>1 DEF Fresh
<1>5. GoneIsGone'
  BY <1>2 DEF GoneIsGone, Presences
<1>6. ASSUME NEW s \in 0..Len(queue), NEW l \in Keys, NEW q \in Refs, NEW p
      PROVE  /\ Covered(p, s, l, q) => Covered(p, s, l, q)'
             /\ Exact(p, s, l, q) => Exact(p, s, l, q)'
  <2>1. CASE l = k /\ q = r
    BY <1>2, <2>1, Leaver
  <2>2. CASE ~(l = k /\ q = r)
    BY <1>1, <1>2, <1>3, <2>2, Untouched
  <2> QED
    BY <2>1, <2>2
<1> QED
  BY <1>1, <1>4, <1>5, <1>6, TableStep

(* What is pending is put on the way, as the last of the changes.          *)
LEMMA Posted ==
  ASSUME queue \in Seq(Messages), joins \in Presences, leaves \in Presences,
         queue' = Append(queue, [kind |-> "diff", joins |-> joins, leaves |-> leaves]),
         joins' = Nobody, leaves' = Nobody, server' = server,
         NEW s \in 0..Len(queue), NEW p, NEW k \in Keys, NEW r \in Refs
  PROVE  /\ Covered(p, s, k, r) => Covered(p, s, k, r)'
         /\ Exact(p, s, k, r) => Exact(p, s, k, r)'
<1>1. PICK n \in Nat : n = Len(queue)
  OBVIOUS
<1> DEFINE diff == [kind |-> "diff", joins |-> joins, leaves |-> leaves]
<1>2. diff.joins = joins /\ diff.leaves = leaves /\ diff \in Messages
  BY DEF Messages
<1>3. /\ Len(queue') = n + 1 /\ \A i \in 1..n : queue'[i] = queue[i]
      /\ queue'[n + 1] = diff
  BY <1>1, <1>2, AppendProperties
<1>4. Later(s) = (s + 1)..(n + 1) /\ Later(s)' = (s + 1)..(n + 2)
  BY <1>1, <1>3 DEF Later
<1>5. ASSUME NEW i \in Later(s)
      PROVE  i \in Later(s)' /\ Joined(i)' = Joined(i) /\ Left(i)' = Left(i)
  <2>1. CASE i = n + 1
    BY <1>1, <1>2, <1>3, <1>4, <2>1 DEF Joined, Left
  <2>2. CASE i # n + 1
    <3>1. i \in 1..n /\ i <= n /\ i <= n + 1
      BY <1>4, <2>2
    <3> QED
      BY <1>1, <1>3, <1>4, <3>1 DEF Joined, Left
  <2> QED
    BY <2>1, <2>2
<1>6. ASSUME NEW i \in Later(s)', i \notin Later(s)
      PROVE  r \notin Joined(i)'[k] /\ r \notin Left(i)'[k]
  <2>1. i = n + 2 /\ ~(i <= n + 1)
    BY <1>4, <1>6
  <2> QED
    BY <1>3, <2>1 DEF Joined, Left, Nobody
<1> HIDE DEF Later, diff
<1>7. Covered(p, s, k, r) => Covered(p, s, k, r)'
  BY <1>5, <1>6 DEF Covered
<1>8. JoinsOnce(p, s, k, r) => JoinsOnce(p, s, k, r)'
  BY <1>5, <1>6 DEF JoinsOnce
<1>9. LeavesOnce(p, s, k, r) => LeavesOnce(p, s, k, r)'
  BY <1>5, <1>6 DEF LeavesOnce
<1>10. EndsRight(p, s, k, r) => EndsRight(p, s, k, r)'
  BY <1>5, <1>6 DEF EndsRight
<1> QED
  BY <1>7, <1>8, <1>9, <1>10 DEF Exact

(* What was a snapshot is one, when a diff comes after it.                 *)
LEMMA PublishStep ==
  ASSUME Inv, TypeOK', Publish
  PROVE  Inv'
<1> USE DEF Inv
<1>1. /\ joins' = Nobody /\ leaves' = Nobody
      /\ UNCHANGED <<state, synced, server, used, channel, clean>>
      /\ queue \in Seq(Messages) /\ joins \in Presences /\ leaves \in Presences
  BY DEF Publish, TypeOK
<1>2. GoneIsGone'
  BY <1>1 DEF GoneIsGone, Nobody
<1>3. CASE channel = "away"
  <2>1. queue' = queue
    BY <1>3 DEF Publish
  <2>2. Fresh'
    BY <1>1, <2>1 DEF Fresh, Nobody
  <2>3. \A s \in 0..Len(queue) : ~IsSnapshot(s) /\ ~IsSnapshot(s)'
    BY <1>1, <1>3, <2>1 DEF OneSnapshot, IsSnapshot
  <2>4. OneSnapshot' /\ Consistent'
    BY <2>1, <2>3 DEF OneSnapshot, Consistent
  <2> QED
    BY <1>1, <1>2, <2>1, <2>2, <2>4
<1>4. CASE channel # "away"
  <2> DEFINE diff == [kind |-> "diff", joins |-> joins, leaves |-> leaves]
  <2>1. queue' = Append(queue, diff)
    BY <1>4 DEF Publish
  <2>2. diff.kind = "diff" /\ diff.joins = joins /\ diff.leaves = leaves
    OBVIOUS
  <2>3. PICK n \in Nat : n = Len(queue) /\ DOMAIN queue = 1..n
    BY <1>1
  <2>4. /\ Len(queue') = n + 1 /\ DOMAIN queue' = 1..(n + 1)
        /\ \A i \in 1..n : queue'[i] = queue[i]
        /\ queue'[n + 1] = diff
    <3>1. diff \in Messages
      BY <1>1 DEF Messages
    <3> QED
      BY <1>1, <2>1, <2>3, <3>1, AppendProperties
  <2> HIDE DEF diff
  <2>5. Fresh'
    <3> SUFFICES ASSUME NEW r \in Refs \ used, NEW k \in Keys
                 PROVE  /\ r \notin state[k] /\ r \notin server[k]
                        /\ \A i \in 1..(n + 1) :
                             IF queue'[i].kind = "state" THEN r \notin queue'[i].presences[k]
                             ELSE r \notin queue'[i].joins[k] /\ r \notin queue'[i].leaves[k]
      BY <1>1, <2>4 DEF Fresh, Nobody
    <3>1. \A i \in 1..(n + 1) : i \in 1..n \/ i = n + 1
      OBVIOUS
    <3>2. \A i \in 1..n : IF queue[i].kind = "state" THEN r \notin queue[i].presences[k]
                          ELSE r \notin queue[i].joins[k] /\ r \notin queue[i].leaves[k]
      BY <2>3 DEF Fresh
    <3>3. r \notin joins[k] /\ r \notin leaves[k] /\ r \notin state[k] /\ r \notin server[k]
      BY DEF Fresh
    <3> QED
      BY <2>2, <2>4, <3>1, <3>2, <3>3
  <2>6. ASSUME NEW s \in 0..(n + 1), IsSnapshot(s)'
        PROVE  s \in 0..n /\ IsSnapshot(s) /\ Snapshot(s)' = Snapshot(s)
    <3>1. s # n + 1
      BY <2>2, <2>4, <2>6 DEF IsSnapshot
    <3>2. s \in 0..n /\ (s # 0 => s \in 1..n)
      BY <3>1
    <3> QED
      BY <1>1, <2>3, <2>4, <2>6, <3>2 DEF IsSnapshot, Snapshot
  <2>7. OneSnapshot'
    <3> SUFFICES ASSUME NEW s \in 0..(n + 1), IsSnapshot(s)', NEW i \in (s + 1)..(n + 1)
                 PROVE  channel = "joined" /\ queue'[i].kind = "diff"
      BY <1>1, <2>3, <2>4, <2>6 DEF OneSnapshot
    <3>1. s \in 0..n /\ channel = "joined" /\ \A j \in (s + 1)..n : queue[j].kind = "diff"
      BY <2>3, <2>6 DEF OneSnapshot
    <3>2. i = n + 1 \/ (i \in (s + 1)..n /\ i \in 1..n)
      BY <3>1
    <3> QED
      BY <2>2, <2>4, <3>1, <3>2
  <2>8. Consistent'
    <3> SUFFICES ASSUME NEW s \in 0..(n + 1), IsSnapshot(s)', NEW k \in Keys, NEW r \in Refs
                 PROVE  Covered(Snapshot(s), s, k, r)' /\ (clean => Exact(Snapshot(s), s, k, r)')
      BY <1>1, <2>4 DEF Consistent
    <3>1. s \in 0..Len(queue) /\ IsSnapshot(s) /\ Snapshot(s)' = Snapshot(s)
      BY <2>3, <2>6
    <3>2. PICK p : p = Snapshot(s)
      OBVIOUS
    <3>3. Covered(p, s, k, r) /\ (clean => Exact(p, s, k, r))
      BY <3>1, <3>2 DEF Consistent
    <3>4. Covered(p, s, k, r)' /\ (clean => Exact(p, s, k, r)')
      BY <1>1, <2>1, <3>1, <3>3, Posted DEF diff
    <3> QED
      BY <3>1, <3>2, <3>4 DEF Covered, Exact, JoinsOnce, LeavesOnce, EndsRight
  <2> QED
    BY <1>1, <1>2, <1>4, <2>5, <2>7, <2>8
<1> QED
  BY <1>3, <1>4

(* The table is sent: it is the snapshot, and what is pending its changes. *)
LEMMA SendStateStep ==
  ASSUME Inv, TypeOK', SendState
  PROVE  Inv'
<1> USE DEF Inv
<1> DEFINE message == [kind |-> "state", presences |-> server]
<1>1. /\ channel = "joining" /\ channel' = "joined"
      /\ clean' = (joins = Nobody /\ leaves = Nobody)
      /\ queue' = Append(queue, message)
      /\ UNCHANGED <<state, synced, server, used, joins, leaves>>
      /\ queue \in Seq(Messages) /\ server \in Presences
  BY DEF SendState, TypeOK, table
<1>2. message.kind = "state" /\ message.presences = server
  OBVIOUS
<1>3. PICK n \in Nat : n = Len(queue) /\ DOMAIN queue = 1..n
  BY <1>1
<1>4. /\ Len(queue') = n + 1 /\ DOMAIN queue' = 1..(n + 1)
      /\ \A i \in 1..n : queue'[i] = queue[i]
      /\ queue'[n + 1] = message
  <2>1. message \in Messages
    BY <1>1 DEF Messages
  <2> QED
    BY <1>1, <1>3, <2>1, AppendProperties
<1> HIDE DEF message
<1>5. Fresh'
  <2> SUFFICES ASSUME NEW r \in Refs \ used, NEW k \in Keys, NEW i \in 1..(n + 1)
               PROVE  IF queue'[i].kind = "state" THEN r \notin queue'[i].presences[k]
                      ELSE r \notin queue'[i].joins[k] /\ r \notin queue'[i].leaves[k]
    BY <1>1, <1>4 DEF Fresh
  <2>1. i \in 1..n \/ i = n + 1
    OBVIOUS
  <2>2. i \in 1..n => IF queue[i].kind = "state" THEN r \notin queue[i].presences[k]
                      ELSE r \notin queue[i].joins[k] /\ r \notin queue[i].leaves[k]
    BY <1>3 DEF Fresh
  <2>3. r \notin server[k]
    BY DEF Fresh
  <2> QED
    BY <1>2, <1>4, <2>1, <2>2, <2>3
<1>6. GoneIsGone' /\ (channel = "away" => queue = <<>>)'
  BY <1>1 DEF GoneIsGone
<1>7. ASSUME NEW s \in 0..(n + 1), IsSnapshot(s)'
      PROVE  s = n + 1
  <2>1. \A t \in 0..n : ~IsSnapshot(t)
    BY <1>1, <1>3 DEF OneSnapshot
  <2>2. s \in 0..n => (s = 0 \/ s \in 1..n)
    OBVIOUS
  <2>3. s \in 0..n \/ s = n + 1
    OBVIOUS
  <2> QED
    BY <1>1, <1>3, <1>4, <1>7, <2>1, <2>2, <2>3 DEF IsSnapshot
<1>8. OneSnapshot'
  BY <1>1, <1>4, <1>7 DEF OneSnapshot
<1>9. Consistent'
  <2> SUFFICES ASSUME NEW k \in Keys, NEW r \in Refs
               PROVE  Covered(Snapshot(n + 1), n + 1, k, r)' /\ (clean' => Exact(Snapshot(n + 1), n + 1, k, r)')
    BY <1>4, <1>7 DEF Consistent
  <2>1. Snapshot(n + 1)' = server /\ server' = server
    BY <1>1, <1>2, <1>4 DEF Snapshot
  <2>2. Later(n + 1)' = {n + 2}
    BY <1>4 DEF Later
  <2>3. Joined(n + 2)' = joins /\ Left(n + 2)' = leaves
    BY <1>1, <1>4 DEF Joined, Left
  <2>4. Covered(Snapshot(n + 1), n + 1, k, r)'
    BY <2>1, <2>2, <2>3 DEF Covered, GoneIsGone
  <2>5. ASSUME clean'
        PROVE  Exact(Snapshot(n + 1), n + 1, k, r)'
    <3>1. joins[k] = {} /\ leaves[k] = {}
      BY <1>1, <2>5 DEF Nobody
    <3> QED
      BY <2>1, <2>2, <2>3, <3>1 DEF Exact, JoinsOnce, LeavesOnce, EndsRight
  <2> QED
    BY <2>4, <2>5
<1> QED
  BY <1>5, <1>6, <1>8, <1>9

(* The channel joins, or is dropped.                                       *)
LEMMA ChannelStep ==
  ASSUME Inv, TypeOK', Join \/ Drop
  PROVE  Inv'
<1> USE DEF Inv
<1>1. /\ UNCHANGED <<state, server, used, joins, leaves, clean>>
      /\ queue' = <<>> /\ ~synced' /\ queue \in Seq(Messages)
  <2>1. CASE Join
    <3>1. queue = <<>> /\ 0 \in 0..Len(queue)
      BY <2>1 DEF Join, TypeOK
    <3>2. ~synced
      BY <2>1, <3>1 DEF Join, OneSnapshot, IsSnapshot
    <3> QED
      BY <2>1, <3>1, <3>2 DEF Join, TypeOK, table
  <2>2. CASE Drop
    BY <2>2 DEF Drop, TypeOK, table
  <2> QED
    BY <2>1, <2>2
<1>2. Fresh' /\ GoneIsGone'
  BY <1>1 DEF Fresh, GoneIsGone
<1>3. \A s \in 0..Len(queue') : ~IsSnapshot(s)'
  BY <1>1 DEF IsSnapshot
<1>4. OneSnapshot' /\ Consistent'
  BY <1>3 DEF OneSnapshot, Consistent
<1> QED
  BY <1>1, <1>2, <1>4

LEMMA InvInit == Init => Inv
<1> SUFFICES ASSUME Init  PROVE Inv
  OBVIOUS
<1>1. TypeOK
  BY Initially
<1>2. Fresh /\ GoneIsGone
  BY DEF Init, Fresh, GoneIsGone, Nobody
<1>3. \A s \in 0..Len(queue) : ~IsSnapshot(s)
  BY DEF Init, IsSnapshot
<1>4. OneSnapshot /\ Consistent
  BY <1>3 DEF OneSnapshot, Consistent
<1> QED
  BY <1>1, <1>2, <1>4 DEF Inv, Init

LEMMA InvStep == Inv /\ [Next]_vars => Inv'
<1> SUFFICES ASSUME Inv, [Next]_vars  PROVE Inv'
  OBVIOUS
<1>0. TypeOK'
  BY TypeStep DEF Inv
<1>1. CASE OnStateEvent
  BY <1>0, <1>1, OnStateEventStep
<1>2. CASE OnDiffEvent
  BY <1>0, <1>2, OnDiffEventStep
<1>3. ASSUME NEW k \in Keys, NEW r \in Refs, Track(k, r)  PROVE Inv'
  BY <1>0, <1>3, TrackStep
<1>4. ASSUME NEW k \in Keys, NEW r \in Refs, Untrack(k, r)  PROVE Inv'
  BY <1>0, <1>4, UntrackStep
<1>5. CASE Publish
  BY <1>0, <1>5, PublishStep
<1>6. CASE SendState
  BY <1>0, <1>6, SendStateStep
<1>7. CASE Join \/ Drop
  BY <1>0, <1>7, ChannelStep
<1>8. CASE UNCHANGED vars
  BY <1>0, <1>8 DEF vars, Inv, Fresh, GoneIsGone, OneSnapshot, Consistent, IsSnapshot, Snapshot,
     Covered, Exact, JoinsOnce, LeavesOnce, EndsRight, Later, Joined, Left
<1> QED
  BY <1>1, <1>2, <1>3, <1>4, <1>5, <1>6, <1>7, <1>8 DEF Next

(* In every reachable state the changes on the way and those that are      *)
(* pending turn every snapshot into the server's table.                    *)
THEOREM InvHolds == Spec => []Inv
BY InvInit, InvStep, PTL DEF Spec

(* Once the table was received and nothing is on its way, only what is     *)
(* pending lies between the replica and the server.                        *)
LEMMA OnlyPending ==
  ASSUME Inv, UpToDate, NEW k \in Keys, NEW r \in Refs
  PROVE  /\ r \in server[k] => r \in state[k] \/ r \in joins[k]
         /\ clean =>
              /\ r \in state[k] => r \notin joins[k]
              /\ r \in leaves[k] => r \in state[k] \/ r \in joins[k]
              /\ r \in state[k] /\ r \notin server[k] => r \in leaves[k]
<1>1. queue = <<>> /\ IsSnapshot(0) /\ Snapshot(0) = state
  BY DEF UpToDate, IsSnapshot, Snapshot
<1>2. Len(queue) = 0
  BY <1>1
<1>3. Later(0) = {1} /\ Joined(1) = joins /\ Left(1) = leaves /\ 0 \in 0..Len(queue)
  BY <1>2 DEF Later, Joined, Left
<1>4. Covered(state, 0, k, r) /\ (clean => Exact(state, 0, k, r))
  BY <1>1, <1>3 DEF Inv, Consistent
<1>5. r \in server[k] => r \in state[k] \/ r \in joins[k]
  BY <1>3, <1>4 DEF Covered
<1>6. clean => (r \in state[k] => r \notin joins[k])
  BY <1>3, <1>4 DEF Exact, JoinsOnce
<1>7. clean => (r \in leaves[k] => r \in state[k] \/ r \in joins[k])
  BY <1>3, <1>4 DEF Exact, LeavesOnce
<1>8. clean => (r \in state[k] /\ r \notin server[k] => r \in leaves[k])
  BY <1>3, <1>4 DEF Exact, EndsRight
<1> QED
  BY <1>5, <1>6, <1>7, <1>8

(* Once the table was received and nothing is on its way, the replica      *)
(* misses no presence that was published (presence.py, _sync_state and     *)
(* _sync_diff).                                                            *)
THEOREM NobodyIsMissed == Spec => []NoneIsMissing
<1>1. Inv => NoneIsMissing
  <2> SUFFICES ASSUME Inv, UpToDate, NEW k \in Keys, NEW r \in server[k], r \notin joins[k]
               PROVE  r \in state[k]
    BY DEF NoneIsMissing
  <2>1. r \in Refs
    BY DEF Inv, TypeOK, Presences
  <2> QED
    BY <2>1, OnlyPending
<1> QED
  BY <1>1, InvHolds, PTL

(* If no change was pending when the table was sent, the replica then is   *)
(* the published table, and nothing else (presence.py, _sync_diff).        *)
THEOREM ReplicaIsTable == Spec => []InSync
<1>1. Inv => InSync
  <2> SUFFICES ASSUME Inv, UpToDate, clean
               PROVE  state = Published
    BY DEF InSync
  <2>1. TypeOK /\ GoneIsGone
    BY DEF Inv
  <2>2. ASSUME NEW k \in Keys
        PROVE  state[k] = Published[k]
    <3>1. Published[k] = (server[k] \cup leaves[k]) \ joins[k]
      BY DEF Published, Plus, Minus
    <3>2. state[k] \subseteq Refs /\ server[k] \subseteq Refs /\ leaves[k] \subseteq Refs
      BY <2>1 DEF TypeOK, Presences
    <3>3. ASSUME NEW r \in Refs  PROVE r \in state[k] <=> r \in Published[k]
      BY <3>1, OnlyPending
    <3> QED
      BY <3>1, <3>2, <3>3
  <2>3. state = [k \in Keys |-> state[k]] /\ Published = [k \in Keys |-> Published[k]]
    BY <2>1 DEF TypeOK, Presences, Published, Minus
  <2> QED
    BY <2>2, <2>3
<1> QED
  BY <1>1, InvHolds, PTL

(* Nobody is told to join who is present already, nor to leave who is not  *)
(* (presence.py 69-76, 105-106, 124-125).                                  *)
THEOREM OnlyNewsIsTold == Spec => []NewsOnly
<1>1. Inv => NewsOnly
  <2> SUFFICES ASSUME Inv, queue # <<>>, Head(queue).kind = "state" \/ (synced /\ clean),
                      NEW k \in Keys
               PROVE  LET told == Told(state, Head(queue))
                      IN  /\ told.joined[k] \cap state[k] = {}
                          /\ told.left[k] \subseteq state[k] \cup told.joined[k]
    BY DEF NewsOnly
  <2>1. queue \in Seq(Messages) /\ Head(queue) = queue[1] /\ Head(queue) \in Messages /\ 1 <= Len(queue)
    BY DEF Inv, TypeOK
  <2>2. CASE Head(queue).kind = "state"
    <3>1. /\ Told(state, Head(queue)).joined = Minus(Head(queue).presences, state)
          /\ Told(state, Head(queue)).left = Minus(state, Head(queue).presences)
      BY <2>2 DEF Told, StateJoins, StateLeaves
    <3> QED
      BY <3>1 DEF Minus
  <2>3. CASE Head(queue).kind # "state"
    <3>1. Told(state, Head(queue)).joined = Joined(1) /\ Told(state, Head(queue)).left = Left(1)
      BY <2>1, <2>3 DEF Told, Joined, Left
    <3>2. IsSnapshot(0) /\ Snapshot(0) = state /\ 0 \in 0..Len(queue)
      BY <2>1, <2>3 DEF IsSnapshot, Snapshot
    <3>3. \A r \in Refs : Exact(state, 0, k, r)
      BY <2>3, <3>2 DEF Inv, Consistent
    <3>4. 1 \in Later(0) /\ \A j \in Later(0) : j <= 1 => j = 1
      BY <2>1 DEF Later
    <3>5. Joined(1)[k] \subseteq Refs /\ Left(1)[k] \subseteq Refs
      BY <2>1, <2>3 DEF Joined, Left, Messages, Presences
    <3>6. ASSUME NEW r \in Refs
          PROVE  /\ r \in Joined(1)[k] => r \notin state[k]
                 /\ r \in Left(1)[k] => r \in state[k] \/ r \in Joined(1)[k]
      BY <3>3, <3>4 DEF Exact, JoinsOnce, LeavesOnce
    <3> QED
      BY <3>1, <3>5, <3>6
  <2> QED
    BY <2>2, <2>3
<1> QED
  BY <1>1, InvHolds, PTL
=============================================================================
