--------------------------- MODULE BindingsProofs ---------------------------
(***************************************************************************)
(* Proofs about Bindings: over errors, timeouts and rejoins the ids of the *)
(* callbacks are those the server serves their filters by, when the        *)
(* changes that name them arrive.                                          *)
(*                                                                         *)
(* Every answer gives new ids, so what a change means depends on when it   *)
(* was told.  The invariant says for each message on the way which ids     *)
(* will be in force when it is handled: those of the last answer before    *)
(* it, or those the callbacks have if there is none.                       *)
(***************************************************************************)
EXTENDS Bindings, SequenceTheorems, TLAPS

Callbacks == [filter : Filters, id : Ids \cup {0}]

Answers == [kind : {"ok"}, bindings : Seq(Bindings)]
Messages == Answers \cup [kind : {"change"}, change : Changes]
                    \cup [kind : {"error", "left"}]

WellTyped ==
  /\ callbacks \in Seq(Callbacks)
  /\ Len(callbacks) <= MaxCallbacks
  /\ payload \in Seq(Filters)
  /\ state \in {"closed", "joining", "joined", "errored", "leaving", "removed"}
  /\ unsubscribing \in BOOLEAN
  /\ told \in {"nothing", "SUBSCRIBED", "CHANNEL_ERROR", "TIMED_OUT"}
  /\ joins \in 0..MaxJoins
  /\ toServer \in Seq({"join", "leave"})
  /\ toClient \in Seq(Messages)
  /\ serving \in [Filters -> Ids \cup {0}]

(* Before subscribe() nothing was sent and no callback has an id.          *)
ClosedIsQuiet ==
  state = "closed" =>
    /\ payload = <<>> /\ toServer = <<>> /\ toClient = <<>>
    /\ ~unsubscribing /\ told = "nothing"
    /\ serving = [f \in Filters |-> 0]

(* The callbacks begin with those the join asked for; the others, which    *)
(* came later, have no id.                                                 *)
AskedFirst ==
  /\ Len(payload) <= Len(callbacks)
  /\ \A i \in DOMAIN payload : callbacks[i].filter = payload[i]
  /\ \A i \in DOMAIN callbacks : i > Len(payload) => callbacks[i].id = 0

(* An answer has one binding for each filter asked for.                    *)
Answered ==
  \A k \in DOMAIN toClient : toClient[k].kind = "ok" =>
    LET bindings == toClient[k].bindings
    IN  /\ Len(bindings) = Len(payload)
        /\ \A i \in DOMAIN payload : bindings[i].filter = payload[i]

(* Message j is the last answer among the first k messages on the way.     *)
IsAnswer(j) == toClient[j].kind = "ok"
LastAnswer(j, k) ==
  /\ j \in 1..k /\ IsAnswer(j)
  /\ \A m \in (j + 1)..k : ~IsAnswer(m)
NoAnswer(k) == \A m \in 1..k : ~IsAnswer(m)

(* bound has the id of a filter asked for exactly in the changes it hears. *)
Agrees(bound, change) ==
  \A i \in DOMAIN payload :
    /\ bound[i].id # 0
    /\ bound[i].id \in change.ids <=> Matches(payload[i], change)

(* A change on the way agrees with the ids in force when it is handled.    *)
ChangesAgree ==
  \A k \in DOMAIN toClient : toClient[k].kind = "change" =>
    /\ \A j \in 1..k : LastAnswer(j, k) => Agrees(toClient[j].bindings, toClient[k].change)
    /\ NoAnswer(k) /\ state # "removed" => Agrees(callbacks, toClient[k].change)

(* bound has the ids by which the server serves.                           *)
Bound(bound) == \A i \in DOMAIN payload : bound[i].id = serving[payload[i]]

Serves == \E f \in Filters : serving[f] # 0

(* While the server serves, it serves what was asked for, by different     *)
(* ids, and these are in force when all messages on the way are handled.   *)
ServedAgree ==
  Serves =>
    /\ \A f \in Filters : serving[f] # 0 <=> f \in ToSet(payload)
    /\ \A f, g \in Filters : serving[f] # 0 /\ serving[f] = serving[g] => f = g
    /\ \A j \in DOMAIN toClient : LastAnswer(j, Len(toClient)) => Bound(toClient[j].bindings)
    /\ NoAnswer(Len(toClient)) /\ state # "removed" => Bound(callbacks)

Inv ==
  /\ WellTyped
  /\ ClosedIsQuiet
  /\ AskedFirst
  /\ Answered
  /\ ChangesAgree
  /\ ServedAgree
  /\ MismatchIsLate

-----------------------------------------------------------------------------
(* What is used of the bounds and of the ids.                              *)
LEMMA ConstantTypes ==
  /\ MaxCallbacks \in Nat /\ MaxJoins \in Nat /\ MaxQueue \in Nat
  /\ 0 \notin Ids
BY BindingsAssumption

(* What the values of the invariant imply for TypeOK, which speaks of the  *)
(* elements of the sequences only.                                         *)
LEMMA WellTypedIsTypeOK == WellTyped => TypeOK
<1> SUFFICES ASSUME WellTyped  PROVE TypeOK
  OBVIOUS
<1> USE DEF WellTyped, ToSet
<1>1. ToSet(callbacks) \subseteq Callbacks
  OBVIOUS
<1>2. ToSet(payload) \subseteq Filters
  OBVIOUS
<1>3. ToSet(toServer) \subseteq {"join", "leave"}
  OBVIOUS
<1>4. ASSUME NEW i \in DOMAIN toClient
      PROVE  CASE toClient[i].kind = "ok"     -> ToSet(toClient[i].bindings) \subseteq Bindings
               [] toClient[i].kind = "change" -> toClient[i].change \in Changes
               [] OTHER                       -> toClient[i].kind \in {"error", "left"}
  <2>1. toClient[i] \in Messages
    OBVIOUS
  <2>2. CASE toClient[i] \in Answers
    <3>1. toClient[i].kind = "ok" /\ toClient[i].bindings \in Seq(Bindings)
      BY <2>2 DEF Answers
    <3>2. ToSet(toClient[i].bindings) \subseteq Bindings
      BY <3>1
    <3> QED
      BY <3>1, <3>2
  <2>3. CASE toClient[i] \notin Answers
    BY <2>1, <2>3 DEF Messages
  <2> QED
    BY <2>2, <2>3
<1>5. /\ Len(callbacks) <= MaxCallbacks
      /\ state \in {"closed", "joining", "joined", "errored", "leaving", "removed"}
      /\ unsubscribing \in BOOLEAN
      /\ told \in {"nothing", "SUBSCRIBED", "CHANNEL_ERROR", "TIMED_OUT"}
      /\ joins \in 0..MaxJoins
      /\ serving \in [Filters -> Ids \cup {0}]
  OBVIOUS
<1> QED
  BY <1>1, <1>2, <1>3, <1>4, <1>5, Zenon DEF TypeOK, Callbacks

LEMMA Initially == Init => Inv
<1> SUFFICES ASSUME Init  PROVE Inv
  OBVIOUS
<1> USE ConstantTypes DEF Init
<1>1. WellTyped
  <2>1. callbacks \in Seq(Callbacks) /\ payload \in Seq(Filters) /\ Len(callbacks) = 0
    BY EmptySeq
  <2>2. toServer \in Seq({"join", "leave"}) /\ toClient \in Seq(Messages)
    BY EmptySeq
  <2>3. serving \in [Filters -> Ids \cup {0}] /\ unsubscribing \in BOOLEAN
    OBVIOUS
  <2> QED
    BY <2>1, <2>2, <2>3 DEF WellTyped
<1>2. ClosedIsQuiet /\ AskedFirst /\ Answered /\ ChangesAgree /\ ServedAgree /\ MismatchIsLate
  BY DEF ClosedIsQuiet, AskedFirst, Answered, ChangesAgree, ServedAgree, Serves, MismatchIsLate
<1> QED
  BY <1>1, <1>2 DEF Inv

-----------------------------------------------------------------------------
(* A step that leaves the messages, the serving and the ids of the         *)
(* callbacks asked for as they are keeps the epochs in order.              *)
LEMMA Frame ==
  ASSUME Inv,
         UNCHANGED <<payload, toClient, serving>>,
         \A i \in DOMAIN payload : callbacks'[i].id = callbacks[i].id,
         state' # "removed" => state # "removed"
  PROVE  Answered' /\ ChangesAgree' /\ ServedAgree'
<1> USE DEF Inv
<1>1. Answered'
  BY DEF Answered
<1>2. ChangesAgree'
  BY DEF ChangesAgree, Agrees, LastAnswer, NoAnswer, IsAnswer
<1>3. ServedAgree'
  BY DEF ServedAgree, Serves, Bound, LastAnswer, NoAnswer, IsAnswer
<1> QED
  BY <1>1, <1>2, <1>3

LEMMA OnPostgresChangesStep ==
  ASSUME Inv, NEW f \in Filters, OnPostgresChanges(f)
  PROVE  Inv'
<1> USE DEF Inv, OnPostgresChanges
<1> DEFINE callback == [filter |-> f, id |-> 0]
<1>1. callback \in Callbacks
  BY DEF Callbacks
<1>2. callbacks \in Seq(Callbacks) /\ Len(callbacks) < MaxCallbacks
  BY DEF WellTyped
<1>3. /\ Len(callbacks') = Len(callbacks) + 1
      /\ \A i \in DOMAIN callbacks : callbacks'[i] = callbacks[i]
      /\ callbacks'[Len(callbacks) + 1].id = 0
      /\ callbacks' \in Seq(Callbacks)
  BY <1>1, <1>2, AppendProperties
<1>4. WellTyped'
  BY <1>2, <1>3, ConstantTypes DEF WellTyped
<1>5. payload \in Seq(Filters) /\ DOMAIN payload \subseteq DOMAIN callbacks
  BY <1>2 DEF WellTyped, AskedFirst
<1>6. ClosedIsQuiet' /\ MismatchIsLate'
  BY <1>2, <1>3, <1>5 DEF ClosedIsQuiet, MismatchIsLate
<1>7. AskedFirst'
  BY <1>2, <1>3, <1>5 DEF AskedFirst
<1>8. Answered' /\ ChangesAgree' /\ ServedAgree'
  BY <1>3, <1>5, Frame
<1> QED
  BY <1>4, <1>6, <1>7, <1>8

LEMMA SubscribeStep ==
  ASSUME Inv, Subscribe
  PROVE  Inv'
<1> USE DEF Inv, Subscribe, SendJoin
<1>1. callbacks \in Seq(Callbacks)
  BY DEF WellTyped
<1>2. /\ payload' \in Seq(Filters)
      /\ Len(payload') = Len(callbacks)
      /\ \A i \in DOMAIN callbacks : payload'[i] = callbacks[i].filter
  <2>1. \A i \in 1..Len(callbacks) : callbacks[i].filter \in Filters
    <3>1. \A i \in 1..Len(callbacks) : callbacks[i] \in Callbacks
      BY <1>1
    <3> QED
      BY <3>1 DEF Callbacks
  <2>2. payload' = [i \in 1..Len(callbacks) |-> callbacks[i].filter]
    BY <1>1
  <2>3. Len(callbacks) \in Nat
    BY <1>1
  <2> QED
    BY <2>1, <2>2, <2>3
<1>3. toClient = <<>> /\ serving = [f \in Filters |-> 0] /\ told = "nothing"
  BY DEF ClosedIsQuiet
<1>4. toServer' \in Seq({"join", "leave"})
  BY AppendProperties DEF WellTyped
<1>5. WellTyped'
  BY <1>2, <1>4, ConstantTypes DEF WellTyped
<1>6. ClosedIsQuiet' /\ MismatchIsLate'
  BY <1>3 DEF ClosedIsQuiet, MismatchIsLate
<1>7. AskedFirst'
  BY <1>1, <1>2 DEF AskedFirst
<1>8. Answered' /\ ChangesAgree' /\ ServedAgree'
  BY <1>3 DEF Answered, ChangesAgree, ServedAgree, Serves
<1> QED
  BY <1>5, <1>6, <1>7, <1>8

(* The steps of the channel that concern neither callbacks nor messages    *)
(* from the server.                                                        *)
LEMMA ChannelStep ==
  ASSUME Inv, JoinTimeout \/ Rejoin \/ Unsubscribe
  PROVE  Inv'
<1> USE DEF Inv
<1>1. UNCHANGED <<callbacks, payload, toClient, serving>>
  BY DEF JoinTimeout, Rejoin, Unsubscribe
<1>2. state' # "removed" => state # "removed"
  BY DEF JoinTimeout, Rejoin, SendJoin, Unsubscribe
<1>3. Append(toServer, "join") \in Seq({"join", "leave"}) /\ Append(toServer, "leave") \in Seq({"join", "leave"})
  BY AppendProperties DEF WellTyped
<1>4. WellTyped'
  <2> USE <1>1 DEF WellTyped
  <2>1. CASE JoinTimeout
    BY <2>1 DEF JoinTimeout
  <2>2. CASE Rejoin
    BY <2>2, <1>3, ConstantTypes DEF Rejoin, SendJoin
  <2>3. CASE Unsubscribe
    BY <2>3, <1>3 DEF Unsubscribe
  <2> QED
    BY <2>1, <2>2, <2>3
<1>5. state # "closed" /\ state' # "closed"
  BY DEF JoinTimeout, Rejoin, SendJoin, Unsubscribe, ClosedIsQuiet
<1>6. told' \in {told, "TIMED_OUT"}
  BY DEF JoinTimeout, Rejoin, Unsubscribe
<1>7. ClosedIsQuiet' /\ AskedFirst' /\ MismatchIsLate'
  BY <1>1, <1>5, <1>6 DEF ClosedIsQuiet, AskedFirst, MismatchIsLate
<1>8. Answered' /\ ChangesAgree' /\ ServedAgree'
  BY <1>1, <1>2, Frame
<1> QED
  BY <1>4, <1>7, <1>8

-----------------------------------------------------------------------------
(* The channel handles the first message.                                  *)
LEMMA Behead ==
  ASSUME toClient \in Seq(Messages), toClient # <<>>, toClient' = Tail(toClient)
  PROVE  /\ Len(toClient) \in Nat \ {0}
         /\ toClient' \in Seq(Messages)
         /\ Len(toClient') = Len(toClient) - 1
         /\ \A k \in 1..Len(toClient') : toClient'[k] = toClient[k + 1]
OBVIOUS

(* The message handled first is no answer: the ids in force stay.  It is   *)
(* one: the callbacks take its ids.                                        *)
LEMMA HandledFrame ==
  ASSUME Inv, toClient # <<>>, toClient' = Tail(toClient), UNCHANGED <<payload, serving>>,
         state' # "removed" =>
           /\ state # "removed"
           /\ IsAnswer(1) => \A i \in DOMAIN payload :
                               callbacks'[i].id = toClient[1].bindings[i].id
           /\ ~IsAnswer(1) => \A i \in DOMAIN payload : callbacks'[i].id = callbacks[i].id
  PROVE  Answered' /\ ChangesAgree' /\ ServedAgree'
<1> USE DEF Inv
<1>1. PICK n \in Nat :
      /\ Len(toClient) = n + 1 /\ Len(toClient') = n
      /\ DOMAIN toClient' = 1..n /\ DOMAIN toClient = 1..(n + 1)
      /\ \A k \in 1..n : toClient'[k] = toClient[k + 1]
  <2>1. toClient \in Seq(Messages)
    BY DEF WellTyped
  <2>2. /\ Len(toClient') \in Nat /\ Len(toClient) = Len(toClient') + 1
        /\ DOMAIN toClient' = 1..Len(toClient') /\ DOMAIN toClient = 1..Len(toClient)
        /\ \A k \in 1..Len(toClient') : toClient'[k] = toClient[k + 1]
    BY <2>1
  <2> QED
    BY <2>2
<1>2. Answered'
  BY <1>1 DEF Answered
<1>3. ASSUME NEW k \in 0..n, NEW j \in 1..k, LastAnswer(j, k)'
      PROVE  LastAnswer(j + 1, k + 1)
  <2>1. IsAnswer(j + 1)
    BY <1>1, <1>3 DEF LastAnswer, IsAnswer
  <2>2. ASSUME NEW m \in (j + 2)..(k + 1)  PROVE ~IsAnswer(m)
    <3>1. m - 1 \in (j + 1)..k /\ m - 1 \in 1..n /\ (m - 1) + 1 = m
      BY <1>1
    <3> QED
      BY <1>1, <1>3, <3>1 DEF LastAnswer, IsAnswer
  <2> QED
    BY <1>1, <2>1, <2>2 DEF LastAnswer
<1>4. ASSUME NEW k \in 0..n, NoAnswer(k)'
      PROVE  \A m \in 2..(k + 1) : ~IsAnswer(m)
  <2> SUFFICES ASSUME NEW m \in 2..(k + 1)  PROVE ~IsAnswer(m)
    OBVIOUS
  <2>1. m - 1 \in 1..k /\ m - 1 \in 1..n /\ (m - 1) + 1 = m
    BY <1>1
  <2> QED
    BY <1>1, <1>4, <2>1 DEF NoAnswer, IsAnswer
<1>5. ASSUME NEW k \in 0..n, NoAnswer(k)'
      PROVE  IF IsAnswer(1) THEN LastAnswer(1, k + 1) ELSE NoAnswer(k + 1)
  <2>1. \A m \in 1..(k + 1) : m = 1 \/ m \in 2..(k + 1)
    BY <1>1
  <2>2. \A m \in 2..(k + 1) : ~IsAnswer(m)
    BY <1>4, <1>5
  <2>3. 1 \in 1..(k + 1) /\ 1 + 1 = 2
    OBVIOUS
  <2>4. CASE IsAnswer(1)
    BY <2>2, <2>3, <2>4, Zenon DEF LastAnswer
  <2>5. CASE ~IsAnswer(1)
    BY <2>1, <2>2, <2>5, Zenon DEF NoAnswer
  <2> QED
    BY <2>4, <2>5
<1>6. ChangesAgree'
  <2> SUFFICES ASSUME NEW k \in 1..n, toClient'[k].kind = "change"
               PROVE  /\ \A j \in 1..k : LastAnswer(j, k)' =>
                           Agrees(toClient[j + 1].bindings, toClient[k + 1].change)
                      /\ (NoAnswer(k) /\ state # "removed")' =>
                           Agrees(callbacks', toClient[k + 1].change)
    BY <1>1 DEF ChangesAgree, Agrees
  <2>1. toClient[k + 1].kind = "change" /\ k + 1 \in DOMAIN toClient
    BY <1>1
  <2>2. ASSUME NEW j \in 1..k, LastAnswer(j, k)'
        PROVE  Agrees(toClient[j + 1].bindings, toClient[k + 1].change)
    <3>1. LastAnswer(j + 1, k + 1) /\ k + 1 \in DOMAIN toClient
      BY <1>3, <2>1, <2>2
    <3>2. j + 1 \in 1..(k + 1)
      BY <1>1
    <3> QED
      BY <2>1, <3>1, <3>2 DEF ChangesAgree
  <2>3. ASSUME NoAnswer(k)', state' # "removed"
        PROVE  Agrees(callbacks', toClient[k + 1].change)
    <3>1. CASE IsAnswer(1)
      <4>1. Agrees(toClient[1].bindings, toClient[k + 1].change)
        BY <1>1, <1>5, <2>1, <2>3, <3>1 DEF ChangesAgree
      <4> QED
        BY <2>3, <3>1, <4>1 DEF Agrees
    <3>2. CASE ~IsAnswer(1)
      <4>1. Agrees(callbacks, toClient[k + 1].change)
        BY <1>1, <1>5, <2>1, <2>3, <3>2 DEF ChangesAgree
      <4> QED
        BY <2>3, <3>2, <4>1 DEF Agrees
    <3> QED
      BY <3>1, <3>2
  <2> QED
    BY <2>2, <2>3
<1>7. ServedAgree'
  <2> SUFFICES ASSUME Serves
               PROVE  /\ \A f \in Filters : serving[f] # 0 <=> f \in ToSet(payload)
                      /\ \A f, g \in Filters : serving[f] # 0 /\ serving[f] = serving[g] => f = g
                      /\ \A j \in 1..n : LastAnswer(j, n)' => Bound(toClient[j + 1].bindings)
                      /\ (NoAnswer(n) /\ state # "removed")' => Bound(callbacks')
    BY <1>1 DEF ServedAgree, Serves, Bound
  <2>0. n \in 0..n /\ n + 1 \in 1..(n + 1)
    BY <1>1
  <2>1. ASSUME NEW j \in 1..n, LastAnswer(j, n)'
        PROVE  Bound(toClient[j + 1].bindings)
    <3>1. LastAnswer(j + 1, n + 1) /\ j + 1 \in 1..(n + 1)
      BY <1>1, <1>3, <2>0, <2>1
    <3> QED
      BY <1>1, <3>1 DEF ServedAgree
  <2>2. ASSUME NoAnswer(n)', state' # "removed"
        PROVE  Bound(callbacks')
    <3>1. CASE IsAnswer(1)
      <4>1. LastAnswer(1, n + 1) /\ 1 \in 1..(n + 1)
        BY <1>1, <1>5, <2>0, <2>2, <3>1
      <4>2. Bound(toClient[1].bindings)
        BY <1>1, <4>1 DEF ServedAgree
      <4> QED
        BY <2>2, <3>1, <4>2 DEF Bound
    <3>2. CASE ~IsAnswer(1)
      <4>1. NoAnswer(n + 1)
        BY <1>5, <2>0, <2>2, <3>2
      <4>2. Bound(callbacks)
        BY <1>1, <2>2, <4>1 DEF ServedAgree
      <4> QED
        BY <2>2, <3>2, <4>2 DEF Bound
    <3> QED
      BY <3>1, <3>2
  <2> QED
    BY <2>1, <2>2 DEF ServedAgree
<1> QED
  BY <1>2, <1>6, <1>7

-----------------------------------------------------------------------------
(* The server sends a message.  What is in force before it stays so.       *)
LEMMA Told ==
  ASSUME toClient \in Seq(Messages), NEW message \in Messages,
         toClient' = Append(toClient, message),
         NEW n \in Nat, n = Len(toClient)
  PROVE  /\ toClient' \in Seq(Messages)
         /\ Len(toClient') = n + 1 /\ DOMAIN toClient' = 1..(n + 1) /\ DOMAIN toClient = 1..n
         /\ \A k \in 1..n : toClient'[k] = toClient[k]
         /\ toClient'[n + 1] = message
         /\ \A k \in 0..n : \A j \in 1..k : LastAnswer(j, k)' => LastAnswer(j, k)
         /\ \A k \in 0..n : NoAnswer(k)' => NoAnswer(k)
         /\ message.kind = "ok" =>
              ~NoAnswer(n + 1)' /\ \A j \in 1..(n + 1) : LastAnswer(j, n + 1)' => j = n + 1
         /\ message.kind # "ok" =>
              /\ NoAnswer(n + 1)' => NoAnswer(n)
              /\ \A j \in 1..(n + 1) : LastAnswer(j, n + 1)' => j \in 1..n /\ LastAnswer(j, n)
<1>1. /\ toClient' \in Seq(Messages)
      /\ Len(toClient') = n + 1 /\ DOMAIN toClient' = 1..(n + 1) /\ DOMAIN toClient = 1..n
      /\ \A k \in 1..n : toClient'[k] = toClient[k]
      /\ toClient'[n + 1] = message
  BY AppendProperties
<1>2. \A k \in 1..n : IsAnswer(k)' <=> IsAnswer(k)
  BY <1>1 DEF IsAnswer
<1>3. IsAnswer(n + 1)' <=> message.kind = "ok"
  BY <1>1 DEF IsAnswer
<1>4. ASSUME NEW k \in 0..n, NEW j \in 1..k, LastAnswer(j, k)'
      PROVE  LastAnswer(j, k)
  BY <1>2, <1>4 DEF LastAnswer
<1>5. ASSUME NEW k \in 0..n, NoAnswer(k)'
      PROVE  NoAnswer(k)
  BY <1>2, <1>5 DEF NoAnswer
<1>6. ASSUME message.kind = "ok"
      PROVE  ~NoAnswer(n + 1)' /\ \A j \in 1..(n + 1) : LastAnswer(j, n + 1)' => j = n + 1
  BY <1>3, <1>6 DEF NoAnswer, LastAnswer
<1>7. ASSUME message.kind # "ok"
      PROVE  /\ NoAnswer(n + 1)' => NoAnswer(n)
             /\ \A j \in 1..(n + 1) : LastAnswer(j, n + 1)' => j \in 1..n /\ LastAnswer(j, n)
  <2>1. ASSUME NoAnswer(n + 1)'  PROVE NoAnswer(n)
    BY <1>2, <2>1 DEF NoAnswer
  <2>2. ASSUME NEW j \in 1..(n + 1), LastAnswer(j, n + 1)'  PROVE j \in 1..n /\ LastAnswer(j, n)
    <3>1. j # n + 1
      BY <1>3, <1>7, <2>2 DEF LastAnswer
    <3>2. j \in 1..n
      BY <3>1
    <3> QED
      BY <1>2, <2>2, <3>2 DEF LastAnswer
  <2> QED
    BY <2>1, <2>2
<1> QED
  BY <1>1, <1>4, <1>5, <1>6, <1>7

(* The epochs stay in order if an answer has what the server serves from   *)
(* then on, and a change what it serves already.                           *)
LEMMA ToldFrame ==
  ASSUME Inv, NEW message \in Messages,
         toClient' = Append(toClient, message),
         UNCHANGED <<callbacks, payload, state>>,
         message.kind = "ok" =>
           /\ Len(message.bindings) = Len(payload)
           /\ \A i \in DOMAIN payload : message.bindings[i].filter = payload[i]
           /\ \A f \in Filters : serving'[f] # 0 <=> f \in ToSet(payload)
           /\ \A f, g \in Filters : serving'[f] # 0 /\ serving'[f] = serving'[g] => f = g
           /\ \A i \in DOMAIN payload : message.bindings[i].id = serving'[payload[i]],
         message.kind = "change" =>
           /\ Serves /\ serving' = serving
           /\ \A i \in DOMAIN payload :
                /\ serving[payload[i]] # 0
                /\ serving[payload[i]] \in message.change.ids <=> Matches(payload[i], message.change),
         message.kind \in {"error", "left"} => ~Serves'
  PROVE  Answered' /\ ChangesAgree' /\ ServedAgree'
<1> USE DEF Inv
<1>1. PICK n \in Nat : n = Len(toClient)
  BY DEF WellTyped
<1>2. toClient \in Seq(Messages)
  BY DEF WellTyped
<1>3. /\ DOMAIN toClient' = 1..(n + 1) /\ DOMAIN toClient = 1..n
      /\ Len(toClient') = n + 1
      /\ \A k \in 1..n : toClient'[k] = toClient[k]
      /\ toClient'[n + 1] = message
      /\ \A k \in 0..n : \A j \in 1..k : LastAnswer(j, k)' => LastAnswer(j, k)
      /\ \A k \in 0..n : NoAnswer(k)' => NoAnswer(k)
  BY <1>1, <1>2, Told
<1>4. message.kind = "ok" =>
        ~NoAnswer(n + 1)' /\ \A j \in 1..(n + 1) : LastAnswer(j, n + 1)' => j = n + 1
  BY <1>1, <1>2, Told
<1>5. message.kind # "ok" =>
        /\ NoAnswer(n + 1)' => NoAnswer(n)
        /\ \A j \in 1..(n + 1) : LastAnswer(j, n + 1)' => j \in 1..n /\ LastAnswer(j, n)
  BY <1>1, <1>2, Told
<1>6. Answered'
  <2> SUFFICES ASSUME NEW k \in 1..(n + 1), toClient'[k].kind = "ok"
               PROVE  /\ Len(toClient'[k].bindings) = Len(payload)
                      /\ \A i \in DOMAIN payload : toClient'[k].bindings[i].filter = payload[i]
    BY <1>3 DEF Answered
  <2>1. CASE k = n + 1
    BY <1>3, <2>1
  <2>2. CASE k # n + 1
    <3>1. k \in 1..n /\ k \in DOMAIN toClient
      BY <1>3, <2>2
    <3> QED
      BY <1>3, <3>1 DEF Answered
  <2> QED
    BY <2>1, <2>2
<1>7. ChangesAgree'
  <2> SUFFICES ASSUME NEW k \in 1..(n + 1), toClient'[k].kind = "change"
               PROVE  /\ \A j \in 1..k : LastAnswer(j, k)' =>
                           Agrees(toClient'[j].bindings, toClient'[k].change)
                      /\ (NoAnswer(k) /\ state # "removed")' =>
                           Agrees(callbacks, toClient'[k].change)
    BY <1>3 DEF ChangesAgree, Agrees
  <2>1. CASE k = n + 1
    <3>1. message.kind = "change" /\ ServedAgree /\ Serves
      BY <1>3, <2>1
    <3>2. ASSUME NEW bound, Bound(bound)  PROVE Agrees(bound, message.change)
      BY <3>1, <3>2 DEF Bound, Agrees
    <3>3. ASSUME NEW j \in 1..(n + 1), LastAnswer(j, n + 1)'
          PROVE  Agrees(toClient'[j].bindings, message.change)
      <4>1. j \in 1..n /\ LastAnswer(j, n)
        BY <1>5, <3>1, <3>3
      <4>2. Bound(toClient[j].bindings)
        BY <1>1, <1>3, <3>1, <4>1 DEF ServedAgree
      <4> QED
        BY <1>3, <3>2, <4>1, <4>2
    <3>4. ASSUME NoAnswer(n + 1)', state # "removed"
          PROVE  Agrees(callbacks, message.change)
      <4>1. Bound(callbacks)
        BY <1>1, <1>5, <3>1, <3>4 DEF ServedAgree
      <4> QED
        BY <3>2, <4>1
    <3> QED
      BY <1>3, <2>1, <3>3, <3>4
  <2>2. CASE k # n + 1
    <3>1. k \in 1..n /\ k \in 0..n /\ k \in DOMAIN toClient /\ toClient'[k] = toClient[k]
      BY <1>3, <2>2
    <3>2. \A j \in 1..k : j \in 1..n /\ toClient'[j] = toClient[j]
      BY <1>3, <3>1
    <3>3. /\ \A j \in 1..k : LastAnswer(j, k) => Agrees(toClient[j].bindings, toClient[k].change)
          /\ NoAnswer(k) /\ state # "removed" => Agrees(callbacks, toClient[k].change)
      BY <3>1 DEF ChangesAgree
    <3> QED
      BY <1>3, <3>1, <3>2, <3>3
  <2> QED
    BY <2>1, <2>2
<1>8. ServedAgree'
  <2> SUFFICES ASSUME Serves'
               PROVE  ServedAgree'
    BY DEF ServedAgree
  <2>1. message.kind \in {"ok", "change", "error", "left"}
    BY DEF Messages, Answers
  <2>2. CASE message.kind = "ok"
    BY <1>3, <1>4, <2>2 DEF ServedAgree, Bound
  <2>3. CASE message.kind = "change"
    <3>1. serving' = serving /\ Serves
      BY <2>3
    <3>2. \A j \in 1..(n + 1) : LastAnswer(j, n + 1)' => Bound(toClient'[j].bindings)
      BY <1>1, <1>3, <1>5, <2>3, <3>1 DEF ServedAgree
    <3>3. (NoAnswer(n + 1) /\ state # "removed")' => Bound(callbacks)
      BY <1>1, <1>5, <2>3, <3>1 DEF ServedAgree
    <3>4. /\ \A f \in Filters : serving[f] # 0 <=> f \in ToSet(payload)
          /\ \A f, g \in Filters : serving[f] # 0 /\ serving[f] = serving[g] => f = g
      BY <3>1 DEF ServedAgree
    <3> QED
      BY <1>3, <3>1, <3>2, <3>3, <3>4 DEF ServedAgree, Bound
  <2> QED
    BY <2>1, <2>2, <2>3
<1> QED
  BY <1>6, <1>7, <1>8

(* What a server's message leaves of the other conjuncts.                  *)
LEMMA ServerFrame ==
  ASSUME Inv, toServer' \in Seq({"join", "leave"}), toClient' \in Seq(Messages),
         serving' \in [Filters -> Ids \cup {0}], state # "closed",
         UNCHANGED <<callbacks, payload, state, unsubscribing, told, joins>>
  PROVE  WellTyped' /\ ClosedIsQuiet' /\ AskedFirst' /\ MismatchIsLate'
<1> USE DEF Inv
<1>1. WellTyped'
  BY DEF WellTyped
<1>2. ClosedIsQuiet' /\ AskedFirst' /\ MismatchIsLate'
  BY DEF ClosedIsQuiet, AskedFirst, MismatchIsLate
<1> QED
  BY <1>1, <1>2

LEMMA ServerJoinStep ==
  ASSUME Inv, ServerJoin
  PROVE  Inv'
<1> USE DEF Inv
<1>1. PICK ids \in [Filters -> Ids] :
        /\ IsInjective(ids)
        /\ serving' = [f \in Filters |-> IF f \in ToSet(payload) THEN ids[f] ELSE 0]
        /\ toClient' = Append(toClient, [kind |-> "ok",
             bindings |-> [i \in DOMAIN payload |->
                             [filter |-> payload[i], id |-> ids[payload[i]]]]])
  BY DEF ServerJoin
<1>2. /\ toServer # <<>> /\ toServer' = Tail(toServer)
      /\ UNCHANGED <<callbacks, payload, state, unsubscribing, told, joins>>
  BY DEF ServerJoin
<1>3. /\ payload \in Seq(Filters) /\ toClient \in Seq(Messages)
      /\ toServer \in Seq({"join", "leave"})
  BY DEF WellTyped
<1>4. state # "closed"
  BY <1>2 DEF ClosedIsQuiet
<1> DEFINE bindings == [i \in DOMAIN payload |-> [filter |-> payload[i], id |-> ids[payload[i]]]]
           message == [kind |-> "ok", bindings |-> bindings]
<1>5. Len(payload) \in Nat /\ DOMAIN payload = 1..Len(payload) /\ \A i \in DOMAIN payload : payload[i] \in Filters
  BY <1>3
<1>6. bindings \in Seq(Bindings) /\ Len(bindings) = Len(payload)
  <2>1. \A i \in 1..Len(payload) : [filter |-> payload[i], id |-> ids[payload[i]]] \in Bindings
    BY <1>5 DEF Bindings
  <2>2. bindings \in [1..Len(payload) -> Bindings]
    BY <1>5, <2>1
  <2> QED
    BY <1>5, <2>2
<1>7. message \in Messages
  BY <1>6 DEF Messages, Answers
<1>8. \A i \in DOMAIN payload : bindings[i].filter = payload[i] /\ bindings[i].id = ids[payload[i]]
  OBVIOUS
<1>9. \A i \in DOMAIN payload : payload[i] \in ToSet(payload)
  BY DEF ToSet
<1>10. \A f \in Filters : serving'[f] # 0 <=> f \in ToSet(payload)
  BY <1>1, ConstantTypes
<1>11. \A f, g \in Filters : serving'[f] # 0 /\ serving'[f] = serving'[g] => f = g
  BY <1>1, <1>10 DEF IsInjective
<1>12. \A i \in DOMAIN payload : bindings[i].id = serving'[payload[i]]
  BY <1>1, <1>5, <1>8, <1>9
<1>13. toClient' = Append(toClient, message)
  BY <1>1
<1>14. serving' \in [Filters -> Ids \cup {0}]
  BY <1>1
<1>15. message.kind = "ok" /\ message.bindings = bindings
  OBVIOUS
<1> HIDE DEF bindings, message
<1>16. Answered' /\ ChangesAgree' /\ ServedAgree'
  BY <1>2, <1>6, <1>7, <1>8, <1>10, <1>11, <1>12, <1>13, <1>15, ToldFrame
<1>17. toServer' \in Seq({"join", "leave"}) /\ toClient' \in Seq(Messages)
  BY <1>2, <1>3, <1>7, <1>13, AppendProperties
<1> QED
  BY <1>2, <1>4, <1>14, <1>16, <1>17, ServerFrame

(* The server stops serving: the channel left, or its subscription crashed. *)
LEMMA ServerStopsStep ==
  ASSUME Inv, ServerLeave \/ ServerError
  PROVE  Inv'
<1> USE DEF Inv
<1>1. PICK message \in [kind : {"error", "left"}] : Tell(message, [f \in Filters |-> 0])
  BY DEF ServerLeave, ServerError
<1>2. /\ toServer' = toServer \/ (toServer # <<>> /\ toServer' = Tail(toServer))
      /\ UNCHANGED <<callbacks, payload, state, unsubscribing, told, joins>>
  BY DEF ServerLeave, ServerError
<1>3. state # "closed"
  BY DEF ServerLeave, ServerError, ClosedIsQuiet
<1>4. message \in Messages /\ message.kind \in {"error", "left"}
  BY DEF Messages
<1>5. toClient' = Append(toClient, message) /\ serving' = [f \in Filters |-> 0]
  BY <1>1 DEF Tell
<1>6. ~Serves'
  BY <1>5 DEF Serves
<1>7. Answered' /\ ChangesAgree' /\ ServedAgree'
  BY <1>2, <1>4, <1>5, <1>6, ToldFrame
<1>8. toClient' \in Seq(Messages) /\ serving' \in [Filters -> Ids \cup {0}]
  BY <1>4, <1>5, AppendProperties DEF WellTyped
<1>9. toServer' \in Seq({"join", "leave"})
  <2>1. toServer \in Seq({"join", "leave"})
    BY DEF WellTyped
  <2> QED
    BY <1>2, <2>1
<1> QED
  BY <1>2, <1>3, <1>7, <1>8, <1>9, ServerFrame

(* A change names the ids of the filters it matches, and no other id: two  *)
(* filters the server serves have different ones.                          *)
LEMMA ServerChangeStep ==
  ASSUME Inv, NEW type \in Types, NEW table \in Tables, ServerChange(type, table)
  PROVE  Inv'
<1> USE DEF Inv
<1> DEFINE bare == [type |-> type, table |-> table, ids |-> {}]
           ids == {serving[f] : f \in {g \in Filters : serving[g] # 0 /\ Matches(g, bare)}}
           change == [type |-> type, table |-> table, ids |-> ids]
           message == [kind |-> "change", change |-> change]
<1>1. ids # {} /\ UNCHANGED <<callbacks, payload, state, unsubscribing, told, joins, toServer>>
  BY DEF ServerChange
<1>2. toClient' = Append(toClient, message) /\ serving' = serving
  <2>1. [bare EXCEPT !.ids = ids] = change
    <3> HIDE DEF ids
    <3> QED
      OBVIOUS
  <2> QED
    BY <2>1 DEF ServerChange, Tell
<1>3. serving \in [Filters -> Ids \cup {0}] /\ payload \in Seq(Filters) /\ toClient \in Seq(Messages)
  BY DEF WellTyped
<1>4. ids \in SUBSET Ids
  BY <1>3
<1>5. message \in Messages
  BY <1>4 DEF Messages, Changes
<1>6. Serves
  BY <1>1 DEF Serves
<1>7. \A f \in Filters : Matches(f, change) <=> Matches(f, bare)
  BY DEF Matches
<1>8. ASSUME NEW i \in DOMAIN payload
      PROVE  /\ serving[payload[i]] # 0
             /\ serving[payload[i]] \in change.ids <=> Matches(payload[i], change)
  <2>1. payload[i] \in Filters /\ payload[i] \in ToSet(payload)
    BY <1>3 DEF ToSet
  <2>2. serving[payload[i]] # 0
    BY <1>6, <2>1 DEF ServedAgree
  <2>3. \A g \in Filters : serving[payload[i]] = serving[g] => payload[i] = g
    BY <1>6, <2>1, <2>2 DEF ServedAgree
  <2>4. serving[payload[i]] \in ids <=> Matches(payload[i], bare)
    BY <2>1, <2>2, <2>3
  <2>5. change.ids = ids
    OBVIOUS
  <2> QED
    BY <1>7, <2>1, <2>2, <2>4, <2>5
<1>9. message.kind = "change" /\ message.change = change
  OBVIOUS
<1>10. state # "closed"
  BY <1>3, <1>6 DEF ClosedIsQuiet, Serves
<1> HIDE DEF bare, ids, change, message
<1>11. Answered' /\ ChangesAgree' /\ ServedAgree'
  BY <1>1, <1>2, <1>5, <1>6, <1>8, <1>9, ToldFrame
<1>12. toClient' \in Seq(Messages) /\ toServer' \in Seq({"join", "leave"})
  BY <1>1, <1>2, <1>3, <1>5, AppendProperties DEF WellTyped
<1> QED
  BY <1>1, <1>2, <1>3, <1>10, <1>11, <1>12, ServerFrame

-----------------------------------------------------------------------------
(* An answer to a join matches the callbacks that were asked for: the      *)
(* first that fails, if any does, is one that was registered later.  All   *)
(* those asked for get their ids from it.                                  *)
LEMMA AnswerBinds ==
  ASSUME Inv, NEW bindings \in Seq(Bindings), JoinOk(bindings),
         Len(bindings) = Len(payload),
         \A i \in DOMAIN payload : bindings[i].filter = payload[i]
  PROVE  /\ callbacks' \in Seq(Callbacks) /\ Len(callbacks') <= Len(callbacks)
         /\ Len(payload) <= Len(callbacks')
         /\ \A i \in DOMAIN payload :
              callbacks'[i].filter = payload[i] /\ callbacks'[i].id = bindings[i].id
         /\ \A i \in DOMAIN callbacks' : i > Len(payload) => callbacks'[i].id = 0
         /\ told' = "SUBSCRIBED" => \A i \in DOMAIN callbacks' : callbacks'[i].id # 0
         /\ told' = "CHANNEL_ERROR" => Len(callbacks') > Len(payload)
         /\ told' \in {"SUBSCRIBED", "CHANNEL_ERROR"} /\ unsubscribing' \in BOOLEAN
         /\ state' = "joined"
<1> USE DEF Inv
<1> DEFINE failing == {i \in DOMAIN callbacks : ~Confirms(bindings, i)}
<1>1. /\ callbacks \in Seq(Callbacks) /\ payload \in Seq(Filters)
      /\ unsubscribing \in BOOLEAN
  BY DEF WellTyped
<1>2. PICK n \in Nat, p \in Nat :
        /\ n = Len(callbacks) /\ DOMAIN callbacks = 1..n
        /\ p = Len(payload) /\ DOMAIN payload = 1..p
        /\ p = Len(bindings) /\ DOMAIN bindings = 1..p
        /\ p <= n
  BY <1>1 DEF AskedFirst
<1>3. \A i \in 1..n : callbacks[i] \in Callbacks
  BY <1>1, <1>2
<1>4. \A i \in 1..p : bindings[i] \in Bindings /\ i \in 1..n
  BY <1>2
<1>5. /\ \A i \in 1..p : callbacks[i].filter = payload[i] /\ bindings[i].filter = payload[i]
      /\ \A i \in 1..n : i > p => callbacks[i].id = 0
  BY <1>2 DEF AskedFirst
<1>6. failing = (p + 1)..n
  <2>1. \A i \in 1..n : Confirms(bindings, i) <=> i <= p
    BY <1>2, <1>4, <1>5 DEF Confirms
  <2> QED
    BY <1>2, <2>1
<1>7. ASSUME NEW i \in 1..n
      PROVE  /\ WithId(bindings, i) \in Callbacks
             /\ WithId(bindings, i).filter = callbacks[i].filter
             /\ i <= p => WithId(bindings, i).id = bindings[i].id
             /\ i > p => WithId(bindings, i) = callbacks[i]
  <2>1. callbacks[i] \in Callbacks
    BY <1>3
  <2>2. CASE i <= p
    <3>1. bindings[i].id \in Ids \cup {0}
      BY <1>4, <2>2 DEF Bindings
    <3>2. WithId(bindings, i) = [callbacks[i] EXCEPT !.id = bindings[i].id]
      BY <1>2, <2>2 DEF WithId
    <3> QED
      BY <2>1, <2>2, <3>1, <3>2 DEF Callbacks
  <2>3. CASE i > p
    <3>1. WithId(bindings, i) = callbacks[i]
      BY <1>2, <2>3 DEF WithId
    <3> QED
      BY <2>1, <2>3, <3>1
  <2> QED
    BY <1>2, <2>2, <2>3
<1>8. state' = "joined"
  BY DEF JoinOk
<1>9. CASE bindings = <<>>
  <2>1. callbacks' = <<>> /\ told' = "SUBSCRIBED" /\ unsubscribing' = unsubscribing
    BY <1>9 DEF JoinOk, Confirmed
  <2>2. p = 0
    BY <1>2, <1>9
  <2> QED
    BY <1>1, <1>2, <1>8, <2>1, <2>2
<1>10. CASE bindings # <<>> /\ failing = {}
  <2>1. /\ callbacks' = [i \in 1..n |-> WithId(bindings, i)]
        /\ told' = "SUBSCRIBED" /\ unsubscribing' = unsubscribing
    BY <1>2, <1>10 DEF JoinOk, Confirmed
  <2>2. n = p
    <3>1. (p + 1)..n = {}
      BY <1>6, <1>10, Zenon
    <3>2. n > p => n \in (p + 1)..n
      BY <1>2
    <3>3. n \in Nat /\ p \in Nat /\ p <= n
      BY <1>2
    <3>4. ~(n > p)
      BY <3>1, <3>2, Zenon
    <3> QED
      BY <3>3, <3>4
  <2>3. \A i \in 1..n : callbacks'[i] = WithId(bindings, i)
    BY <2>1
  <2>4. callbacks' \in [1..n -> Callbacks]
    BY <1>7, <2>1
  <2>5. callbacks' \in Seq(Callbacks) /\ Len(callbacks') = n /\ DOMAIN callbacks' = 1..n
    BY <2>4
  <2>6. \A i \in 1..n : callbacks'[i].id # 0
    <3>1. \A i \in 1..p : bindings[i].id # 0
      BY <1>4, ConstantTypes DEF Bindings
    <3> QED
      BY <1>7, <2>2, <2>3, <3>1
  <2>7. \A i \in 1..p : callbacks'[i].filter = payload[i] /\ callbacks'[i].id = bindings[i].id
    BY <1>4, <1>5, <1>7, <2>3
  <2> QED
    BY <1>1, <1>2, <1>8, <2>1, <2>2, <2>5, <2>6, <2>7
<1>11. CASE bindings # <<>> /\ failing # {}
  <2>1. /\ callbacks' = [i \in DOMAIN callbacks |->
                           IF \A j \in failing : i < j THEN WithId(bindings, i)
                                                       ELSE callbacks[i]]
        /\ told' = "CHANNEL_ERROR" /\ unsubscribing' = TRUE
    BY <1>11 DEF JoinOk
  <2>2. n > p
    BY <1>2, <1>6, <1>11
  <2>3. \A i \in 1..n : (\A j \in failing : i < j) <=> i <= p
    <3>1. p + 1 \in failing
      BY <1>2, <1>6, <2>2
    <3> QED
      BY <1>6, <3>1
  <2> HIDE DEF failing
  <2>4. \A i \in 1..n : callbacks'[i] = WithId(bindings, i)
    BY <1>2, <1>7, <2>1, <2>3
  <2>5. callbacks' \in [1..n -> Callbacks]
    BY <1>2, <1>3, <1>7, <2>1
  <2>6. callbacks' \in Seq(Callbacks) /\ Len(callbacks') = n /\ DOMAIN callbacks' = 1..n
    BY <2>5
  <2>7. \A i \in 1..p : callbacks'[i].filter = payload[i] /\ callbacks'[i].id = bindings[i].id
    BY <1>4, <1>5, <1>7, <2>4
  <2>8. \A i \in 1..n : i > p => callbacks'[i].id = 0
    BY <1>5, <1>7, <2>4
  <2>9. told' # "SUBSCRIBED" /\ told' \in {"SUBSCRIBED", "CHANNEL_ERROR"} /\ unsubscribing' \in BOOLEAN
    BY <2>1
  <2> QED
    BY <1>2, <1>8, <2>2, <2>6, <2>7, <2>8, <2>9
<1> QED
  BY <1>9, <1>10, <1>11

(* What the channel's handling of a message needs for the invariant.       *)
LEMMA HandledStep ==
  ASSUME Inv, toClient # <<>>, toClient' = Tail(toClient),
         UNCHANGED <<payload, joins, toServer, serving>>,
         callbacks' \in Seq(Callbacks), Len(callbacks') <= Len(callbacks),
         state' \in {"joining", "joined", "errored", "leaving", "removed"},
         unsubscribing' \in BOOLEAN, told' \in {told, "SUBSCRIBED", "CHANNEL_ERROR"},
         AskedFirst', MismatchIsLate', Answered', ChangesAgree', ServedAgree'
  PROVE  Inv'
<1> USE DEF Inv
<1>1. /\ callbacks \in Seq(Callbacks) /\ Len(callbacks) <= MaxCallbacks
      /\ toClient \in Seq(Messages)
      /\ told \in {"nothing", "SUBSCRIBED", "CHANNEL_ERROR", "TIMED_OUT"}
  BY DEF WellTyped
<1>2. Len(callbacks') <= MaxCallbacks
  BY <1>1, ConstantTypes
<1>3. toClient' \in Seq(Messages)
  BY <1>1
<1>4. WellTyped'
  BY <1>1, <1>2, <1>3 DEF WellTyped
<1>5. ClosedIsQuiet'
  BY DEF ClosedIsQuiet
<1> QED
  BY <1>4, <1>5

LEMMA ReceiveStep ==
  ASSUME Inv, Receive
  PROVE  Inv'
<1> USE DEF Inv
<1>1. /\ toClient # <<>> /\ toClient' = Tail(toClient)
      /\ UNCHANGED <<payload, joins, toServer, serving>>
  BY DEF Receive
<1>2. /\ Head(toClient) = toClient[1] /\ 1 \in DOMAIN toClient /\ toClient[1] \in Messages
      /\ callbacks \in Seq(Callbacks) /\ payload \in Seq(Filters)
      /\ unsubscribing \in BOOLEAN
  BY <1>1 DEF WellTyped
<1>3. state \in {"joining", "joined", "errored", "leaving", "removed"}
  BY <1>1 DEF WellTyped, ClosedIsQuiet
<1>4. CASE toClient[1].kind = "ok" /\ state # "removed"
  <2> DEFINE bindings == toClient[1].bindings
  <2>1. JoinOk(bindings)
    BY <1>2, <1>4 DEF Receive
  <2>2. bindings \in Seq(Bindings)
    BY <1>2, <1>4 DEF Messages, Answers
  <2>3. Len(bindings) = Len(payload) /\ \A i \in DOMAIN payload : bindings[i].filter = payload[i]
    BY <1>2, <1>4 DEF Answered
  <2> HIDE DEF bindings
  <2>4. /\ callbacks' \in Seq(Callbacks) /\ Len(callbacks') <= Len(callbacks)
        /\ Len(payload) <= Len(callbacks')
        /\ \A i \in DOMAIN payload :
             callbacks'[i].filter = payload[i] /\ callbacks'[i].id = bindings[i].id
        /\ \A i \in DOMAIN callbacks' : i > Len(payload) => callbacks'[i].id = 0
        /\ told' = "CHANNEL_ERROR" => Len(callbacks') > Len(payload)
        /\ told' \in {"SUBSCRIBED", "CHANNEL_ERROR"} /\ unsubscribing' \in BOOLEAN
        /\ state' = "joined"
    BY <2>1, <2>2, <2>3, AnswerBinds
  <2>5. AskedFirst' /\ MismatchIsLate'
    BY <1>1, <2>4 DEF AskedFirst, MismatchIsLate
  <2>6. IsAnswer(1)
    BY <1>4 DEF IsAnswer
  <2>7. Answered' /\ ChangesAgree' /\ ServedAgree'
    BY <1>1, <1>4, <2>4, <2>6, HandledFrame DEF bindings
  <2> QED
    BY <1>1, <2>4, <2>5, <2>7, HandledStep
<1>5. CASE ~(toClient[1].kind = "ok" /\ state # "removed")
  <2>1. /\ UNCHANGED <<callbacks, told, unsubscribing>>
        /\ state' \in {state, "errored", "removed"}
        /\ state = "removed" => state' = "removed"
        /\ toClient[1].kind = "ok" => state' = "removed"
    BY <1>2, <1>5 DEF Receive
  <2>2. AskedFirst' /\ MismatchIsLate'
    BY <1>1, <2>1 DEF AskedFirst, MismatchIsLate
  <2>3. state' # "removed" => state # "removed" /\ ~IsAnswer(1)
    BY <2>1 DEF IsAnswer
  <2>4. Answered' /\ ChangesAgree' /\ ServedAgree'
    BY <1>1, <2>1, <2>3, HandledFrame
  <2>5. Len(callbacks') <= Len(callbacks)
    BY <1>2, <2>1
  <2>6. state' \in {"joining", "joined", "errored", "leaving", "removed"}
    BY <1>3, <2>1
  <2> QED
    BY <1>1, <1>2, <2>1, <2>2, <2>4, <2>5, <2>6, HandledStep
<1> QED
  BY <1>4, <1>5

LEMMA StutterStep ==
  ASSUME Inv, UNCHANGED vars
  PROVE  Inv'
<1> USE DEF Inv, vars
<1>1. Answered' /\ ChangesAgree' /\ ServedAgree'
  BY Frame
<1>2. WellTyped'
  BY DEF WellTyped
<1>3. ClosedIsQuiet' /\ AskedFirst' /\ MismatchIsLate'
  BY DEF ClosedIsQuiet, AskedFirst, MismatchIsLate
<1> QED
  BY <1>1, <1>2, <1>3

LEMMA InvStep == Inv /\ [Next]_vars => Inv'
<1> SUFFICES ASSUME Inv, [Next]_vars  PROVE Inv'
  OBVIOUS
<1>1. CASE Receive
  BY <1>1, ReceiveStep
<1>2. CASE JoinTimeout \/ Rejoin \/ Unsubscribe
  BY <1>2, ChannelStep
<1>3. CASE Subscribe
  BY <1>3, SubscribeStep
<1>4. CASE ServerJoin
  BY <1>4, ServerJoinStep
<1>5. CASE ServerLeave \/ ServerError
  BY <1>5, ServerStopsStep
<1>6. ASSUME NEW f \in Filters, OnPostgresChanges(f)  PROVE Inv'
  BY <1>6, OnPostgresChangesStep
<1>7. ASSUME NEW type \in Types, NEW table \in Tables, ServerChange(type, table)  PROVE Inv'
  BY <1>7, ServerChangeStep
<1>8. CASE UNCHANGED vars
  BY <1>8, StutterStep
<1> QED
  BY <1>1, <1>2, <1>3, <1>4, <1>5, <1>6, <1>7, <1>8 DEF Next

(* Bindings keeps its types and the order of its epochs.                   *)
THEOREM InvHolds == Spec => []Inv
<1> QED
  BY Initially, InvStep, PTL DEF Spec

(* The variables keep their types (channel.py, postgres_changes_callbacks  *)
(* and what is sent for them).                                             *)
THEOREM TypeCorrect == Spec => []TypeOK
<1>1. Inv => TypeOK
  BY WellTypedIsTypeOK DEF Inv
<1> QED
  BY <1>1, InvHolds, PTL

(* What the next change says of the callbacks that were asked for.         *)
LEMMA NextChangeAgrees ==
  ASSUME Inv, NEW change \in NextChanges
  PROVE  Agrees(callbacks, change)
<1>1. toClient # <<>> /\ state # "removed" /\ Head(toClient).kind = "change" /\ change = Head(toClient).change
  BY DEF NextChanges
<1>2. Head(toClient) = toClient[1] /\ 1 \in DOMAIN toClient
  BY <1>1 DEF Inv, WellTyped
<1>3. NoAnswer(1)
  BY <1>1, <1>2 DEF NoAnswer, IsAnswer
<1> QED
  BY <1>1, <1>2, <1>3 DEF Inv, ChangesAgree

(* Over rejoins that give the ids of one binding to another, a callback is *)
(* called with changes of what it was registered for only (channel.py 237, *)
(* types.py 134-140).                                                      *)
THEOREM HearsItsOwn == Spec => []NoCrossTalk
<1>1. Inv => NoCrossTalk
  <2> SUFFICES ASSUME Inv, NEW change \in NextChanges, NEW i \in DOMAIN callbacks,
                      IsCalled(callbacks[i], change)
               PROVE  Matches(callbacks[i].filter, change)
    BY DEF NoCrossTalk
  <2>1. callbacks[i].id # 0 /\ callbacks[i].id \in change.ids
    BY DEF IsCalled
  <2>2. i \in DOMAIN payload /\ callbacks[i].filter = payload[i]
    BY <2>1 DEF Inv, WellTyped, AskedFirst
  <2> QED
    BY <2>1, <2>2, NextChangeAgrees DEF Agrees
<1> QED
  BY <1>1, InvHolds, PTL

(* The callbacks registered before subscribe() stay in their order and     *)
(* hear every change of their filter that reaches the channel, over        *)
(* errors, timeouts and rejoins (channel.py 214-250, 515-518).             *)
THEOREM HearsAllOfIt == Spec => []ServedIsHeard
<1>1. Inv => ServedIsHeard
  <2> SUFFICES ASSUME Inv, NEW i \in DOMAIN payload
               PROVE  /\ i <= Len(callbacks) /\ callbacks[i].filter = payload[i]
                      /\ \A change \in NextChanges :
                           Matches(payload[i], change) => IsCalled(callbacks[i], change)
    BY DEF ServedIsHeard
  <2>1. i <= Len(callbacks) /\ callbacks[i].filter = payload[i]
    BY DEF Inv, WellTyped, AskedFirst
  <2>2. ASSUME NEW change \in NextChanges, Matches(payload[i], change)
        PROVE  IsCalled(callbacks[i], change)
    BY <2>1, <2>2, NextChangeAgrees DEF Agrees, Matches, IsCalled, ListensTo
  <2> QED
    BY <2>1, <2>2
<1> QED
  BY <1>1, InvHolds, PTL

(* A server that answers as it is asked causes a mismatch only if          *)
(* callbacks were registered after subscribe() (channel.py 220-247).       *)
THEOREM MismatchComesLate == Spec => []MismatchIsLate
<1>1. Inv => MismatchIsLate
  BY DEF Inv
<1> QED
  BY <1>1, InvHolds, PTL

(* When the answer to a join makes the subscriber be told SUBSCRIBED,      *)
(* every callback the channel has by then is bound (channel.py 249-250).   *)
THEOREM BoundWhenTold == Spec => SubscribedIsBound
<1>1. Inv /\ [Next]_vars =>
        [HandlesAnswer /\ told' = "SUBSCRIBED"
           => \A i \in DOMAIN callbacks' : callbacks'[i].id # 0]_vars
  <2> SUFFICES ASSUME Inv, Next, HandlesAnswer, told' = "SUBSCRIBED"
               PROVE  \A i \in DOMAIN callbacks' : callbacks'[i].id # 0
    OBVIOUS
  <2>1. /\ toClient # <<>> /\ toClient' = Tail(toClient) /\ state # "removed"
        /\ toClient \in Seq(Messages) /\ toClient[1] \in Messages /\ toClient[1].kind = "ok"
        /\ 1 \in DOMAIN toClient /\ Head(toClient) = toClient[1]
    BY DEF HandlesAnswer, Inv, WellTyped
  <2>2. Len(toClient') < Len(toClient)
    BY <2>1
  <2>3. Receive
    <3>1. ASSUME toClient' = toClient  PROVE FALSE
      BY <2>1, <2>2, <3>1
    <3>2. ASSUME NEW m, toClient' = Append(toClient, m)  PROVE FALSE
      BY <2>1, <2>2, <3>2
    <3> QED
      BY <3>1, <3>2 DEF Next, OnPostgresChanges, Subscribe, JoinTimeout, Rejoin, Unsubscribe,
         ServerJoin, ServerLeave, ServerError, ServerChange, Tell
  <2>4. JoinOk(toClient[1].bindings)
    BY <2>1, <2>3 DEF Receive
  <2>5. toClient[1].bindings \in Seq(Bindings)
    BY <2>1 DEF Messages, Answers
  <2>6. /\ Len(toClient[1].bindings) = Len(payload)
        /\ \A i \in DOMAIN payload : toClient[1].bindings[i].filter = payload[i]
    BY <2>1 DEF Inv, Answered
  <2> QED
    BY <2>4, <2>5, <2>6, AnswerBinds
<1> QED
  BY <1>1, InvHolds, PTL DEF Spec, SubscribedIsBound
=============================================================================
