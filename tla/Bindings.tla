------------------------------ MODULE Bindings ------------------------------
(***************************************************************************)
(* The postgres bindings of a channel (realtime/_async/channel.py,         *)
(* realtime/types.py): callbacks registered with a filter, which the join  *)
(* asks the server for, which its answer gives ids, and which changes are  *)
(* dispatched by.  The payload of the join is fixed by subscribe(); a      *)
(* rejoin sends it again, and the answer gives new ids.                    *)
(*                                                                         *)
(* Of the life of the channel it keeps what decides when answers come:     *)
(* errors, join timeouts and rejoins of an errored channel.  The server is *)
(* external: it answers a join with one binding for each one asked for, or *)
(* with none if there was none, and tells changes in the order it makes    *)
(* them.  Two bindings it serves at a time have different ids, if their    *)
(* filters differ.                                                         *)
(***************************************************************************)
EXTENDS SequencesExt, FiniteSets, Naturals

CONSTANTS
  Filters,       \* records with the events and the table asked for
  Ids,           \* what the server may call a binding
  MaxCallbacks,  \* bound: registered callbacks
  MaxJoins,      \* bound: joins sent
  MaxQueue       \* bound: messages on the way

ASSUME BindingsAssumption ==
  /\ {MaxCallbacks, MaxJoins, MaxQueue} \subseteq Nat
  /\ Ids \subseteq Nat \ {0}
  /\ Cardinality(Filters) <= Cardinality(Ids)

VARIABLES
  callbacks,      \* postgres_changes_callbacks: filter and id, 0 for None
  payload,        \* the filters in the payload of the join
  state,          \* ChannelStates; "removed": closed, not in the registry
  unsubscribing,  \* a task that will run unsubscribe() was created
  told,           \* what the subscriber was told last
  joins,          \* how many joins were sent
  toServer, toClient,
  serving         \* the server's id of each filter, 0 if not subscribed

vars == <<callbacks, payload, state, unsubscribing, told, joins, toServer,
          toClient, serving>>

Types == {f.events : f \in Filters} \ {"*"}
Tables == {f.table : f \in Filters}
Bindings == [filter : Filters, id : Ids]
Changes == [type : Types, table : Tables, ids : SUBSET Ids]

TypeOK ==
  /\ ToSet(callbacks) \subseteq [filter : Filters, id : Ids \cup {0}]
  /\ Len(callbacks) <= MaxCallbacks
  /\ ToSet(payload) \subseteq Filters
  /\ state \in {"closed", "joining", "joined", "errored", "leaving", "removed"}
  /\ unsubscribing \in BOOLEAN
  /\ told \in {"nothing", "SUBSCRIBED", "CHANNEL_ERROR", "TIMED_OUT"}
  /\ joins \in 0..MaxJoins
  /\ ToSet(toServer) \subseteq {"join", "leave"}
  /\ \A i \in DOMAIN toClient :
       CASE toClient[i].kind = "ok"     -> ToSet(toClient[i].bindings) \subseteq Bindings
         [] toClient[i].kind = "change" -> toClient[i].change \in Changes
         [] OTHER                       -> toClient[i].kind \in {"error", "left"}
  /\ serving \in [Filters -> Ids \cup {0}]

Init ==
  /\ callbacks = <<>>
  /\ payload = <<>>
  /\ state = "closed"
  /\ unsubscribing = FALSE
  /\ told = "nothing"
  /\ joins = 0
  /\ toServer = <<>>
  /\ toClient = <<>>
  /\ serving = [f \in Filters |-> 0]

-----------------------------------------------------------------------------
(* on_postgres_changes(), at any time.                                     *)
OnPostgresChanges(f) ==
  /\ Len(callbacks) < MaxCallbacks
  /\ callbacks' = Append(callbacks, [filter |-> f, id |-> 0])
  /\ UNCHANGED <<payload, state, unsubscribing, told, joins, toServer, toClient,
                 serving>>

SendJoin ==
  /\ joins < MaxJoins
  /\ Len(toServer) < MaxQueue
  /\ joins' = joins + 1
  /\ toServer' = Append(toServer, "join")
  /\ state' = "joining"

Subscribe ==
  /\ state = "closed"
  /\ payload' = [i \in DOMAIN callbacks |-> callbacks[i].filter]
  /\ SendJoin
  /\ UNCHANGED <<callbacks, unsubscribing, told, toClient, serving>>

(* The timeout of the join.                                                *)
JoinTimeout ==
  /\ state = "joining"
  /\ state' = "errored"
  /\ told' = "TIMED_OUT"
  /\ UNCHANGED <<callbacks, payload, unsubscribing, joins, toServer, toClient,
                 serving>>

(* _rejoin() by the timer: the same payload again.                         *)
Rejoin ==
  /\ state = "errored"
  /\ SendJoin
  /\ UNCHANGED <<callbacks, payload, unsubscribing, told, toClient, serving>>

(* The task that a mismatch created; one created by a second mismatch      *)
(* before it runs adds nothing.  A channel that was removed meanwhile      *)
(* stays so: messages do not reach it.                                     *)
Unsubscribe ==
  /\ unsubscribing
  /\ Len(toServer) < MaxQueue
  /\ unsubscribing' = FALSE
  /\ state' = IF state = "removed" THEN state ELSE "leaving"
  /\ toServer' = Append(toServer, "leave")
  /\ UNCHANGED <<callbacks, payload, told, joins, toClient, serving>>

-----------------------------------------------------------------------------
(* An index that ends before the last binding.                             *)
SkipsTheLast(bindings, i) ==
  i < Len(bindings) /\ bindings[i].filter = callbacks[i].filter

(* Callbacks beyond the server's bindings pass.                            *)
ExcusesTheRest(bindings, i) ==
  i <= Len(bindings) => bindings[i].filter = callbacks[i].filter

(* on_join_push_ok: the callbacks are matched with the server's bindings   *)
(* by position.                                                            *)
Confirms(bindings, i) ==
  i <= Len(bindings) /\ bindings[i].filter = callbacks[i].filter

(* Keeps an id once it is given.                                           *)
FirstId(bindings, i) ==
  IF callbacks[i].id = 0 THEN [callbacks[i] EXCEPT !.id = bindings[i].id]
                         ELSE callbacks[i]

WithId(bindings, i) ==
  IF i <= Len(bindings) THEN [callbacks[i] EXCEPT !.id = bindings[i].id]
                        ELSE callbacks[i]

(* Appends the confirmed callbacks to the list they come from.             *)
ConfirmedToo(bindings) ==
  callbacks \o [i \in DOMAIN callbacks |-> WithId(bindings, i)]

(* What replaces the list if all match.  An answer without bindings skips  *)
(* the loop and leaves nothing.                                            *)
Confirmed(bindings) ==
  IF bindings = <<>> THEN <<>>
                     ELSE [i \in DOMAIN callbacks |-> WithId(bindings, i)]

JoinOk(bindings) ==
  LET failing == {i \in DOMAIN callbacks : ~Confirms(bindings, i)}
  IN  /\ state' = "joined"
      /\ IF bindings = <<>> \/ failing = {}
           THEN /\ callbacks' = Confirmed(bindings)
                /\ told' = "SUBSCRIBED"
                /\ UNCHANGED unsubscribing
           (* The loop returns at the first mismatch.                      *)
           ELSE /\ callbacks' = [i \in DOMAIN callbacks |->
                     IF \A j \in failing : i < j THEN WithId(bindings, i)
                                                 ELSE callbacks[i]]
                /\ told' = "CHANNEL_ERROR"
                /\ unsubscribing' = TRUE

(* No wildcard.                                                            *)
ListensToIts(f, change) == f.events = change.type

(* PostgresChangesCallback.__call__                                        *)
ListensTo(f, change) == f.events \in {change.type, "*"}

IsCalled(callback, change) ==
  /\ callback.id # 0
  /\ callback.id \in change.ids
  /\ ListensTo(callback.filter, change)

(* _handle_message(), for a channel that is registered.  Calling the       *)
(* callbacks with a change changes nothing here.                           *)
Receive ==
  /\ toClient # <<>>
  /\ toClient' = Tail(toClient)
  /\ LET m == Head(toClient)
     IN  \/ /\ m.kind = "ok" /\ state # "removed"
            /\ JoinOk(m.bindings)
         \/ /\ m.kind = "error" /\ state \in {"joining", "joined", "errored"}
            /\ state' = "errored"
            /\ UNCHANGED <<callbacks, told, unsubscribing>>
         \/ /\ m.kind = "left"
            /\ state' = "removed"
            /\ UNCHANGED <<callbacks, told, unsubscribing>>
         \/ /\ \/ m.kind = "change"
               \/ m.kind = "ok" /\ state = "removed"
               \/ m.kind = "error" /\ state \in {"leaving", "removed"}
            /\ UNCHANGED <<state, callbacks, told, unsubscribing>>
  /\ UNCHANGED <<payload, joins, toServer, serving>>

-----------------------------------------------------------------------------
(* The server.                                                             *)
Matches(f, change) == f.table = change.table /\ f.events \in {change.type, "*"}

ServerJoin ==
  /\ toServer # <<>> /\ Head(toServer) = "join"
  /\ Len(toClient) < MaxQueue
  /\ toServer' = Tail(toServer)
  /\ \E ids \in [Filters -> Ids] :
       /\ IsInjective(ids)
       /\ serving' = [f \in Filters |-> IF f \in ToSet(payload) THEN ids[f] ELSE 0]
       /\ toClient' = Append(toClient, [kind |-> "ok",
            bindings |-> [i \in DOMAIN payload |->
                            [filter |-> payload[i], id |-> ids[payload[i]]]]])
  /\ UNCHANGED <<callbacks, payload, state, unsubscribing, told, joins>>

Tell(m, ids) ==
  /\ Len(toClient) < MaxQueue
  /\ toClient' = Append(toClient, m)
  /\ serving' = ids

ServerLeave ==
  /\ toServer # <<>> /\ Head(toServer) = "leave"
  /\ toServer' = Tail(toServer)
  /\ Tell([kind |-> "left"], [f \in Filters |-> 0])
  /\ UNCHANGED <<callbacks, payload, state, unsubscribing, told, joins>>

(* The subscription of the channel crashes.                                *)
ServerError ==
  /\ \E f \in Filters : serving[f] # 0
  /\ Tell([kind |-> "error"], [f \in Filters |-> 0])
  /\ UNCHANGED <<callbacks, payload, state, unsubscribing, told, joins, toServer>>

ServerChange(type, table) ==
  LET change == [type |-> type, table |-> table, ids |-> {}]
      ids == {serving[f] : f \in {g \in Filters : serving[g] # 0 /\ Matches(g, change)}}
  IN  /\ ids # {}
      /\ Tell([kind |-> "change", change |-> [change EXCEPT !.ids = ids]], serving)
      /\ UNCHANGED <<callbacks, payload, state, unsubscribing, told, joins, toServer>>

Next ==
  \/ \E f \in Filters : OnPostgresChanges(f)
  \/ Subscribe \/ JoinTimeout \/ Rejoin \/ Unsubscribe \/ Receive
  \/ ServerJoin \/ ServerLeave \/ ServerError
  \/ \E type \in Types, table \in Tables : ServerChange(type, table)

Spec == Init /\ [][Next]_vars

-----------------------------------------------------------------------------
(* The change that the channel handles next, if any.                       *)
NextChanges ==
  IF toClient # <<>> /\ state # "removed" /\ Head(toClient).kind = "change"
    THEN {Head(toClient).change} ELSE {}

(* A callback is called with changes of what it was registered for only,   *)
(* also when a rejoin has given its id to another binding (channel.py 237, *)
(* types.py 134-140).                                                      *)
NoCrossTalk ==
  \A change \in NextChanges, i \in DOMAIN callbacks :
    IsCalled(callbacks[i], change) => Matches(callbacks[i].filter, change)

(* The callbacks registered before subscribe() stay in their order, and    *)
(* each is called with every change of its filter that reaches the         *)
(* channel, over errors, timeouts and rejoins (channel.py 214-250,         *)
(* 515-518).                                                               *)
ServedIsHeard ==
  \A i \in DOMAIN payload :
    /\ i <= Len(callbacks) /\ callbacks[i].filter = payload[i]
    /\ \A change \in NextChanges :
         Matches(payload[i], change) => IsCalled(callbacks[i], change)

(* A server that answers as it is asked causes a mismatch only if          *)
(* callbacks were registered after subscribe() (channel.py 220-247).       *)
MismatchIsLate ==
  told = "CHANNEL_ERROR" => Len(callbacks) > Len(payload)

(* The step that handles the answer to a join.                             *)
HandlesAnswer ==
  /\ toClient # <<>> /\ Head(toClient).kind = "ok" /\ state # "removed"
  /\ toClient' = Tail(toClient)

(* When the answer to a join makes the subscriber be told SUBSCRIBED,      *)
(* every callback the channel has by then is bound (channel.py 249-250).   *)
SubscribedIsBound ==
  [][HandlesAnswer /\ told' = "SUBSCRIBED"
       => \A i \in DOMAIN callbacks' : callbacks'[i].id # 0]_vars

(* README.md:150-151 prints "Ready to receive database changes!" when it   *)
(* is told SUBSCRIBED: no callback registered before is forgotten.         *)
NoneForgotten ==
  [][Len(callbacks') >= Len(callbacks)]_vars
=============================================================================
