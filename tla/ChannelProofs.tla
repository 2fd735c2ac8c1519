--------------------------- MODULE ChannelProofs ---------------------------
(***************************************************************************)
(* Proofs about Channel, for any pushes, any bounds and any environment    *)
(* (JoiningHasAWayOut: any without backpressure; JoinedMatchesServer: any  *)
(* without backpressure and without silence).                              *)
(***************************************************************************)
EXTENDS Channel, SequenceTheorems, TLAPS

USE BoundsAssumption, PushesAssumption

Records == PushRecords(0..MaxRef)

(* What the methods of a push return, field by field.                      *)
LEMMA NewPushFields ==
  /\ NewPush \in Records
  /\ NewPush.ref = 0 /\ NewPush.resp = "none" /\ NewPush.timer = "none"
  BY DEF NewPush, Records, PushRecords, Outcomes

LEMMA TimeoutStartedFields ==
  ASSUME NEW p \in Records
  PROVE  /\ TimeoutStarted(p) \in Records
         /\ TimeoutStarted(p).ref = p.ref
         /\ TimeoutStarted(p).resp = p.resp
         /\ p.timer = "none" => TimeoutStarted(p).timer = "running"
         /\ p.timer # "none" => TimeoutStarted(p).timer = p.timer
  BY DEF TimeoutStarted, Records, PushRecords

LEMMA SentFields ==
  ASSUME NEW p \in Records, NEW r \in 0..MaxRef
  PROVE  /\ Sent(p, r) \in Records
         /\ Sent(p, r).ref = r
         /\ Sent(p, r).resp = p.resp
         /\ p.timer = "none" => Sent(p, r).timer = "running"
         /\ p.timer # "none" => Sent(p, r).timer = p.timer
  BY DEF Sent, TimeoutStarted, Records, PushRecords

LEMMA ResentFields ==
  ASSUME NEW p \in Records, NEW r \in 0..MaxRef
  PROVE  /\ Resent(p, r) \in Records
         /\ Resent(p, r).ref = r
         /\ Resent(p, r).resp = "none"
         /\ p.timer = "none" => Resent(p, r).timer = "running"
         /\ p.timer # "none" => Resent(p, r).timer = p.timer
  BY DEF Resent, Sent, TimeoutStarted, Records, PushRecords, Outcomes

LEMMA AnsweredFields ==
  ASSUME NEW p \in Records, NEW s \in {"ok", "error"}
  PROVE  /\ Answered(p, s) \in Records
         /\ Answered(p, s).ref = p.ref
         /\ Answered(p, s).resp = s
         /\ Answered(p, s).timer = p.timer
  BY DEF Answered, Records, PushRecords, Outcomes

LEMMA TimedOutFields ==
  ASSUME NEW p \in Records
  PROVE  /\ TimedOut(p) \in Records
         /\ TimedOut(p).ref = p.ref
         /\ TimedOut(p).resp = "timeout"
         /\ TimedOut(p).timer = "done"
  BY DEF TimedOut, Records, PushRecords, Outcomes

LEMMA DestroyedFields ==
  ASSUME NEW p \in Records
  PROVE  /\ Destroyed(p) \in Records
         /\ Destroyed(p).ref = p.ref
         /\ Destroyed(p).resp = p.resp
         /\ Destroyed(p).timer = "none"
  BY DEF Destroyed, Records, PushRecords

-----------------------------------------------------------------------------
(* Type correctness: first of the operators that actions share. *)

Entries == Pushes \cup {"none", "join", "leave"}

SendTyped ==
  /\ ref' \in 0..MaxRef
  /\ acks' \in [Refs -> Entries]
  /\ out' \in Seq(Frames)
  /\ sendBuffer' \in Seq(Frames)

JoinTyped ==
  /\ SendTyped
  /\ state' \in ChannelStates
  /\ rejoinArmed' \in BOOLEAN
  /\ joinPush' \in Records

LEMMA FramesTyped ==
  ASSUME NEW r \in Refs
  PROVE  {JoinFrame(r), LeaveFrame(r), PushFrame(r)} \subseteq Frames
  BY DEF JoinFrame, LeaveFrame, PushFrame, Frames

LEMMA TransmitTyped ==
  ASSUME TypeOK, NEW fs \in Seq(Frames), Transmit(fs)
  PROVE  out' \in Seq(Frames) /\ sendBuffer' \in Seq(Frames)
<1>1. out \o fs \in Seq(Frames) /\ sendBuffer \o fs \in Seq(Frames)
  BY ConcatProperties DEF TypeOK
<1> QED
  BY <1>1 DEF TypeOK, Transmit

LEMMA TrafficCounted ==
  ASSUME traffic \in Traffics, NEW p \in Pushes
  PROVE  SentOnceMore(p) \in Traffics /\ AnsweredOnceMore(p) \in Traffics
  BY DEF Traffics, SentOnceMore, AnsweredOnceMore

LEMMA SendPushTyped ==
  ASSUME TypeOK, NEW p \in Pushes, SendPush(p)
  PROVE  SendTyped /\ push' \in [Pushes -> Records] /\ traffic' \in Traffics
<1>1. ref + 1 \in Refs /\ ref' = ref + 1
  BY DEF TypeOK, SendPush, MakeRefs, Refs
<1>2. <<PushFrame(ref + 1)>> \in Seq(Frames)
  BY <1>1, FramesTyped
<1>3. out' \in Seq(Frames) /\ sendBuffer' \in Seq(Frames)
  BY <1>2, TransmitTyped DEF SendPush
<1>4. acks' \in [Refs -> Entries]
  BY <1>1 DEF TypeOK, SendPush, Entries
<1>5. push' \in [Pushes -> Records]
  BY <1>1, SentFields DEF TypeOK, SendPush, Records, Refs
<1>6. traffic' \in Traffics
  BY TrafficCounted DEF TypeOK, SendPush
<1> QED
  BY <1>1, <1>3, <1>4, <1>5, <1>6 DEF SendTyped, Refs

LEMMA LeaveTyped ==
  ASSUME TypeOK, Leave
  PROVE  JoinTyped
<1>1. ref + 1 \in Refs /\ ref' = ref + 1
  BY DEF TypeOK, Leave, MakeRefs, Refs
<1>2. <<LeaveFrame(ref + 1)>> \in Seq(Frames)
  BY <1>1, FramesTyped
<1>3. out' \in Seq(Frames) /\ sendBuffer' \in Seq(Frames)
  BY <1>2, TransmitTyped DEF Leave
<1>4. acks' \in [Refs -> Entries]
  BY <1>1 DEF TypeOK, Leave, Entries
<1>5. joinPush' \in Records
  BY DestroyedFields DEF TypeOK, Leave, Records
<1>6. rejoinArmed' \in BOOLEAN /\ state' \in ChannelStates
  BY DEF Leave, ChannelStates
<1> QED
  BY <1>1, <1>3, <1>4, <1>5, <1>6 DEF JoinTyped, SendTyped, Refs

LEMMA JoinAgainTyped ==
  ASSUME TypeOK, JoinAgain, rejoinArmed' \in BOOLEAN
  PROVE  JoinTyped
<1>1. ref + 1 \in Refs /\ ref' = ref + 1
  BY DEF TypeOK, JoinAgain, MakeRefs, Refs
<1>2. <<JoinFrame(ref + 1)>> \in Seq(Frames)
  BY <1>1, FramesTyped
<1>3. out' \in Seq(Frames) /\ sendBuffer' \in Seq(Frames)
  BY <1>2, TransmitTyped DEF JoinAgain
<1>4. acks' \in [Refs -> Entries]
  BY <1>1 DEF TypeOK, JoinAgain, Entries
<1>5. joinPush' \in Records
  BY <1>1, ResentFields DEF TypeOK, JoinAgain, Records, Refs
<1> QED
  BY <1>1, <1>3, <1>4, <1>5
     DEF JoinAgain, JoinTyped, SendTyped, Refs, ChannelStates

LEMMA LeaveAndJoinAgainTyped ==
  ASSUME TypeOK, LeaveAndJoinAgain
  PROVE  JoinTyped
<1>1. ref + 1 \in Refs /\ ref + 2 \in Refs /\ ref' = ref + 2
  BY DEF TypeOK, LeaveAndJoinAgain, MakeRefs, Refs
<1>2. <<LeaveFrame(ref + 1), JoinFrame(ref + 2)>> \in Seq(Frames)
  BY <1>1, FramesTyped
<1>3. out' \in Seq(Frames) /\ sendBuffer' \in Seq(Frames)
  BY <1>2, TransmitTyped DEF LeaveAndJoinAgain
<1>4. acks' \in [Refs -> Entries]
  BY <1>1 DEF TypeOK, LeaveAndJoinAgain, Entries
<1>5. joinPush' \in Records
  <2>1. Destroyed(joinPush) \in Records
    BY DestroyedFields DEF TypeOK, Records
  <2> QED
    BY <1>1, <2>1, ResentFields DEF LeaveAndJoinAgain, Refs
<1>6. rejoinArmed' \in BOOLEAN /\ state' \in ChannelStates
  BY DEF LeaveAndJoinAgain, ChannelStates
<1> QED
  BY <1>1, <1>3, <1>4, <1>5, <1>6 DEF JoinTyped, SendTyped, Refs

LEMMA RejoinTyped ==
  ASSUME TypeOK, Rejoin
  PROVE  JoinTyped /\ left' \in Nat
<1>1. CASE /\ state = "leaving"
           /\ UNCHANGED <<ref, state, rejoinArmed, joinPush, acks, out,
                          sendBuffer, left>>
  BY <1>1 DEF TypeOK, JoinTyped, SendTyped, Records, Entries
<1>2. CASE /\ JoinAgain
           /\ UNCHANGED <<rejoinArmed, left>>
  BY <1>2, JoinAgainTyped DEF TypeOK
<1>3. CASE LeaveAndJoinAgain /\ UNCHANGED left
  BY <1>3, LeaveAndJoinAgainTyped DEF TypeOK
<1>4. CASE Leave /\ left' = left + 1
  BY <1>4, LeaveTyped DEF TypeOK
<1> QED
  BY <1>1, <1>2, <1>3, <1>4 DEF Rejoin

-----------------------------------------------------------------------------
(* Type correctness: every action. *)

LEMMA UnwatchedTyped ==
  ASSUME TypeOK, NEW r \in 0..MaxRef
  PROVE  Unwatched(r) \in [Refs -> Entries]
  BY DEF TypeOK, Unwatched, Entries

LEMMA TypeOfApplication ==
  ASSUME TypeOK,
         Subscribe \/ Unsubscribe \/ (\E p \in Pushes : Push(p)) \/ RawJoin
  PROVE  TypeOK'
<1>1. CASE Subscribe
  <2>1. JoinTyped /\ left' \in Nat
    BY <1>1, RejoinTyped DEF Subscribe
  <2>2. notice' \in Statuses \cup {"none"}
    BY <1>1 DEF Subscribe, TypeOK, Statuses
  <2>3. hooks' \subseteq {"ok", "error", "timeout"} /\ joinedOnce' \in BOOLEAN
    BY <1>1 DEF Subscribe
  <2> QED
    BY <1>1, <2>1, <2>2, <2>3
       DEF Subscribe, TypeOK, JoinTyped, SendTyped, Records, Entries
<1>2. CASE Unsubscribe
  <2>1. JoinTyped
    BY <1>2, LeaveTyped DEF Unsubscribe
  <2>2. unsubs' \in 0..MaxUnsubscribes
    BY <1>2 DEF Unsubscribe, TypeOK
  <2> QED
    BY <1>2, <2>1, <2>2
       DEF Unsubscribe, TypeOK, JoinTyped, SendTyped, Records, Entries
<1>3. ASSUME NEW p \in Pushes, Push(p) PROVE TypeOK'
  <2>1. CASE SendPush(p) /\ UNCHANGED pushBuffer
    <3>1. SendTyped /\ push' \in [Pushes -> Records] /\ traffic' \in Traffics
      BY <2>1, SendPushTyped
    <3> QED
      BY <1>3, <2>1, <3>1 
           DEF Push, TypeOK, SendTyped, Records, Entries
  <2>2. CASE /\ push' = [push EXCEPT ![p] = TimeoutStarted(@)]
             /\ pushBuffer' = Append(pushBuffer, p)
             /\ UNCHANGED <<traffic, ref, acks, out, sendBuffer>>
    <3>1. push' \in [Pushes -> Records]
      BY <2>2, TimeoutStartedFields DEF TypeOK, Records
    <3>2. pushBuffer' \in Seq(Pushes)
      BY <2>2, AppendProperties DEF TypeOK
    <3> QED
      BY <1>3, <2>2, <3>1, <3>2 DEF Push, TypeOK, Records
  <2> QED
    BY <1>3, <2>1, <2>2 DEF Push
<1>4. CASE RawJoin
  <2>1. ref + 1 \in Refs /\ ref' = ref + 1
    BY <1>4 DEF TypeOK, RawJoin, MakeRefs, Refs
  <2>2. <<JoinFrame(ref + 1)>> \in Seq(Frames)
    BY <2>1, FramesTyped
  <2>3. out' \in Seq(Frames) /\ sendBuffer' \in Seq(Frames)
    BY <1>4, <2>2, TransmitTyped DEF RawJoin
  <2> QED
    BY <1>4, <2>1, <2>3 DEF RawJoin, TypeOK, chanVars, Refs
<1> QED
  BY <1>1, <1>2, <1>3, <1>4

LEMMA TypeOfLoop ==
  ASSUME TypeOK,
         \/ RunReady \/ RejoinTimerFires \/ JoinTimeout \/ ResumeRejoin
         \/ AbandonRejoin
         \/ \E p \in Pushes : PushTimeout(p)
         \/ \E r \in Refs : LeaveTimeout(r)
  PROVE  TypeOK'
<1>1. CASE RunReady
  <2>1. ready' \in Seq(Pushes \cup {"unsubscribe"})
    BY <1>1, HeadTailProperties DEF RunReady, TypeOK
  <2>2. CASE Leave /\ UNCHANGED <<push, traffic>>
    <3>1. JoinTyped
      BY <2>2, LeaveTyped
    <3> QED
      BY <1>1, <2>1, <2>2, <3>1
         DEF RunReady, TypeOK, JoinTyped, SendTyped, Records, Entries
  <2>3. CASE /\ Head(ready) \in Pushes
             /\ SendPush(Head(ready))
             /\ UNCHANGED <<state, rejoinArmed, joinPush>>
    <3>1. SendTyped /\ push' \in [Pushes -> Records] /\ traffic' \in Traffics
      BY <2>3, SendPushTyped
    <3> QED
      BY <1>1, <2>1, <2>3, <3>1
         DEF RunReady, TypeOK, SendTyped, Records, Entries
  <2>4. CASE UNCHANGED <<state, rejoinArmed, joinPush, push, traffic, acks,
                         ref, out, sendBuffer>>
    BY <1>1, <2>1, <2>4 DEF RunReady, TypeOK
  <2> QED
    BY <1>1, <2>2, <2>3, <2>4 DEF RunReady
<1>2. CASE RejoinTimerFires
  <2>1. JoinTyped /\ left' \in Nat
    BY <1>2, RejoinTyped DEF RejoinTimerFires
  <2> QED
    BY <1>2, <2>1
       DEF RejoinTimerFires, TypeOK, JoinTyped, SendTyped, Records, Entries
<1>3. CASE JoinTimeout
  <2>1. joinPush' \in Records /\ joinPush.ref \in 0..MaxRef
    BY <1>3, TimedOutFields DEF JoinTimeout, TypeOK, Records, PushRecords
  <2>2. acks' \in [Refs -> Entries]
    BY <1>3, <2>1, UnwatchedTyped DEF JoinTimeout
  <2>3. state' \in ChannelStates /\ rejoinArmed' \in BOOLEAN
    BY <1>3 DEF JoinTimeout, TypeOK, ChannelStates
  <2>4. notice' \in Statuses \cup {"none"}
    BY <1>3 DEF JoinTimeout, TypeOK, Statuses
  <2> QED
    BY <1>3, <2>1, <2>2, <2>3, <2>4
       DEF JoinTimeout, TypeOK, Records, Entries, clientVars, netVars
<1>4. CASE ResumeRejoin
  <2>1. JoinTyped
    BY <1>4, JoinAgainTyped DEF ResumeRejoin, TypeOK
  <2>2. left' \in Nat
    BY <1>4 DEF ResumeRejoin, TypeOK
  <2> QED
    BY <1>4, <2>1, <2>2
       DEF ResumeRejoin, TypeOK, JoinTyped, SendTyped, Records, Entries
<1>5. CASE AbandonRejoin
  BY <1>5 DEF AbandonRejoin, TypeOK, clientVars, netVars
<1>6. ASSUME NEW p \in Pushes, PushTimeout(p) PROVE TypeOK'
  <2>1. push' \in [Pushes -> Records] /\ push[p].ref \in 0..MaxRef
    BY <1>6, TimedOutFields DEF PushTimeout, TypeOK, Records, PushRecords
  <2>2. acks' \in [Refs -> Entries]
    BY <1>6, <2>1, UnwatchedTyped DEF PushTimeout
  <2> QED
    BY <1>6, <2>1, <2>2
       DEF PushTimeout, TypeOK, Records, Entries, clientVars, netVars
<1>7. ASSUME NEW r \in Refs, LeaveTimeout(r) PROVE TypeOK'
  <2>1. acks' \in [Refs -> Entries]
    BY <1>7, UnwatchedTyped DEF LeaveTimeout, Refs
  <2> QED
    BY <1>7, <2>1
       DEF LeaveTimeout, TypeOK, Entries, clientVars, netVars
<1> QED
  BY <1>1, <1>2, <1>3, <1>4, <1>5, <1>6, <1>7

LEMMA TypeOfConnection ==
  ASSUME TypeOK,
         \/ Connect \/ Disconnect \/ CloseClient
         \/ Reconnect \/ RejoinDue \/ AbandonDue
  PROVE  TypeOK'
<1>1. CASE Connect
  BY <1>1, EmptySeq DEF Connect, Opened, TypeOK, chanVars
<1>2. CASE Disconnect
  <2>1. faults' \in 0..MaxFaults
    BY <1>2 DEF Disconnect, TypeOK
  <2>2. out' \in Seq(Frames) /\ inn' \in Seq(Incoming)
    BY <1>2, EmptySeq DEF Disconnect
  <2> QED
    BY <1>2, <2>1, <2>2 DEF Disconnect, TypeOK, chanVars
<1>3. CASE Reconnect
  <2>1. due' \in Nat
    BY <1>3 DEF Reconnect, TypeOK
  <2>2. CASE Opened
    BY <1>3, <2>1, <2>2, EmptySeq DEF Reconnect, Opened, TypeOK, chanVars
  <2>3. CASE OpenedAndCut
    <3>1. out' \in Seq(Frames)
      <4>1. PICK n \in 1..Len(sendBuffer) : out' = SubSeq(sendBuffer, 1, n)
        BY <2>3 DEF OpenedAndCut
      <4> QED
        BY <4>1 DEF TypeOK
    <3> QED
      BY <1>3, <2>1, <2>3, <3>1, EmptySeq
         DEF Reconnect, OpenedAndCut, TypeOK, chanVars
  <2> QED
    BY <1>3, <2>2, <2>3 DEF Reconnect
<1>4. CASE RejoinDue
  <2>1. due' \in Nat
    BY <1>4 DEF RejoinDue, TypeOK
  <2>2. JoinTyped /\ left' \in Nat
    BY <1>4, RejoinTyped
       DEF RejoinDue, TypeOK, JoinTyped, SendTyped, Records, Entries
  <2> QED
    BY <1>4, <2>1, <2>2
       DEF RejoinDue, TypeOK, JoinTyped, SendTyped, Records, Entries
<1>5. CASE AbandonDue
  <2>1. due' \in Nat
    BY <1>5 DEF AbandonDue, TypeOK
  <2> QED
    BY <1>5, <2>1 DEF AbandonDue, TypeOK, chanVars, netVars
<1>6. CASE CloseClient
  <2>1. closes' \in 0..MaxCloses
    BY <1>6 DEF CloseClient, TypeOK
  <2>2. out' \in Seq(Frames) /\ inn' \in Seq(Incoming)
    BY <1>6, EmptySeq DEF CloseClient
  <2> QED
    BY <1>6, <2>1, <2>2 DEF CloseClient, TypeOK, chanVars
<1> QED
  BY <1>1, <1>2, <1>3, <1>4, <1>5, <1>6

LEMMA TypeOfReceive ==
  ASSUME TypeOK, Receive
  PROVE  TypeOK'
<1> DEFINE m == Head(inn)
<1>1. m \in Incoming /\ inn' \in Seq(Incoming)
  BY HeadTailProperties DEF Receive, TypeOK
<1>2. ASSUME Reply(m)
      PROVE  m.ref \in Refs /\ StatusOf(m) \in {"ok", "error"}
  BY <1>1, <1>2 DEF Reply, Incoming, StatusOf
<1>3. CASE Reply(m) /\ UnexpectedReply(m)
  BY <1>1, <1>3 DEF Receive, UnexpectedReply, TypeOK
<1>4. CASE Reply(m) /\ JoinReply(m)
  <2>1. acks' \in [Refs -> Entries]
    BY <1>2, <1>4, UnwatchedTyped DEF JoinReply, Refs
  <2>2. joinPush' \in Records
    BY <1>2, <1>4, AnsweredFields DEF JoinReply, TypeOK, Records
  <2>3. CASE m.event = "failed"
    <3>1. notice' \in Statuses \cup {"none"}
      BY <1>4, <2>3 DEF JoinReply, OnJoinPushError, TypeOK, Statuses
    <3> QED
      BY <1>1, <1>4, <2>1, <2>2, <2>3, <3>1
         DEF Receive, JoinReply, OnJoinPushError, TypeOK, Records, Entries
  <2>4. CASE m.event # "failed"
    <3> DEFINE mismatch == m.event = "mismatch"
    <3>1. OnJoinPushOk(mismatch)
      BY <1>4, <2>4 DEF JoinReply
    <3>2. notice' \in Statuses \cup {"none"}
      BY <3>1 DEF OnJoinPushOk, TypeOK, Statuses
    <3>3. state' \in ChannelStates /\ rejoinArmed' \in BOOLEAN
      BY <3>1 DEF OnJoinPushOk, ChannelStates
    <3>4. pushBuffer' \in Seq(Pushes)
      BY <3>1, EmptySeq DEF OnJoinPushOk
    <3>5. ready' \in Seq(Pushes \cup {"unsubscribe"})
      <4> DEFINE T == Pushes \cup {"unsubscribe"}
      <4>1. ready \in Seq(T) /\ pushBuffer \in Seq(T)
        BY SeqMonotonic DEF TypeOK
      <4>2. <<"unsubscribe">> \in Seq(T) /\ <<>> \in Seq(T)
        OBVIOUS
      <4>3. ready \o pushBuffer \in Seq(T)
        BY <4>1, ConcatProperties
      <4>4. /\ (ready \o pushBuffer) \o <<"unsubscribe">> \in Seq(T)
            /\ (ready \o pushBuffer) \o <<>> \in Seq(T)
        BY <4>2, <4>3, ConcatProperties
      <4> QED
        BY <3>1, <4>4 DEF OnJoinPushOk
    <3> QED
      BY <1>1, <1>4, <2>1, <2>2, <3>2, <3>3, <3>4, <3>5
         DEF Receive, JoinReply, TypeOK, Records, Entries
  <2> QED
    BY <2>3, <2>4
<1>5. CASE Reply(m) /\ LeaveReply(m)
  <2>1. acks' \in [Refs -> Entries]
    BY <1>2, <1>5, UnwatchedTyped DEF LeaveReply, Refs
  <2> QED
    BY <1>1, <1>5, <2>1
       DEF Receive, LeaveReply, OnClose, TypeOK, Entries, ChannelStates
<1>6. CASE Reply(m) /\ PushReply(m)
  <2>1. acks' \in [Refs -> Entries]
    BY <1>2, <1>6, UnwatchedTyped DEF PushReply, Refs
  <2>2. push' \in [Pushes -> Records]
    BY <1>2, <1>6, AnsweredFields DEF PushReply, TypeOK, Records
  <2>3. traffic' \in Traffics
    BY <1>6, TrafficCounted DEF PushReply, TypeOK
  <2> QED
    BY <1>1, <1>6, <2>1, <2>2, <2>3
       DEF Receive, PushReply, TypeOK, Records, Entries
<1>7. CASE ErrorEvent(m)
  <2>1. state' \in ChannelStates /\ rejoinArmed' \in BOOLEAN
    BY <1>7 DEF ErrorEvent, OnError, TypeOK, ChannelStates
  <2> QED
    BY <1>1, <1>7, <2>1 DEF Receive, ErrorEvent, TypeOK
<1>8. CASE CloseEvent(m)
  BY <1>1, <1>8 DEF Receive, CloseEvent, OnClose, TypeOK, ChannelStates
<1>9. CASE UNCHANGED <<state, joinPush, push, traffic, acks, pushBuffer, ready,
                       rejoinArmed, notice, registered, listening>>
  BY <1>1, <1>9 DEF Receive, TypeOK
<1> QED
  BY <1>3, <1>4, <1>5, <1>6, <1>7, <1>8, <1>9 DEF Receive, Reply

LEMMA TypeOfServer ==
  ASSUME TypeOK, ServerHandle \/ ServerEvent
  PROVE  TypeOK'
<1>1. CASE ServerHandle
  <2> DEFINE f == Head(out)
  <2>1. f \in Frames /\ out' \in Seq(Frames)
    BY <1>1, HeadTailProperties DEF ServerHandle, TypeOK
  <2>2. srvJoined' \in BOOLEAN /\ excuse' \in {"none", "refused", "closed"}
    BY <1>1, <2>1 DEF ServerHandle, TypeOK, Frames
  <2>3. inn' \in Seq(Incoming)
    <3>1. CASE UNCHANGED inn
      BY <3>1 DEF TypeOK
    <3>2. ASSUME NEW a \in Answers(f),
                 inn' = Append(inn, [event |-> a, ref |-> f.ref])
          PROVE  inn' \in Seq(Incoming)
      <4>1. a \in {"ok", "mismatch", "failed"}
        BY DEF Answers
      <4>2. [event |-> a, ref |-> f.ref] \in Incoming
        BY <2>1, <4>1 DEF Incoming, Frames
      <4> QED
        BY <3>2, <4>2, AppendProperties DEF TypeOK
    <3> QED
      BY <1>1, <3>1, <3>2 DEF ServerHandle
  <2> QED
    BY <1>1, <2>1, <2>2, <2>3
       DEF ServerHandle, TypeOK, chanVars, clientVars
<1>2. CASE ServerEvent
  <2>1. PICK e \in {"error", "close"} :
          /\ inn' = Append(inn, [event |-> e, ref |-> 0])
          /\ srvJoined' \in IF e = "close" THEN {FALSE} ELSE BOOLEAN
    BY <1>2 DEF ServerEvent
  <2>2. [event |-> e, ref |-> 0] \in Incoming
    BY DEF Incoming
  <2>3. inn' \in Seq(Incoming)
    BY <2>1, <2>2, AppendProperties DEF TypeOK
  <2>4. srvJoined' \in BOOLEAN
    BY <2>1
  <2>5. events' \in 0..MaxServerEvents
    BY <1>2 DEF ServerEvent, TypeOK
  <2> QED
    BY <1>2, <2>3, <2>4, <2>5 DEF ServerEvent, TypeOK, chanVars, clientVars
<1> QED
  BY <1>1, <1>2

LEMMA TypeOfInit == Init => TypeOK
<1> SUFFICES ASSUME Init PROVE TypeOK
  OBVIOUS
<1>1. joinPush \in Records /\ push \in [Pushes -> Records]
  BY NewPushFields DEF Init
<1>2. acks \in [Refs -> Entries]
  BY DEF Init, Entries
<1>3. /\ pushBuffer \in Seq(Pushes)
      /\ ready \in Seq(Pushes \cup {"unsubscribe"})
      /\ sendBuffer \in Seq(Frames)
      /\ out \in Seq(Frames)
      /\ inn \in Seq(Incoming)
  BY EmptySeq DEF Init
<1>4. /\ state \in ChannelStates
      /\ hooks \subseteq {"ok", "error", "timeout"}
      /\ left \in Nat /\ notice \in Statuses \cup {"none"}
      /\ socket \in {"new", "open", "down"}
  BY DEF Init, ChannelStates
<1>5. /\ joinedOnce \in BOOLEAN /\ rejoinArmed \in BOOLEAN
      /\ registered \in BOOLEAN /\ listening \in BOOLEAN
      /\ srvJoined \in BOOLEAN /\ excuse \in {"none", "refused", "closed"}
  BY DEF Init
<1>6. /\ unsubs \in 0..MaxUnsubscribes /\ ref \in 0..MaxRef /\ due \in Nat
      /\ faults \in 0..MaxFaults /\ events \in 0..MaxServerEvents
      /\ closes \in 0..MaxCloses /\ traffic \in Traffics
  BY DEF Init, Traffics
<1> QED
  BY <1>1, <1>2, <1>3, <1>4, <1>5, <1>6 DEF TypeOK, Records, Entries

LEMMA TypeOfNext == TypeOK /\ [Next]_vars => TypeOK'
<1> SUFFICES ASSUME TypeOK, [Next]_vars PROVE TypeOK'
  OBVIOUS
<1>1. CASE UNCHANGED vars
  BY <1>1 DEF TypeOK, vars, chanVars, clientVars, netVars
<1> QED
  BY <1>1, TypeOfApplication, TypeOfLoop, TypeOfConnection, TypeOfReceive,
     TypeOfServer DEF Next

(* Type correctness of the channel and its environment.                    *)
THEOREM TypeCorrect == Spec => []TypeOK
  BY TypeOfInit, TypeOfNext, PTL DEF Spec

-----------------------------------------------------------------------------
(* The timers.  The three properties hold each other up: a leave resets    *)
(* the rejoin timer because the channel then is neither errored nor        *)
(* joining, and so does an answered join or a close.                       *)

TimerInv == ErroredIsRetried /\ RetryOnlyWhileRecovering /\ LeavingIsQuiet

LEMMA TimersOfRejoin ==
  ASSUME TypeOK, TimerInv, Rejoin
  PROVE  TimerInv'
<1> USE DEF TimerInv, ErroredIsRetried, RetryOnlyWhileRecovering,
            LeavingIsQuiet
<1>1. CASE UNCHANGED <<ref, state, rejoinArmed, joinPush, acks, out,
                       sendBuffer, left>>
  BY <1>1
<1>2. CASE JoinAgain
  BY <1>2 DEF JoinAgain
<1>3. CASE LeaveAndJoinAgain
  BY <1>3 DEF LeaveAndJoinAgain
<1>4. CASE Leave
  BY <1>4, DestroyedFields DEF Leave, TypeOK, Records
<1> QED
  BY <1>1, <1>2, <1>3, <1>4 DEF Rejoin

LEMMA TimersOfReceive ==
  ASSUME TypeOK, TimerInv, Receive
  PROVE  TimerInv'
<1> USE DEF TimerInv, ErroredIsRetried, RetryOnlyWhileRecovering,
            LeavingIsQuiet
<1> DEFINE m == Head(inn)
<1>1. CASE UnexpectedReply(m)
  BY <1>1 DEF UnexpectedReply
<1>2. CASE JoinReply(m)
  <2>1. joinPush'.timer = joinPush.timer
    <3>1. StatusOf(m) \in {"ok", "error"}
      BY DEF StatusOf
    <3> QED
      BY <1>2, <3>1, AnsweredFields DEF JoinReply, TypeOK, Records
  <2> QED
    BY <1>2, <2>1 DEF JoinReply, OnJoinPushError, OnJoinPushOk
<1>3. CASE LeaveReply(m)
  BY <1>3 DEF LeaveReply, OnClose
<1>4. CASE PushReply(m)
  BY <1>4 DEF PushReply
<1>5. CASE ErrorEvent(m)
  BY <1>5 DEF ErrorEvent, OnError
<1>6. CASE CloseEvent(m)
  BY <1>6 DEF CloseEvent, OnClose
<1>7. CASE UNCHANGED <<state, joinPush, rejoinArmed>>
  BY <1>7
<1> QED
  BY <1>1, <1>2, <1>3, <1>4, <1>5, <1>6, <1>7 DEF Receive, Reply

LEMMA TimersOfInit == Init => TimerInv
  BY DEF Init, TimerInv, ErroredIsRetried, RetryOnlyWhileRecovering,
         LeavingIsQuiet

LEMMA TimersOfNext == TypeOK /\ TimerInv /\ [Next]_vars => TimerInv'
<1> SUFFICES ASSUME TypeOK, TimerInv, [Next]_vars PROVE TimerInv'
  OBVIOUS
<1> USE DEF TimerInv, ErroredIsRetried, RetryOnlyWhileRecovering,
            LeavingIsQuiet
<1>1. CASE Subscribe \/ RejoinTimerFires
  BY <1>1, TimersOfRejoin DEF Subscribe, RejoinTimerFires
<1>2. CASE Unsubscribe
  BY <1>2, DestroyedFields DEF Unsubscribe, Leave, TypeOK, Records
<1>3. CASE RunReady
  <2>1. CASE Leave
    BY <2>1, DestroyedFields DEF Leave, TypeOK, Records
  <2>2. CASE UNCHANGED <<state, rejoinArmed, joinPush>>
    BY <2>2
  <2> QED
    BY <1>3, <2>1, <2>2 DEF RunReady
<1>4. CASE JoinTimeout
  BY <1>4, TimedOutFields DEF JoinTimeout, TypeOK, Records
<1>5. CASE ResumeRejoin
  BY <1>5 DEF ResumeRejoin, JoinAgain
<1>6. CASE Receive
  BY <1>6, TimersOfReceive
<1>7. CASE RejoinDue
  BY <1>7, TimersOfRejoin DEF RejoinDue
<1>8. CASE UNCHANGED <<state, rejoinArmed, joinPush>>
  BY <1>8
<1>9. ASSUME \/ \E p \in Pushes : Push(p) \/ PushTimeout(p)
             \/ RawJoin \/ AbandonRejoin \/ Connect \/ Disconnect
             \/ CloseClient \/ Reconnect \/ AbandonDue
             \/ ServerHandle \/ ServerEvent
             \/ \E r \in Refs : LeaveTimeout(r)
             \/ UNCHANGED vars
      PROVE  UNCHANGED <<state, rejoinArmed, joinPush>>
  BY <1>9 DEF Push, PushTimeout, RawJoin, AbandonRejoin, Connect, Disconnect,
              CloseClient, Reconnect, AbandonDue, ServerHandle, ServerEvent,
              LeaveTimeout, vars, chanVars
<1> QED
  BY <1>1, <1>2, <1>3, <1>4, <1>5, <1>6, <1>7, <1>8, <1>9 DEF Next

(* An errored channel always has its next try scheduled.                   *)
THEOREM ErroredChannelsAreRetried == Spec => []ErroredIsRetried
<1>1. TimerInv => ErroredIsRetried
  BY DEF TimerInv
<1> QED
  BY <1>1, TypeOfInit, TypeOfNext, TimersOfInit, TimersOfNext, PTL DEF Spec

(* A channel that is joined, left or closed has no rejoin scheduled.       *)
THEOREM OnlyRecoveringChannelsAreRetried == Spec => []RetryOnlyWhileRecovering
<1>1. TimerInv => RetryOnlyWhileRecovering
  BY DEF TimerInv
<1> QED
  BY <1>1, TypeOfInit, TypeOfNext, TimersOfInit, TimersOfNext, PTL DEF Spec

(* A channel that is being left has no timer that could act on it.         *)
THEOREM LeavingChannelsAreQuiet == Spec => []LeavingIsQuiet
<1>1. TimerInv => LeavingIsQuiet
  BY DEF TimerInv
<1> QED
  BY <1>1, TypeOfInit, TypeOfNext, TimersOfInit, TimersOfNext, PTL DEF Spec

-----------------------------------------------------------------------------
(* A channel that joins has a way out.  This needs to know that a          *)
(* registered closed channel never joined, so that its first join starts a *)
(* timeout; that every other join follows an error, whose retry is         *)
(* scheduled, or a leave, which forgets the timeout task; and that no      *)
(* _rejoin() is suspended in between.                                      *)

WayOut ==
  "backpressure" \notin Env =>
    /\ left = 0
    /\ registered /\ state = "joining"
         => rejoinArmed \/ joinPush.timer = "running"
    /\ registered /\ state = "closed" => joinPush.timer = "none"

LEMMA WayOutOfRejoin ==
  ASSUME TypeOK, TimerInv, WayOut, Rejoin, UNCHANGED registered
  PROVE  WayOut'
<1> SUFFICES ASSUME "backpressure" \notin Env PROVE WayOut'
  BY DEF WayOut
<1> USE DEF WayOut
<1>1. CASE UNCHANGED <<ref, state, rejoinArmed, joinPush, acks, out,
                       sendBuffer, left>>
  BY <1>1
<1>2. CASE /\ state # "leaving" /\ ~OpenTopic
           /\ JoinAgain
           /\ UNCHANGED <<rejoinArmed, left>>
  <2>1. ref + 1 \in 0..MaxRef
    BY <1>2 DEF JoinAgain, MakeRefs, TypeOK
  <2>2. registered => state \in {"closed", "errored"}
    BY <1>2 DEF OpenTopic, TypeOK, ChannelStates
  <2>3. joinPush.timer = "none" => joinPush'.timer = "running"
    BY <1>2, <2>1, ResentFields DEF JoinAgain, TypeOK, Records
  <2>4. state = "errored" => rejoinArmed
    BY DEF TimerInv, ErroredIsRetried
  <2> QED
    BY <1>2, <2>2, <2>3, <2>4 DEF JoinAgain
<1>3. CASE LeaveAndJoinAgain /\ UNCHANGED left
  <2>1. ref + 2 \in 0..MaxRef
    BY <1>3 DEF LeaveAndJoinAgain, MakeRefs, TypeOK
  <2>2. Destroyed(joinPush) \in Records /\ Destroyed(joinPush).timer = "none"
    BY DestroyedFields DEF TypeOK, Records
  <2>3. joinPush'.timer = "running"
    BY <1>3, <2>1, <2>2, ResentFields DEF LeaveAndJoinAgain
  <2> QED
    BY <1>3, <2>3 DEF LeaveAndJoinAgain
<1> QED
  BY <1>1, <1>2, <1>3 DEF Rejoin

LEMMA WayOutOfReceive ==
  ASSUME TypeOK, WayOut, Receive
  PROVE  WayOut'
<1> USE DEF WayOut
<1> DEFINE m == Head(inn)
<1>0. left' = left
  BY DEF Receive
<1>1. CASE UnexpectedReply(m)
  BY <1>0, <1>1 DEF UnexpectedReply
<1>2. CASE JoinReply(m)
  <2>1. StatusOf(m) \in {"ok", "error"}
    BY DEF StatusOf
  <2>2. joinPush'.timer = joinPush.timer
    BY <1>2, <2>1, AnsweredFields DEF JoinReply, TypeOK, Records
  <2> QED
    BY <1>0, <1>2, <2>2 DEF JoinReply, OnJoinPushError, OnJoinPushOk
<1>3. CASE LeaveReply(m)
  BY <1>0, <1>3 DEF LeaveReply, OnClose
<1>4. CASE PushReply(m)
  BY <1>0, <1>4 DEF PushReply
<1>5. CASE ErrorEvent(m)
  BY <1>0, <1>5 DEF ErrorEvent, OnError
<1>6. CASE CloseEvent(m)
  BY <1>0, <1>6 DEF CloseEvent, OnClose
<1>7. CASE UNCHANGED <<state, joinPush, rejoinArmed, registered>>
  BY <1>0, <1>7
<1> QED
  BY <1>1, <1>2, <1>3, <1>4, <1>5, <1>6, <1>7 DEF Receive, Reply

LEMMA WayOutOfInit == Init => WayOut
  BY NewPushFields DEF Init, WayOut

LEMMA WayOutOfNext == TypeOK /\ TimerInv /\ WayOut /\ [Next]_vars => WayOut'
<1> SUFFICES ASSUME TypeOK, TimerInv, WayOut, [Next]_vars PROVE WayOut'
  OBVIOUS
<1> USE DEF WayOut
<1>1. CASE Subscribe \/ RejoinTimerFires
  BY <1>1, WayOutOfRejoin DEF Subscribe, RejoinTimerFires
<1>2. CASE Unsubscribe
  BY <1>2 DEF Unsubscribe, Leave
<1>3. CASE RunReady
  BY <1>3 DEF RunReady, Leave
<1>4. CASE JoinTimeout
  BY <1>4, TimedOutFields DEF JoinTimeout, TypeOK, Records, clientVars
<1>5. CASE ResumeRejoin \/ AbandonRejoin
  BY <1>5 DEF ResumeRejoin, AbandonRejoin
<1>6. CASE Receive
  BY <1>6, WayOutOfReceive
<1>7. CASE RejoinDue
  BY <1>7, WayOutOfRejoin DEF RejoinDue
<1>8. CASE UNCHANGED <<state, rejoinArmed, joinPush, left, registered>>
  BY <1>8
<1>9. ASSUME \/ \E p \in Pushes : Push(p) \/ PushTimeout(p)
             \/ RawJoin \/ Connect \/ Disconnect
             \/ CloseClient \/ Reconnect \/ AbandonDue
             \/ ServerHandle \/ ServerEvent
             \/ \E r \in Refs : LeaveTimeout(r)
             \/ UNCHANGED vars
      PROVE  UNCHANGED <<state, rejoinArmed, joinPush, left, registered>>
  BY <1>9 DEF Push, PushTimeout, RawJoin, Connect, Disconnect,
              CloseClient, Reconnect, AbandonDue, ServerHandle, ServerEvent,
              LeaveTimeout, vars, chanVars, clientVars
<1> QED
  BY <1>1, <1>2, <1>3, <1>4, <1>5, <1>6, <1>7, <1>8, <1>9 DEF Next

(* No registered channel waits for the answer to its join without a        *)
(* timeout or a retry that will end the wait.                              *)
THEOREM JoiningChannelsHaveAWayOut == Spec => []JoiningHasAWayOut
<1>1. WayOut => JoiningHasAWayOut
  BY DEF WayOut, JoiningHasAWayOut
<1> QED
  BY <1>1, TypeOfInit, TypeOfNext, TimersOfInit, TimersOfNext, WayOutOfInit,
     WayOutOfNext, PTL DEF Spec

-----------------------------------------------------------------------------
(* The pushes of the application: where they wait, and the table of the    *)
(* ones that were sent. *)

PushInv == PushesWaitOnce /\ AcksAreWatched

(* The pushes stay as they are, and no entry of the table becomes one.     *)
PushesUntouched ==
  /\ UNCHANGED <<push, traffic, pushBuffer, ready>>
  /\ \A r \in Refs : acks'[r] \in Pushes => acks'[r] = acks[r]

LEMMA UntouchedKeeps ==
  ASSUME PushInv, PushesUntouched
  PROVE  PushInv'
  BY DEF PushInv, PushesUntouched, PushesWaitOnce, AcksAreWatched, NoRepeat,
         Unsent

LEMMA NamesDiffer ==
  "none" \notin Pushes /\ "join" \notin Pushes /\ "leave" \notin Pushes
    /\ "unsubscribe" \notin Pushes
  OBVIOUS

LEMMA RejoinRegistersNoPush ==
  ASSUME TypeOK, Rejoin, UNCHANGED <<push, traffic, pushBuffer, ready>>
  PROVE  PushesUntouched
<1> USE NamesDiffer DEF PushesUntouched, TypeOK
<1>1. CASE UNCHANGED acks
  BY <1>1
<1>2. CASE JoinAgain
  BY <1>2 DEF JoinAgain
<1>3. CASE LeaveAndJoinAgain
  BY <1>3 DEF LeaveAndJoinAgain
<1>4. CASE Leave
  BY <1>4 DEF Leave
<1> QED
  BY <1>1, <1>2, <1>3, <1>4 DEF Rejoin

LEMMA UnwatchedRegistersNoPush ==
  ASSUME NEW x, acks' = Unwatched(x),
         UNCHANGED <<push, traffic, pushBuffer, ready>>
  PROVE  PushesUntouched
  BY NamesDiffer DEF PushesUntouched, Unwatched

(* A push that was never sent is sent.                                     *)
LEMMA SendRegisters ==
  ASSUME TypeOK, AcksAreWatched, NEW p \in Pushes, SendPush(p),
         push[p].ref = 0, push[p].resp = "none", push[p].timer # "done"
  PROVE  AcksAreWatched'
<1>1. ref + 1 \in Refs /\ ref + 1 \in 0..MaxRef
  BY DEF TypeOK, SendPush, MakeRefs, Refs
<1>2. push[p] \in Records /\ push[p].timer \in {"none", "running"}
  BY DEF TypeOK, Records, PushRecords
<1>3. /\ push'[p].ref = ref + 1
      /\ push'[p].resp = "none"
      /\ push'[p].timer = "running"
  BY <1>1, <1>2, SentFields DEF SendPush, TypeOK
<1>4. \A q \in Pushes \ {p} : push'[q] = push[q]
  BY DEF SendPush, TypeOK
<1>5. acks'[ref + 1] = p /\ \A r \in Refs \ {ref + 1} : acks'[r] = acks[r]
  BY <1>1 DEF SendPush, TypeOK
<1>6. \A r \in Refs : acks[r] # p
  BY DEF AcksAreWatched, Refs
<1> QED
  BY <1>3, <1>4, <1>5, <1>6 DEF AcksAreWatched

LEMMA PushKeeps ==
  ASSUME TypeOK, PushInv, NEW p \in Pushes, Push(p)
  PROVE  PushInv'
<1>1. push[p].ref = 0 /\ push[p].resp = "none" /\ push[p].timer = "none"
  BY NewPushFields DEF Push
<1>2. /\ \A i \in 1..Len(pushBuffer) : pushBuffer[i] # p
      /\ \A j \in 1..Len(ready) : ready[j] # p
  BY <1>1 DEF PushInv, PushesWaitOnce, Unsent
<1>3. \A q \in Pushes \ {p} : push'[q] = push[q]
  BY DEF Push, SendPush, TypeOK
<1>4. \A i \in 1..Len(pushBuffer) : pushBuffer[i] \in Pushes
  BY ElementOfSeq DEF TypeOK
<1>5. CASE SendPush(p) /\ UNCHANGED pushBuffer
  <2>1. AcksAreWatched'
    BY <1>1, <1>5, SendRegisters DEF PushInv
  <2>2. PushesWaitOnce'
    BY <1>2, <1>3, <1>4, <1>5
       DEF Push, PushInv, PushesWaitOnce, NoRepeat, Unsent
  <2> QED
    BY <2>1, <2>2 DEF PushInv
<1>6. CASE /\ push' = [push EXCEPT ![p] = TimeoutStarted(@)]
           /\ pushBuffer' = Append(pushBuffer, p)
           /\ UNCHANGED <<ref, acks, out, sendBuffer>>
  <2>1. Unsent(push'[p])
    <3>1. push[p] \in Records
      BY DEF TypeOK, Records
    <3>2. push'[p] = TimeoutStarted(push[p])
      BY <1>6 DEF TypeOK
    <3> QED
      BY <1>1, <3>1, <3>2, TimeoutStartedFields DEF Unsent
  <2>2. /\ Len(pushBuffer') = Len(pushBuffer) + 1
        /\ \A i \in 1..Len(pushBuffer) : pushBuffer'[i] = pushBuffer[i]
        /\ pushBuffer'[Len(pushBuffer) + 1] = p
        /\ Len(pushBuffer) \in Nat
    BY <1>6, AppendProperties, LenProperties DEF TypeOK
  <2>3. UNCHANGED ready
    BY DEF Push
  <2>4. NoRepeat(pushBuffer')
    BY <1>2, <2>2 DEF NoRepeat, PushInv, PushesWaitOnce
  <2>5. \A i \in 1..Len(pushBuffer') : Unsent(push'[pushBuffer'[i]])
    BY <1>2, <1>3, <1>4, <2>1, <2>2 DEF PushInv, PushesWaitOnce
  <2>6. \A j \in 1..Len(ready) :
          ready[j] \in Pushes => Unsent(push'[ready[j]])
    BY <1>2, <1>3 DEF PushInv, PushesWaitOnce
  <2>7. \A i \in 1..Len(pushBuffer'), j \in 1..Len(ready) :
          pushBuffer'[i] # ready[j]
    BY <1>2, <2>2 DEF PushInv, PushesWaitOnce
  <2>8. PushesWaitOnce'
    BY <2>3, <2>4, <2>5, <2>6, <2>7
       DEF PushesWaitOnce, NoRepeat, PushInv, Unsent
  <2>9. AcksAreWatched'
    BY <1>1, <1>3, <1>6 DEF PushInv, AcksAreWatched
  <2> QED
    BY <2>8, <2>9 DEF PushInv
<1> QED
  BY <1>5, <1>6 DEF Push

(* The tasks that remain when the first one has run.                       *)
LEMMA TailOfReady ==
  ASSUME TypeOK, ready # <<>>
  PROVE  /\ Len(ready) \in Nat \ {0}
         /\ ready[1] = Head(ready)
         /\ Len(Tail(ready)) = Len(ready) - 1
         /\ \A j \in 1..Len(Tail(ready)) :
              Tail(ready)[j] = ready[j + 1] /\ j + 1 \in 1..Len(ready)
<1> USE DEF TypeOK
<1>1. Len(ready) \in Nat \ {0}
  BY EmptySeq
<1>2. /\ Len(Tail(ready)) = Len(ready) - 1
      /\ \A j \in 1..Len(Tail(ready)) : Tail(ready)[j] = ready[j + 1]
  BY HeadTailProperties
<1>3. \A j \in 1..(Len(ready) - 1) : j + 1 \in 1..Len(ready)
  BY <1>1
<1> QED
  BY <1>1, <1>2, <1>3

LEMMA RunReadyKeeps ==
  ASSUME TypeOK, PushInv, RunReady
  PROVE  PushInv'
<1> DEFINE p == Head(ready)
<1>1. /\ ready # <<>> /\ ready' = Tail(ready) /\ UNCHANGED pushBuffer
  BY DEF RunReady
<1>2. /\ Len(ready) \in Nat \ {0}
      /\ ready[1] = p
      /\ Len(ready') = Len(ready) - 1
      /\ \A j \in 1..Len(ready') :
           ready'[j] = ready[j + 1] /\ j + 1 \in 1..Len(ready)
  BY <1>1, TailOfReady
<1>3. NoRepeat(ready')
  BY <1>2 DEF NoRepeat, PushInv, PushesWaitOnce
<1>4. \A i \in 1..Len(pushBuffer), j \in 1..Len(ready') :
        pushBuffer[i] # ready'[j]
  BY <1>2 DEF PushInv, PushesWaitOnce
<1>5. \A i \in 1..Len(pushBuffer) : pushBuffer[i] \in Pushes
  BY ElementOfSeq DEF TypeOK
<1>6. CASE Leave /\ UNCHANGED <<push, traffic>>
  <2>1. \A r \in Refs : acks'[r] \in Pushes => acks'[r] = acks[r]
    BY <1>6, NamesDiffer DEF Leave, TypeOK
  <2>2. AcksAreWatched'
    BY <1>6, <2>1 DEF PushInv, AcksAreWatched
  <2>3. PushesWaitOnce'
    BY <1>1, <1>2, <1>3, <1>4, <1>6
       DEF PushInv, PushesWaitOnce, NoRepeat, Unsent
  <2> QED
    BY <2>2, <2>3 DEF PushInv
<1>7. CASE p \in Pushes /\ MayBeSent(push[p]) /\ SendPush(p)
  <2>1. /\ push[p].ref = 0
        /\ push[p].resp = "none" /\ push[p].timer = "running"
    <3>1. 1 \in 1..Len(ready)
      BY <1>2
    <3>2. Unsent(push[p])
      BY <1>2, <1>7, <3>1 DEF PushInv, PushesWaitOnce
    <3> QED
      BY <1>7, <3>2 DEF Unsent, MayBeSent
  <2>2. AcksAreWatched'
    BY <1>7, <2>1, SendRegisters DEF PushInv
  <2>3. \A q \in Pushes \ {p} : push'[q] = push[q]
    BY <1>7 DEF SendPush, TypeOK
  <2>4. \A j \in 1..Len(ready') : ready'[j] # p
    <3> SUFFICES ASSUME NEW j \in 1..Len(ready'), ready'[j] = p PROVE FALSE
      OBVIOUS
    <3>1. ready[j + 1] = ready[1] /\ j + 1 \in 1..Len(ready)
      BY <1>2
    <3>2. j + 1 = 1
      BY <1>2, <1>7, <3>1 DEF PushInv, PushesWaitOnce, NoRepeat
    <3> QED
      BY <3>2
  <2>5. \A i \in 1..Len(pushBuffer) : pushBuffer[i] # p
    BY <1>2 DEF PushInv, PushesWaitOnce
  <2>6. \A i \in 1..Len(pushBuffer) : Unsent(push'[pushBuffer[i]])
    BY <1>5, <2>3, <2>5 DEF PushInv, PushesWaitOnce
  <2>7. \A j \in 1..Len(ready') :
          ready'[j] \in Pushes => Unsent(push'[ready'[j]])
    BY <1>2, <2>3, <2>4 DEF PushInv, PushesWaitOnce
  <2>8. PushesWaitOnce'
    BY <1>1, <1>3, <1>4, <2>6, <2>7
       DEF PushInv, PushesWaitOnce, NoRepeat, Unsent
  <2> QED
    BY <2>2, <2>8 DEF PushInv
<1>8. CASE UNCHANGED <<push, traffic, acks>>
  <2>1. AcksAreWatched'
    BY <1>8 DEF PushInv, AcksAreWatched
  <2>2. PushesWaitOnce'
    BY <1>1, <1>2, <1>3, <1>4, <1>8
       DEF PushInv, PushesWaitOnce, NoRepeat, Unsent
  <2> QED
    BY <2>1, <2>2 DEF PushInv
<1> QED
  BY <1>6, <1>7, <1>8 DEF RunReady

LEMMA PushTimeoutKeeps ==
  ASSUME TypeOK, PushInv, NEW p \in Pushes, PushTimeout(p)
  PROVE  PushInv'
<1>1. push[p] \in Records /\ push'[p] = TimedOut(push[p])
  BY DEF PushTimeout, TypeOK, Records
<1>2. /\ push'[p].ref = push[p].ref
      /\ push'[p].resp = "timeout" /\ push'[p].timer = "done"
  BY <1>1, TimedOutFields
<1>3. \A q \in Pushes \ {p} : push'[q] = push[q]
  BY DEF PushTimeout, TypeOK
<1>4. UNCHANGED <<pushBuffer, ready>>
  BY DEF PushTimeout
<1>5. \A q \in Pushes : Unsent(push[q]) => Unsent(push'[q])
  BY <1>2, <1>3 DEF Unsent
<1>6. \A i \in 1..Len(pushBuffer) : pushBuffer[i] \in Pushes
  BY ElementOfSeq DEF TypeOK
<1>7. PushesWaitOnce'
  BY <1>4, <1>5, <1>6 DEF PushInv, PushesWaitOnce, NoRepeat, Unsent
<1>8. \A r \in Refs : acks'[r] \in Pushes => acks'[r] = acks[r] /\ acks[r] # p
  <2> SUFFICES ASSUME NEW r \in Refs, acks'[r] \in Pushes
               PROVE  acks'[r] = acks[r] /\ acks[r] # p
    OBVIOUS
  <2>1. r # push[p].ref /\ acks'[r] = acks[r]
    BY NamesDiffer DEF PushTimeout, Unwatched
  <2> QED
    BY <2>1 DEF PushInv, AcksAreWatched
<1>9. AcksAreWatched'
  BY <1>3, <1>8 DEF PushInv, AcksAreWatched
<1> QED
  BY <1>7, <1>9 DEF PushInv

(* A join is answered: the buffered pushes become tasks, after the tasks   *)
(* that wait already and before the unsubscribe() of a mismatch.           *)
LEMMA FlushKeeps ==
  ASSUME TypeOK, PushInv, NEW mismatch \in BOOLEAN, OnJoinPushOk(mismatch),
         UNCHANGED <<push, traffic>>
  PROVE  PushesWaitOnce'
<1> DEFINE B == Len(pushBuffer)
           R == Len(ready)
           U == IF mismatch /\ "ok" \in hooks THEN <<"unsubscribe">> ELSE <<>>
           T == Pushes \cup {"unsubscribe"}
<1>1. /\ ready \in Seq(T) /\ pushBuffer \in Seq(T) /\ U \in Seq(T)
      /\ B \in Nat /\ R \in Nat
  <2>1. ready \in Seq(T) /\ pushBuffer \in Seq(T)
    BY SeqMonotonic DEF TypeOK
  <2>2. B \in Nat /\ R \in Nat
    BY <2>1, LenProperties
  <2>3. <<"unsubscribe">> \in Seq(T) /\ <<>> \in Seq(T)
    OBVIOUS
  <2> QED
    BY <2>1, <2>2, <2>3
<1>2. /\ Len(U) \in 0..1
      /\ \A i \in 1..Len(U) : U[i] = "unsubscribe"
  OBVIOUS
<1>3. /\ ready \o pushBuffer \in Seq(T)
      /\ Len(ready \o pushBuffer) = R + B
      /\ \A i \in 1..(R + B) :
           (ready \o pushBuffer)[i] = IF i <= R THEN ready[i]
                                                ELSE pushBuffer[i - R]
  BY <1>1, ConcatProperties
<1>4. ready' = (ready \o pushBuffer) \o U
  BY DEF OnJoinPushOk
<1> HIDE DEF U
<1>5. /\ Len(ready') = R + B + Len(U)
      /\ \A i \in 1..(R + B + Len(U)) :
           ready'[i] = IF i <= R + B THEN (ready \o pushBuffer)[i]
                                     ELSE U[i - (R + B)]
  BY <1>1, <1>3, <1>4, ConcatProperties
<1>6. \A i \in 1..Len(ready') :
        /\ i <= R => ready'[i] = ready[i]
        /\ i > R /\ i <= R + B => ready'[i] = pushBuffer[i - R]
        /\ i > R + B => ready'[i] = "unsubscribe"
  <2> SUFFICES ASSUME NEW i \in 1..Len(ready')
               PROVE  /\ i <= R => ready'[i] = ready[i]
                      /\ i > R /\ i <= R + B => ready'[i] = pushBuffer[i - R]
                      /\ i > R + B => ready'[i] = "unsubscribe"
    OBVIOUS
  <2>1. CASE i <= R + B
    BY <1>1, <1>2, <1>3, <1>5, <2>1
  <2>2. CASE i > R + B
    <3>1. i - (R + B) \in 1..Len(U)
      BY <1>1, <1>2, <1>5, <2>2
    <3> QED
      BY <1>1, <1>2, <1>5, <2>2, <3>1
  <2> QED
    BY <1>1, <1>2, <1>5, <2>1, <2>2
<1>7. /\ NoRepeat(ready) /\ NoRepeat(pushBuffer)
      /\ \A i \in 1..B, j \in 1..R : pushBuffer[i] # ready[j]
  BY DEF PushInv, PushesWaitOnce
<1>8. \A i \in 1..B : pushBuffer[i] \in Pushes
  BY ElementOfSeq DEF TypeOK
<1>9. NoRepeat(ready')
  <2> SUFFICES ASSUME NEW i \in 1..Len(ready'), NEW j \in 1..Len(ready'),
                      ready'[i] \in Pushes, ready'[i] = ready'[j]
               PROVE  i = j
    BY DEF NoRepeat
  <2>1. i <= R + B /\ j <= R + B
    BY <1>1, <1>2, <1>5, <1>6, NamesDiffer
  <2>2. CASE i <= R /\ j <= R
    <3>1. /\ i \in 1..R /\ j \in 1..R
          /\ ready[i] = ready[j] /\ ready[i] \in Pushes
      BY <1>1, <1>2, <1>5, <1>6, <2>2
    <3> QED
      BY <1>7, <3>1 DEF NoRepeat
  <2>3. CASE i > R /\ j > R
    <3>1. /\ i - R \in 1..B /\ j - R \in 1..B
          /\ pushBuffer[i - R] = pushBuffer[j - R]
          /\ pushBuffer[i - R] \in Pushes
      BY <1>1, <1>2, <1>5, <1>6, <2>1, <2>3
    <3>2. i - R = j - R
      BY <1>7, <3>1 DEF NoRepeat
    <3> QED
      BY <1>1, <1>2, <1>5, <3>2
  <2>4. CASE i <= R /\ j > R
    <3>1. i \in 1..R /\ j - R \in 1..B /\ ready[i] = pushBuffer[j - R]
      BY <1>1, <1>2, <1>5, <1>6, <2>1, <2>4
    <3> QED
      BY <1>7, <3>1
  <2>5. CASE i > R /\ j <= R
    <3>1. j \in 1..R /\ i - R \in 1..B /\ ready[j] = pushBuffer[i - R]
      BY <1>1, <1>2, <1>5, <1>6, <2>1, <2>5
    <3> QED
      BY <1>7, <3>1
  <2> QED
    BY <1>1, <1>2, <1>5, <2>2, <2>3, <2>4, <2>5
<1>10. \A j \in 1..Len(ready') :
         ready'[j] \in Pushes => Unsent(push[ready'[j]])
  <2> SUFFICES ASSUME NEW j \in 1..Len(ready'), ready'[j] \in Pushes
               PROVE  Unsent(push[ready'[j]])
    OBVIOUS
  <2>1. j <= R + B
    BY <1>1, <1>2, <1>5, <1>6, NamesDiffer
  <2>2. CASE j <= R
    <3>1. j \in 1..R /\ ready'[j] = ready[j]
      BY <1>1, <1>2, <1>5, <1>6, <2>2
    <3> QED
      BY <3>1 DEF PushInv, PushesWaitOnce
  <2>3. CASE j > R
    <3>1. j - R \in 1..B /\ ready'[j] = pushBuffer[j - R]
      BY <1>1, <1>2, <1>5, <1>6, <2>1, <2>3
    <3> QED
      BY <3>1 DEF PushInv, PushesWaitOnce
  <2> QED
    BY <1>1, <1>2, <1>5, <2>2, <2>3
<1>11. pushBuffer' = <<>> /\ Len(pushBuffer') = 0
  BY DEF OnJoinPushOk
<1> QED
  BY <1>9, <1>10, <1>11 DEF PushesWaitOnce, NoRepeat, Unsent

LEMMA ReceiveKeeps ==
  ASSUME TypeOK, PushInv, Receive
  PROVE  PushInv'
<1> DEFINE m == Head(inn)
<1>1. CASE UnexpectedReply(m)
  BY <1>1, UntouchedKeeps DEF UnexpectedReply, PushesUntouched
<1>2. CASE JoinReply(m)
  <2>1. \A r \in Refs : acks'[r] \in Pushes => acks'[r] = acks[r]
    BY <1>2, NamesDiffer DEF JoinReply, Unwatched
  <2>2. AcksAreWatched'
    BY <1>2, <2>1 DEF JoinReply, PushInv, AcksAreWatched
  <2>3. CASE m.event = "failed"
    BY <1>2, <2>1, <2>3, UntouchedKeeps
       DEF JoinReply, OnJoinPushError, PushesUntouched
  <2>4. CASE m.event # "failed"
    <3>1. PushesWaitOnce'
      BY <1>2, <2>4, FlushKeeps DEF JoinReply
    <3> QED
      BY <2>2, <3>1 DEF PushInv
  <2> QED
    BY <2>3, <2>4
<1>3. CASE LeaveReply(m)
  BY <1>3, UnwatchedRegistersNoPush, UntouchedKeeps DEF LeaveReply
<1>4. CASE Reply(m) /\ PushReply(m)
  <2> DEFINE p == acks[m.ref]
  <2>1. m.ref \in Refs
    <3>1. m \in Incoming
      BY HeadTailProperties DEF Receive, TypeOK
    <3> QED
      BY <1>4, <3>1 DEF Reply, Incoming
  <2>2. p \in Pushes /\ push[p].ref = m.ref /\ m.ref # 0
    BY <1>4, <2>1 DEF PushReply, PushInv, AcksAreWatched, Refs
  <2>3. \A q \in Pushes \ {p} : push'[q] = push[q]
    BY <1>4 DEF PushReply, TypeOK
  <2>4. /\ \A i \in 1..Len(pushBuffer) : pushBuffer[i] # p
        /\ \A j \in 1..Len(ready) : ready[j] # p
    BY <2>2 DEF PushInv, PushesWaitOnce, Unsent
  <2>5. \A i \in 1..Len(pushBuffer) : pushBuffer[i] \in Pushes
    BY ElementOfSeq DEF TypeOK
  <2>6. PushesWaitOnce'
    <3>1. UNCHANGED <<pushBuffer, ready>>
      BY <1>4 DEF PushReply
    <3>2. \A i \in 1..Len(pushBuffer) :
            push'[pushBuffer[i]] = push[pushBuffer[i]]
      BY <2>3, <2>4, <2>5
    <3>3. \A j \in 1..Len(ready) :
            ready[j] \in Pushes => push'[ready[j]] = push[ready[j]]
      BY <2>3, <2>4
    <3> QED
      BY <3>1, <3>2, <3>3 DEF PushInv, PushesWaitOnce, NoRepeat, Unsent
  <2>7. \A r \in Refs :
          acks'[r] \in Pushes => acks'[r] = acks[r] /\ acks[r] # p
    <3> SUFFICES ASSUME NEW r \in Refs, acks'[r] \in Pushes
                 PROVE  acks'[r] = acks[r] /\ acks[r] # p
      OBVIOUS
    <3>1. r # m.ref /\ acks'[r] = acks[r]
      BY <1>4, NamesDiffer DEF PushReply, Unwatched
    <3> QED
      BY <2>2, <3>1 DEF PushInv, AcksAreWatched
  <2>8. AcksAreWatched'
    BY <2>3, <2>7 DEF PushInv, AcksAreWatched
  <2> QED
    BY <2>6, <2>8 DEF PushInv
<1>5. CASE ErrorEvent(m)
  BY <1>5, UntouchedKeeps DEF ErrorEvent, PushesUntouched
<1>6. CASE CloseEvent(m)
  BY <1>6, UntouchedKeeps DEF CloseEvent, PushesUntouched
<1>7. CASE UNCHANGED <<push, traffic, acks, pushBuffer, ready>>
  BY <1>7, UntouchedKeeps DEF PushesUntouched
<1> QED
  BY <1>1, <1>2, <1>3, <1>4, <1>5, <1>6, <1>7 DEF Receive, Reply

LEMMA PushInvOfInit == Init => PushInv
<1> SUFFICES ASSUME Init PROVE PushInv
  OBVIOUS
<1>1. Len(pushBuffer) = 0 /\ Len(ready) = 0
  BY DEF Init
<1> QED
  BY <1>1, NamesDiffer
     DEF Init, PushInv, PushesWaitOnce, AcksAreWatched, NoRepeat

(* Of the steps that are neither Push, PushTimeout, RunReady nor Receive.  *)
LEMMA OtherStepsLeavePushes ==
  ASSUME TypeOK, [Next]_vars,
         ~RunReady, ~Receive,
         ~\E p \in Pushes : Push(p) \/ PushTimeout(p)
  PROVE  PushesUntouched
<1>1. CASE Subscribe \/ RejoinTimerFires
  BY <1>1, RejoinRegistersNoPush DEF Subscribe, RejoinTimerFires
<1>2. CASE Unsubscribe
  BY <1>2, NamesDiffer DEF Unsubscribe, Leave, PushesUntouched, TypeOK
<1>3. CASE JoinTimeout
  BY <1>3, UnwatchedRegistersNoPush DEF JoinTimeout
<1>4. CASE ResumeRejoin
  BY <1>4, NamesDiffer DEF ResumeRejoin, JoinAgain, PushesUntouched, TypeOK
<1>5. CASE RejoinDue
  <2>1. CASE Rejoin
    BY <1>5, <2>1, RejoinRegistersNoPush DEF RejoinDue
  <2>2. CASE UNCHANGED acks
    BY <1>5, <2>2 DEF RejoinDue, PushesUntouched
  <2> QED
    BY <1>5, <2>1, <2>2 DEF RejoinDue
<1>6. ASSUME NEW r \in Refs, LeaveTimeout(r) PROVE PushesUntouched
  BY <1>6, UnwatchedRegistersNoPush DEF LeaveTimeout
<1>7. ASSUME \/ RawJoin \/ AbandonRejoin \/ Connect \/ Disconnect
             \/ CloseClient \/ Reconnect \/ AbandonDue
             \/ ServerHandle \/ ServerEvent
             \/ UNCHANGED vars
      PROVE  PushesUntouched
  BY <1>7 DEF RawJoin, AbandonRejoin, Connect, Disconnect, CloseClient,
              Reconnect, AbandonDue, ServerHandle, ServerEvent, vars, chanVars,
              PushesUntouched
<1> QED
  BY <1>1, <1>2, <1>3, <1>4, <1>5, <1>6, <1>7 DEF Next

LEMMA PushInvOfNext == TypeOK /\ PushInv /\ [Next]_vars => PushInv'
<1> SUFFICES ASSUME TypeOK, PushInv, [Next]_vars PROVE PushInv'
  OBVIOUS
<1>1. CASE RunReady
  BY <1>1, RunReadyKeeps
<1>2. CASE Receive
  BY <1>2, ReceiveKeeps
<1>3. ASSUME NEW p \in Pushes, Push(p) \/ PushTimeout(p) PROVE PushInv'
  BY <1>3, PushKeeps, PushTimeoutKeeps
<1> QED
  BY <1>1, <1>2, <1>3, OtherStepsLeavePushes, UntouchedKeeps

(* The table of sent pushes holds only pushes that still wait, each under  *)
(* its own reference and with a timeout that will remove it.               *)
THEOREM WaitingPushesAreWatched == Spec => []AcksAreWatched
<1>1. PushInv => AcksAreWatched
  BY DEF PushInv
<1> QED
  BY <1>1, TypeOfInit, TypeOfNext, PushInvOfInit, PushInvOfNext, PTL DEF Spec

(* A push waits to be sent at one place at most.                           *)
THEOREM UnsentPushesWaitOnce == Spec => []PushesWaitOnce
<1>1. PushInv => PushesWaitOnce
  BY DEF PushInv
<1> QED
  BY <1>1, TypeOfInit, TypeOfNext, PushInvOfInit, PushInvOfNext, PTL DEF Spec

-----------------------------------------------------------------------------
(* The refinement: every step moves one push along PushLifecycle, or none. *)

(* A push that timed out has no timeout left to run.                       *)
ExpiredIsDone ==
  \A p \in Pushes : push[p].resp = "timeout" => push[p].timer = "done"

LEMMA Stages ==
  ASSUME NEW x \in Records
  PROVE  /\ x.resp = "timeout" => Stage(x) = "expired"
         /\ x.resp \in {"ok", "error"} => Stage(x) = "answered"
         /\ x.resp = "none" /\ x.ref # 0 => Stage(x) = "sent"
         /\ x.resp = "none" /\ x.ref = 0 /\ x.timer # "none"
              => Stage(x) = "buffered"
         /\ x.resp = "none" /\ x.ref = 0 /\ x.timer = "none"
              => Stage(x) = "new"
<1>1. CASE x.resp = "timeout"
  BY <1>1 DEF Stage
<1>2. CASE x.resp \in {"ok", "error"}
  BY <1>2 DEF Stage
<1>3. CASE x.resp = "none"
  BY <1>3 DEF Stage
<1> QED
  BY <1>1, <1>2, <1>3

(* One push changes: only its stage does.                                  *)
LEMMA OneMoves ==
  ASSUME TypeOK, NEW p \in Pushes, NEW x,
         push' = [push EXCEPT ![p] = x]
  PROVE  [q \in Pushes |-> Stage(push'[q])]
           = [[q \in Pushes |-> Stage(push[q])] EXCEPT ![p] = Stage(x)]
<1>1. push'[p] = x /\ \A q \in Pushes \ {p} : push'[q] = push[q]
  BY DEF TypeOK
<1>2. \A q \in Pushes :
        Stage(push'[q]) = IF q = p THEN Stage(x) ELSE Stage(push[q])
  BY <1>1
<1> QED
  BY <1>2, Zenon

LEMMA SendMoves ==
  ASSUME TypeOK, NEW p \in Pushes, SendPush(p),
         push[p].ref = 0, push[p].resp = "none"
  PROVE  Lifecycle!Next
<1>1. ref + 1 \in 0..MaxRef /\ ref + 1 # 0 /\ push[p] \in Records
  BY DEF SendPush, MakeRefs, TypeOK, Records
<1> DEFINE x == Sent(push[p], ref + 1)
<1>2. x \in Records /\ x.ref # 0 /\ x.resp = "none"
  BY <1>1, SentFields
<1>3. push' = [push EXCEPT ![p] = x]
  BY DEF SendPush
<1>4. Stage(push[p]) \in {"new", "buffered"} /\ Stage(x) = "sent"
  BY <1>1, <1>2, Stages
<1> HIDE DEF x
<1>5. Lifecycle!Becomes(p, {"new", "buffered"}, "sent")
  BY <1>3, <1>4, OneMoves DEF Lifecycle!Becomes
<1>6. traffic' = [traffic EXCEPT ![p].sent = @ + 1]
  BY DEF SendPush, SentOnceMore
<1> QED
  BY <1>5, <1>6 DEF Lifecycle!Next, Lifecycle!Send

LEMMA StepMoves ==
  ASSUME TypeOK, PushInv, ExpiredIsDone, [Next]_vars
  PROVE  Lifecycle!Next \/ UNCHANGED <<push, traffic>>
<1>1. ASSUME NEW p \in Pushes, Push(p) PROVE Lifecycle!Next
  <2>1. push[p] \in Records /\ push[p] = NewPush
    BY <1>1 DEF Push, TypeOK, Records
  <2>2. CASE SendPush(p)
    BY <2>1, <2>2, NewPushFields, SendMoves
  <2>3. CASE /\ push' = [push EXCEPT ![p] = TimeoutStarted(@)]
             /\ UNCHANGED traffic
    <3> DEFINE x == TimeoutStarted(push[p])
    <3>1. x \in Records /\ x.ref = 0 /\ x.resp = "none" /\ x.timer # "none"
      BY <2>1, NewPushFields, TimeoutStartedFields
    <3>2. Stage(push[p]) \in {"new"} /\ Stage(x) = "buffered"
      BY <2>1, <3>1, NewPushFields, Stages
    <3>3. push' = [push EXCEPT ![p] = x]
      BY <2>3
    <3> HIDE DEF x
    <3>9. Lifecycle!Becomes(p, {"new"}, "buffered")
      BY <3>2, <3>3, OneMoves DEF Lifecycle!Becomes
    <3> QED
      BY <2>3, <3>9 DEF Lifecycle!Next, Lifecycle!Buffer
  <2> QED
    BY <1>1, <2>2, <2>3 DEF Push
<1>2. ASSUME NEW p \in Pushes, PushTimeout(p) PROVE Lifecycle!Next
  <2> DEFINE x == TimedOut(push[p])
  <2>1. push[p] \in Records /\ push[p].timer = "running"
    BY <1>2 DEF PushTimeout, TypeOK, Records
  <2>2. push[p].resp \in {"none", "ok", "error"}
    BY <2>1 DEF ExpiredIsDone, Records, PushRecords, Outcomes
  <2>3. Stage(push[p]) \in {"buffered", "sent", "answered"}
    BY <2>1, <2>2, Stages
  <2>4. Stage(x) = "expired"
    BY <2>1, TimedOutFields, Stages
  <2>5. push' = [push EXCEPT ![p] = x]
    BY <1>2 DEF PushTimeout
  <2> HIDE DEF x
  <2>9. Lifecycle!Becomes(p, {"buffered", "sent", "answered"}, "expired")
    BY <2>3, <2>4, <2>5, OneMoves DEF Lifecycle!Becomes
  <2>10. UNCHANGED traffic
    BY <1>2 DEF PushTimeout
  <2> QED
    BY <2>9, <2>10 DEF Lifecycle!Next, Lifecycle!Expire
<1>3. CASE RunReady
  <2> DEFINE p == Head(ready)
  <2>1. CASE p \in Pushes /\ MayBeSent(push[p]) /\ SendPush(p)
    <3>1. 1 \in 1..Len(ready) /\ ready[1] = p
      BY <1>3, TailOfReady DEF RunReady
    <3>2. Unsent(push[p])
      BY <2>1, <3>1 DEF PushInv, PushesWaitOnce
    <3> QED
      BY <2>1, <3>2, SendMoves DEF Unsent, MayBeSent
  <2>2. CASE UNCHANGED <<push, traffic>>
    BY <2>2
  <2> QED
    BY <1>3, <2>1, <2>2 DEF RunReady
<1>4. CASE Receive
  <2> DEFINE m == Head(inn)
             p == acks[m.ref]
             x == Answered(push[p], StatusOf(m))
  <2>1. CASE Reply(m) /\ PushReply(m)
    <3>1. m.ref \in Refs
      <4>1. m \in Incoming
        BY <1>4, HeadTailProperties DEF Receive, TypeOK
      <4> QED
        BY <2>1, <4>1 DEF Reply, Incoming
    <3>2. /\ p \in Pushes /\ push[p] \in Records
          /\ push[p].ref # 0 /\ push[p].resp = "none"
      BY <2>1, <3>1
         DEF PushReply, PushInv, AcksAreWatched, TypeOK, Records, Refs
    <3>3. StatusOf(m) \in {"ok", "error"}
      BY DEF StatusOf
    <3>4. Stage(push[p]) \in {"sent"} /\ Stage(x) = "answered"
      BY <3>2, <3>3, AnsweredFields, Stages
    <3>5. push' = [push EXCEPT ![p] = x]
      BY <2>1 DEF PushReply
    <3>6. traffic' = [traffic EXCEPT ![p].answered = @ + 1]
      BY <2>1 DEF PushReply, AnsweredOnceMore
    <3> HIDE DEF x, p
    <3>9. Lifecycle!Becomes(p, {"sent"}, "answered")
      BY <3>2, <3>4, <3>5, OneMoves DEF Lifecycle!Becomes
    <3> QED
      BY <3>2, <3>6, <3>9 DEF Lifecycle!Next, Lifecycle!Answer
  <2>2. CASE UNCHANGED <<push, traffic>>
    BY <2>2
  <2> QED
    BY <1>4, <2>1, <2>2
       DEF Receive, Reply, UnexpectedReply, JoinReply, LeaveReply, ErrorEvent,
           CloseEvent
<1>5. CASE PushesUntouched
  BY <1>5 DEF PushesUntouched
<1> QED
  BY <1>1, <1>2, <1>3, <1>4, <1>5, OtherStepsLeavePushes

LEMMA ExpiredIsDoneNext ==
  ASSUME TypeOK, PushInv, ExpiredIsDone, [Next]_vars
  PROVE  ExpiredIsDone'
<1> SUFFICES ASSUME NEW p \in Pushes, push'[p].resp = "timeout"
             PROVE  push'[p].timer = "done"
  BY DEF ExpiredIsDone
<1>0. push[p] \in Records
  BY DEF TypeOK, Records
<1>1. ASSUME NEW q \in Pushes, SendPush(q) PROVE push'[p].timer = "done"
  <2>1. ref + 1 \in 0..MaxRef
    BY <1>1 DEF SendPush, MakeRefs, TypeOK
  <2>2. push'[p] = push[p] \/ push'[p] = Sent(push[p], ref + 1)
    BY <1>1 DEF SendPush, TypeOK
  <2>3. push[p].resp = "timeout"
    BY <1>0, <2>1, <2>2, SentFields
  <2>4. push[p].timer = "done"
    BY <2>3 DEF ExpiredIsDone
  <2>5. Sent(push[p], ref + 1).timer = "done"
    BY <1>0, <2>1, <2>4, SentFields
  <2> QED
    BY <2>2, <2>4, <2>5
<1>2. ASSUME NEW q \in Pushes, Push(q) PROVE push'[p].timer = "done"
  <2>1. CASE push' = [push EXCEPT ![q] = TimeoutStarted(@)]
    <3>1. push'[p] = push[p] \/ push'[p] = TimeoutStarted(push[p])
      BY <2>1 DEF TypeOK
    <3>2. push[p].resp = "timeout"
      BY <1>0, <3>1, TimeoutStartedFields
    <3> QED
      BY <1>0, <3>1, <3>2, TimeoutStartedFields DEF ExpiredIsDone
  <2> QED
    BY <1>1, <1>2, <2>1 DEF Push
<1>3. ASSUME NEW q \in Pushes, PushTimeout(q) PROVE push'[p].timer = "done"
  BY <1>0, <1>3, TimedOutFields DEF PushTimeout, TypeOK, ExpiredIsDone
<1>4. CASE UNCHANGED <<push, traffic>>
  BY <1>4 DEF ExpiredIsDone
<1>5. CASE RunReady
  BY <1>1, <1>4, <1>5 DEF RunReady
<1>6. CASE Receive
  <2> DEFINE m == Head(inn)
  <2>1. CASE PushReply(m)
    <3>1. StatusOf(m) \in {"ok", "error"}
      BY DEF StatusOf
    <3>2. push'[p] = push[p] \/ push'[p] = Answered(push[p], StatusOf(m))
      BY <2>1 DEF PushReply, TypeOK
    <3> QED
      BY <1>0, <3>1, <3>2, AnsweredFields DEF ExpiredIsDone
  <2> QED
    BY <1>4, <1>6, <2>1
       DEF Receive, Reply, UnexpectedReply, JoinReply, LeaveReply, ErrorEvent,
           CloseEvent
<1>7. CASE PushesUntouched
  BY <1>4, <1>7 DEF PushesUntouched
<1> QED
  BY <1>2, <1>3, <1>5, <1>6, <1>7, OtherStepsLeavePushes

LEMMA InitialStages ==
  Init => Lifecycle!Init /\ ExpiredIsDone
<1> SUFFICES ASSUME Init PROVE Lifecycle!Init /\ ExpiredIsDone
  OBVIOUS
<1>1. \A p \in Pushes : push[p] = NewPush
  BY DEF Init
<1>2. Stage(NewPush) = "new"
  BY NewPushFields, Stages
<1>3. traffic = [p \in Pushes |-> [sent |-> 0, answered |-> 0]]
  BY DEF Init
<1> QED
  BY <1>1, <1>2, <1>3, NewPushFields DEF Lifecycle!Init, ExpiredIsDone

LEMMA StepRefines ==
  TypeOK /\ PushInv /\ ExpiredIsDone /\ [Next]_vars
    => [Lifecycle!Next]_(Lifecycle!vars)
<1> SUFFICES ASSUME TypeOK, PushInv, ExpiredIsDone, [Next]_vars
             PROVE  [Lifecycle!Next]_(Lifecycle!vars)
  OBVIOUS
<1>1. CASE Lifecycle!Next
  BY <1>1
<1>2. CASE UNCHANGED <<push, traffic>>
  BY <1>2 DEF Lifecycle!vars
<1> QED
  BY <1>1, <1>2, StepMoves

(* Every push is handed to the client at most once and never after it      *)
(* timed out, is answered at most once and only if sent and not timed out, *)
(* and stays timed out: for any number of pushes, any schedule, any loss   *)
(* or close of connections and any server (push, send, timeout, trigger).  *)
THEOREM PushesLiveAsPromised == Spec => ImplementsPushLifecycle
<1>1. TypeOK /\ PushInv /\ ExpiredIsDone /\ [Next]_vars => ExpiredIsDone'
  BY ExpiredIsDoneNext
<1> QED
  BY <1>1, InitialStages, StepRefines, TypeOfInit, TypeOfNext, PushInvOfInit,
     PushInvOfNext, PTL DEF Spec, ImplementsPushLifecycle, Lifecycle!Spec
-----------------------------------------------------------------------------
(* A channel that believes to be joined is.  The server drops a            *)
(* subscription when it handles a leave, or by itself: either way it sends *)
(* something after the answer to the join, and the channel handles that    *)
(* later.  The answer to a leave, a close and an answer nothing waits for  *)
(* are the end of the channel or of the listening task (Ending), which     *)
(* nothing undoes but a new connection; an error makes the channel         *)
(* errored.  So it is enough to follow the answers to joins on their way.  *)

Replies == {"ok", "mismatch", "failed"}

EndsIt(m) ==
  \/ m.event = "close"
  \/ m.event \in Replies /\ acks[m.ref] \in {"leave", "none"}

Ending ==
  \/ \E i \in 1..Len(out) : out[i].event = "leave"
  \/ \E i \in 1..Len(inn) : EndsIt(inn[i])

(* The server has a subscription, or there is an excuse, or its error is   *)
(* on its way behind position i.                                           *)
Settled(i) ==
  \/ srvJoined
  \/ excuse # "none"
  \/ \E j \in 1..Len(inn) : j > i /\ inn[j].event = "error"

(* References are given out in order; what waits for the answer to a leave *)
(* is that leave, or nothing, and no join waits for the answer to a push.  *)
FrameIsOld(f) ==
  /\ f.ref <= ref
  /\ f.event = "leave" => acks[f.ref] \in {"leave", "none"}
  /\ f.event = "push" => acks[f.ref] # "join"

FramesAreOld ==
  /\ \A i \in 1..Len(out) : FrameIsOld(out[i])
  /\ \A i \in 1..Len(sendBuffer) : FrameIsOld(sendBuffer[i])

MessagesAreOld == \A i \in 1..Len(inn) : inn[i].ref <= ref

(* A joined channel is registered, and was joined on a connection the      *)
(* application has not closed since, unless that is its excuse.            *)
JoinedOnline ==
  state = "joined" => registered /\ (socket = "new" => excuse = "closed")

(* Nothing is on its way to the server without a connection.               *)
Offline == ~Connected => out = <<>>

(* Joins answered with ok, on their way and taken.                         *)
Attached == Connected /\ listening /\ registered /\ ~Ending

Accepts(m) == m.event \in {"ok", "mismatch"} /\ acks[m.ref] = "join"

AnswersHold == Attached => \A i \in 1..Len(inn) : Accepts(inn[i]) => Settled(i)

JoinedHolds == Attached /\ due = 0 /\ state = "joined" => Settled(0)

MatchInv ==
  /\ FramesAreOld /\ MessagesAreOld /\ JoinedOnline
  /\ AnswersHold /\ JoinedHolds

(* Steps of the client: entries of old references are only removed, and    *)
(* frames only added.                                                      *)
EntriesKept ==
  /\ ref' \in Nat /\ ref <= ref'
  /\ \A r \in Refs : r <= ref => acks'[r] \in {acks[r], "none"}

Grows ==
  /\ EntriesKept
  /\ \A i \in 1..Len(out) : i \in 1..Len(out') /\ out'[i] = out[i]
  /\ FramesAreOld'

LEMMA FrameStaysOld ==
  ASSUME TypeOK, NEW f \in Frames, FrameIsOld(f), EntriesKept
  PROVE  FrameIsOld(f)'
<1>1. f.ref \in Refs /\ f.ref \in Nat /\ ref \in Nat
  BY DEF Frames, Refs, TypeOK
<1> QED
  BY <1>1 DEF FrameIsOld, EntriesKept

LEMMA TransmitGrows ==
  ASSUME TypeOK, FramesAreOld, EntriesKept,
         NEW fs \in Seq(Frames), Transmit(fs),
         \A i \in 1..Len(fs) : FrameIsOld(fs[i])'
  PROVE  Grows
<1>1. out \in Seq(Frames) /\ sendBuffer \in Seq(Frames)
  BY DEF TypeOK
<1>2. ASSUME NEW s \in Seq(Frames), \A i \in 1..Len(s) : FrameIsOld(s[i]),
             NEW t, t = s \o fs \/ t = s
      PROVE  /\ \A i \in 1..Len(s) : i \in 1..Len(t) /\ t[i] = s[i]
             /\ \A i \in 1..Len(t) : FrameIsOld(t[i])'
  <2>1. \A i \in 1..Len(s) : FrameIsOld(s[i])'
    BY <1>2, FrameStaysOld
  <2>2. CASE t = s
    BY <2>1, <2>2
  <2>3. CASE t = s \o fs
    <3>1. /\ Len(s) \in Nat /\ Len(fs) \in Nat /\ Len(t) = Len(s) + Len(fs)
          /\ \A i \in 1..Len(s) : t[i] = s[i]
          /\ \A i \in (Len(s) + 1)..Len(t) : t[i] = fs[i - Len(s)]
      BY <2>3
    <3>2. \A i \in 1..Len(s) : i \in 1..Len(t)
      BY <3>1
    <3>3. ASSUME NEW i \in 1..Len(t)  PROVE FrameIsOld(t[i])'
      <4>1. CASE i \in 1..Len(s)
        BY <2>1, <3>1, <4>1
      <4>2. CASE i \notin 1..Len(s)
        <5>1. i - Len(s) \in 1..Len(fs) /\ i \in (Len(s) + 1)..Len(t)
          BY <3>1, <4>2
        <5> QED
          BY <3>1, <5>1
      <4> QED
        BY <4>1, <4>2
    <3> QED
      BY <3>1, <3>2, <3>3
  <2> QED
    BY <1>2, <2>2, <2>3
<1>3. out' = out \o fs \/ out' = out
  BY DEF Transmit
<1>4. sendBuffer' = sendBuffer \o fs \/ sendBuffer' = sendBuffer
  BY DEF Transmit
<1>5. /\ \A i \in 1..Len(out) : i \in 1..Len(out') /\ out'[i] = out[i]
      /\ (\A i \in 1..Len(out) : FrameIsOld(out[i]))'
  <2>1. PICK t : t = out'
    OBVIOUS
  <2>2. \A i \in 1..Len(out) : FrameIsOld(out[i])
    BY DEF FramesAreOld
  <2>3. t = out \o fs \/ t = out
    BY <1>3, <2>1
  <2>4. /\ \A i \in 1..Len(out) : i \in 1..Len(t) /\ t[i] = out[i]
        /\ \A i \in 1..Len(t) : FrameIsOld(t[i])'
    BY <1>1, <1>2, <2>2, <2>3
  <2> QED
    BY <2>1, <2>4 DEF FrameIsOld
<1>6. (\A i \in 1..Len(sendBuffer) : FrameIsOld(sendBuffer[i]))'
  <2>1. PICK t : t = sendBuffer'
    OBVIOUS
  <2>2. \A i \in 1..Len(t) : FrameIsOld(t[i])'
    BY <1>1, <1>2, <1>4, <2>1 DEF FramesAreOld
  <2> QED
    BY <2>1, <2>2 DEF FrameIsOld
<1> QED
  BY <1>5, <1>6 DEF Grows, FramesAreOld

(* Nothing is sent.                                                        *)
LEMMA NothingSent ==
  ASSUME TypeOK, FramesAreOld, EntriesKept, UNCHANGED <<out, sendBuffer>>
  PROVE  Grows
<1>1. out \in Seq(Frames) /\ sendBuffer \in Seq(Frames)
  BY DEF TypeOK
<1>2. \A i \in 1..Len(out) : out[i] \in Frames
  BY <1>1, ElementOfSeq
<1>3. \A i \in 1..Len(sendBuffer) : sendBuffer[i] \in Frames
  BY <1>1, ElementOfSeq
<1>4. \A i \in 1..Len(out) : FrameIsOld(out[i])'
  BY <1>2, FrameStaysOld DEF FramesAreOld
<1>5. \A i \in 1..Len(sendBuffer) : FrameIsOld(sendBuffer[i])'
  BY <1>3, FrameStaysOld DEF FramesAreOld
<1> QED
  BY <1>4, <1>5 DEF Grows, FramesAreOld

(* The entry made for a new reference, and its frame.                      *)
LEMMA NewEntry ==
  ASSUME TypeOK, NEW e, ref + 1 \in Refs, ref' = ref + 1,
         acks' = [acks EXCEPT ![ref + 1] = e]
  PROVE  EntriesKept /\ acks'[ref'] = e
<1>1. ref \in Nat /\ acks \in [Refs -> Entries]
  BY DEF TypeOK, Entries
<1>2. \A r \in Refs : r <= ref => r # ref + 1
  BY <1>1 DEF Refs
<1> QED
  BY <1>1, <1>2 DEF EntriesKept

LEMMA OneFrame ==
  ASSUME NEW f \in Frames, f.ref = ref',
         f.event = "leave" => acks'[ref'] \in {"leave", "none"},
         f.event = "push" => acks'[ref'] # "join"
  PROVE  \A i \in 1..Len(<<f>>) : FrameIsOld(<<f>>[i])'
<1>1. ref' \in Nat
  BY DEF Frames, Refs
<1> QED
  BY <1>1 DEF FrameIsOld

LEMMA LeaveGrows ==
  ASSUME TypeOK, FramesAreOld, Leave
  PROVE  Grows /\ state' = "leaving"
<1>1. ref + 1 \in Refs /\ ref' = ref + 1
  BY DEF TypeOK, Leave, MakeRefs, Refs
<1>2. EntriesKept /\ acks'[ref'] = "leave"
  BY <1>1, NewEntry DEF Leave
<1>3. PICK f \in Frames : f = LeaveFrame(ref + 1)
  BY <1>1, FramesTyped
<1>4. f.ref = ref' /\ f.event = "leave" /\ Transmit(<<f>>)
  BY <1>1, <1>3 DEF LeaveFrame, Leave
<1>5. <<f>> \in Seq(Frames) /\ \A i \in 1..Len(<<f>>) : FrameIsOld(<<f>>[i])'
  BY <1>2, <1>4, OneFrame
<1> QED
  BY <1>2, <1>4, <1>5, TransmitGrows DEF Leave

LEMMA JoinAgainGrows ==
  ASSUME TypeOK, FramesAreOld, JoinAgain
  PROVE  Grows /\ state' = "joining"
<1>1. ref + 1 \in Refs /\ ref' = ref + 1
  BY DEF TypeOK, JoinAgain, MakeRefs, Refs
<1>2. EntriesKept
  BY <1>1, NewEntry DEF JoinAgain
<1>3. PICK f \in Frames : f = JoinFrame(ref + 1)
  BY <1>1, FramesTyped
<1>4. f.ref = ref' /\ f.event = "join" /\ Transmit(<<f>>)
  BY <1>1, <1>3 DEF JoinFrame, JoinAgain
<1>5. <<f>> \in Seq(Frames) /\ \A i \in 1..Len(<<f>>) : FrameIsOld(<<f>>[i])'
  BY <1>4, OneFrame
<1> QED
  BY <1>2, <1>4, <1>5, TransmitGrows DEF JoinAgain

LEMMA SendPushGrows ==
  ASSUME TypeOK, FramesAreOld, NEW p \in Pushes, SendPush(p)
  PROVE  Grows
<1>1. ref + 1 \in Refs /\ ref' = ref + 1
  BY DEF TypeOK, SendPush, MakeRefs, Refs
<1>2. EntriesKept /\ acks'[ref'] # "join"
  BY <1>1, NewEntry, PushesAssumption DEF SendPush
<1>3. PICK f \in Frames : f = PushFrame(ref + 1)
  BY <1>1, FramesTyped
<1>4. f.ref = ref' /\ f.event = "push" /\ Transmit(<<f>>)
  BY <1>1, <1>3 DEF PushFrame, SendPush
<1>5. <<f>> \in Seq(Frames) /\ \A i \in 1..Len(<<f>>) : FrameIsOld(<<f>>[i])'
  BY <1>2, <1>4, OneFrame
<1> QED
  BY <1>2, <1>4, <1>5, TransmitGrows

LEMMA RawJoinGrows ==
  ASSUME TypeOK, FramesAreOld, RawJoin
  PROVE  Grows
<1>1. ref + 1 \in Refs /\ ref' = ref + 1 /\ acks' = acks /\ ref \in Nat
  BY DEF TypeOK, RawJoin, MakeRefs, Refs, chanVars
<1>2. EntriesKept
  BY <1>1 DEF EntriesKept
<1>3. PICK f \in Frames : f = JoinFrame(ref + 1)
  BY <1>1, FramesTyped
<1>4. f.ref = ref' /\ f.event = "join" /\ Transmit(<<f>>)
  BY <1>1, <1>3 DEF JoinFrame, RawJoin
<1>5. <<f>> \in Seq(Frames) /\ \A i \in 1..Len(<<f>>) : FrameIsOld(<<f>>[i])'
  BY <1>4, OneFrame
<1> QED
  BY <1>2, <1>4, <1>5, TransmitGrows

LEMMA LeaveAndJoinAgainGrows ==
  ASSUME TypeOK, FramesAreOld, LeaveAndJoinAgain
  PROVE  Grows /\ state' = "joining"
<1>1. /\ ref + 1 \in Refs /\ ref + 2 \in Refs /\ ref' = ref + 2 /\ ref \in Nat
      /\ acks \in [Refs -> Entries]
  BY DEF TypeOK, LeaveAndJoinAgain, MakeRefs, Refs, Entries
<1>2. acks'[ref + 1] = "leave"
  BY <1>1 DEF LeaveAndJoinAgain
<1>3. EntriesKept
  <2>1. \A r \in Refs : r <= ref => r # ref + 1 /\ r # ref + 2
    BY <1>1 DEF Refs
  <2> QED
    BY <1>1, <2>1 DEF LeaveAndJoinAgain, EntriesKept
<1>4. PICK f \in Frames, g \in Frames :
        f = LeaveFrame(ref + 1) /\ g = JoinFrame(ref + 2)
  BY <1>1, FramesTyped
<1>5. /\ f.ref = ref + 1 /\ f.event = "leave"
      /\ g.ref = ref + 2 /\ g.event = "join"
      /\ Transmit(<<f, g>>)
  BY <1>4 DEF LeaveFrame, JoinFrame, LeaveAndJoinAgain
<1>6. FrameIsOld(f)' /\ FrameIsOld(g)'
  BY <1>1, <1>2, <1>5 DEF FrameIsOld
<1>7. /\ <<f, g>> \in Seq(Frames)
      /\ \A i \in 1..Len(<<f, g>>) : FrameIsOld(<<f, g>>[i])'
  <2>1. \A i \in 1..2 : i = 1 \/ i = 2
    OBVIOUS
  <2> QED
    BY <1>6, <2>1
<1> QED
  BY <1>3, <1>5, <1>7, TransmitGrows DEF LeaveAndJoinAgain

LEMMA NothingChanged ==
  ASSUME TypeOK, FramesAreOld, UNCHANGED <<ref, acks, out, sendBuffer>>
  PROVE  Grows
<1>1. EntriesKept
  BY DEF TypeOK, EntriesKept
<1> QED
  BY <1>1, NothingSent

LEMMA EntryRemoved ==
  ASSUME TypeOK, FramesAreOld, NEW r, acks' = Unwatched(r),
         UNCHANGED <<ref, out, sendBuffer>>
  PROVE  Grows
<1>1. EntriesKept
  BY DEF TypeOK, EntriesKept, Unwatched
<1> QED
  BY <1>1, NothingSent

LEMMA RejoinGrows ==
  ASSUME TypeOK, FramesAreOld, Rejoin
  PROVE  Grows /\ state' # "joined"
<1>1. CASE /\ state = "leaving"
           /\ UNCHANGED <<ref, state, rejoinArmed, joinPush, acks, out,
                          sendBuffer, left>>
  BY <1>1, NothingChanged
<1>2. CASE JoinAgain
  BY <1>2, JoinAgainGrows
<1>3. CASE LeaveAndJoinAgain
  BY <1>3, LeaveAndJoinAgainGrows
<1>4. CASE Leave
  BY <1>4, LeaveGrows
<1> QED
  BY <1>1, <1>2, <1>3, <1>4 DEF Rejoin
(* What is on its way stays on its way, and what ends the subscription     *)
(* goes on ending it.                                                      *)
LEMMA EndingStays ==
  ASSUME TypeOK, MessagesAreOld, Grows, inn' = inn
  PROVE  /\ Ending => Ending'
         /\ \A i \in 1..Len(inn) : Accepts(inn[i])' => Accepts(inn[i])
<1>1. /\ inn \in Seq(Incoming) /\ EntriesKept
      /\ \A i \in 1..Len(out) : i \in 1..Len(out') /\ out'[i] = out[i]
  BY DEF TypeOK, Grows
<1>2. ASSUME NEW i \in 1..Len(inn), inn[i].event \in Replies
      PROVE  acks'[inn[i].ref] \in {acks[inn[i].ref], "none"}
  <2>1. PICK m \in Incoming : m = inn[i]
    BY <1>1, ElementOfSeq
  <2>2. m.ref \in Refs
    BY <1>2, <2>1 DEF Incoming, Replies
  <2>3. m.ref <= ref
    BY <2>1 DEF MessagesAreOld
  <2> QED
    BY <1>1, <2>1, <2>2, <2>3 DEF EntriesKept
<1>3. \A i \in 1..Len(inn) : EndsIt(inn[i]) => EndsIt(inn[i])'
  BY <1>2 DEF EndsIt
<1>4. \A i \in 1..Len(inn) : Accepts(inn[i])' => Accepts(inn[i])
  BY <1>2 DEF Accepts, Replies
<1>5. ASSUME NEW i \in 1..Len(out), out[i].event = "leave"
      PROVE  Ending'
  <2>1. i \in 1..Len(out') /\ out'[i].event = "leave"
    BY <1>1, <1>5
  <2> QED
    BY <2>1 DEF Ending
<1>6. ASSUME NEW i \in 1..Len(inn), EndsIt(inn[i])
      PROVE  Ending'
  BY <1>3, <1>6 DEF Ending
<1> QED
  BY <1>4, <1>5, <1>6 DEF Ending

(* A step of the client that sends, or forgets an entry, and does not make *)
(* the channel joined.                                                     *)
LEMMA MatchOfGrowth ==
  ASSUME TypeOK, MatchInv, Grows,
         UNCHANGED <<inn, socket, listening, registered, srvJoined, excuse>>,
         \/ state' # "joined"
         \/ state' = state /\ (due' = due \/ ~registered)
  PROVE  MatchInv'
<1>1. /\ Ending => Ending'
      /\ \A i \in 1..Len(inn) : Accepts(inn[i])' => Accepts(inn[i])
  BY EndingStays DEF MatchInv
<1>2. Attached' => Attached
  BY <1>1 DEF Attached, Connected
<1>3. \A i : Settled(i) => Settled(i)'
  BY DEF Settled
<1>4. FramesAreOld'
  BY DEF Grows
<1>5. MessagesAreOld'
  <2>1. ref \in Nat /\ ref' \in Nat /\ ref <= ref' /\ inn \in Seq(Incoming)
    BY DEF TypeOK, Grows, EntriesKept
  <2>2. ASSUME NEW i \in 1..Len(inn)  PROVE inn[i].ref <= ref'
    <3>1. inn[i].ref <= ref /\ inn[i] \in Incoming
      BY <2>1, ElementOfSeq DEF MatchInv, MessagesAreOld
    <3>2. inn[i].ref \in Nat
      BY <3>1 DEF Incoming, Refs
    <3> QED
      BY <2>1, <3>1, <3>2
  <2> QED
    BY <2>2 DEF MessagesAreOld
<1>6. JoinedOnline'
  BY DEF MatchInv, JoinedOnline
<1>7. AnswersHold'
  BY <1>1, <1>2, <1>3 DEF MatchInv, AnswersHold
<1>8. JoinedHolds'
  BY <1>2, <1>3 DEF MatchInv, JoinedHolds, Attached
<1> QED
  BY <1>4, <1>5, <1>6, <1>7, <1>8 DEF MatchInv
(* The steps of the client one by one.                                     *)
LEMMA TimeoutsMatch ==
  ASSUME TypeOK, MatchInv,
         \/ \E p \in Pushes : PushTimeout(p)
         \/ \E r \in Refs : LeaveTimeout(r)
         \/ JoinTimeout
  PROVE  MatchInv'
<1>1. FramesAreOld
  BY DEF MatchInv
<1>2. /\ UNCHANGED <<clientVars, netVars>>
      /\ \E r : acks' = Unwatched(r)
      /\ state' = state \/ state' = "errored"
  BY DEF PushTimeout, LeaveTimeout, JoinTimeout
<1>3. Grows
  BY <1>1, <1>2, EntryRemoved DEF clientVars, netVars
<1> QED
  BY <1>2, <1>3, MatchOfGrowth DEF clientVars, netVars

LEMMA RejoiningMatches ==
  ASSUME TypeOK, MatchInv,
         Subscribe \/ RejoinTimerFires \/ RejoinDue \/ ResumeRejoin
  PROVE  MatchInv'
<1>1. FramesAreOld
  BY DEF MatchInv
<1>2. UNCHANGED <<inn, socket, listening, registered, srvJoined, excuse>>
  BY DEF Subscribe, RejoinTimerFires, RejoinDue, ResumeRejoin
<1>3. CASE Rejoin
  BY <1>1, <1>2, <1>3, RejoinGrows, MatchOfGrowth
<1>4. CASE JoinAgain
  BY <1>1, <1>2, <1>4, JoinAgainGrows, MatchOfGrowth
<1>5. CASE ~registered /\ UNCHANGED <<ref, state, acks, out, sendBuffer>>
  BY <1>1, <1>2, <1>5, NothingChanged, MatchOfGrowth
<1> QED
  BY <1>3, <1>4, <1>5 DEF Subscribe, RejoinTimerFires, RejoinDue, ResumeRejoin

LEMMA CallsMatch ==
  ASSUME TypeOK, MatchInv,
         Unsubscribe \/ (\E p \in Pushes : Push(p)) \/ RawJoin \/ RunReady
           \/ AbandonRejoin
  PROVE  MatchInv'
<1>1. FramesAreOld
  BY DEF MatchInv
<1>2. UNCHANGED <<inn, socket, listening, registered, due, srvJoined, excuse>>
  BY DEF Unsubscribe, Push, RawJoin, RunReady, AbandonRejoin, clientVars,
         netVars
<1>3. CASE Leave
  BY <1>1, <1>2, <1>3, LeaveGrows, MatchOfGrowth
<1>4. CASE state' = state /\ \E p \in Pushes : SendPush(p)
  BY <1>1, <1>2, <1>4, SendPushGrows, MatchOfGrowth
<1>5. CASE RawJoin
  <2>1. state' = state
    BY <1>5 DEF RawJoin, chanVars
  <2> QED
    BY <1>1, <1>2, <1>5, <2>1, RawJoinGrows, MatchOfGrowth
<1>6. CASE UNCHANGED <<ref, state, acks, out, sendBuffer>>
  BY <1>1, <1>2, <1>6, NothingChanged, MatchOfGrowth
<1>7. Unsubscribe => Leave
  BY DEF Unsubscribe
<1>8. (\E p \in Pushes : Push(p)) =>
        \/ state' = state /\ \E p \in Pushes : SendPush(p)
        \/ UNCHANGED <<ref, state, acks, out, sendBuffer>>
  BY DEF Push
<1>9. RunReady =>
        \/ Leave
        \/ state' = state /\ \E p \in Pushes : SendPush(p)
        \/ UNCHANGED <<ref, state, acks, out, sendBuffer>>
  BY DEF RunReady
<1>10. AbandonRejoin => UNCHANGED <<ref, state, acks, out, sendBuffer>>
  BY DEF AbandonRejoin, clientVars, netVars
<1> QED
  BY <1>3, <1>4, <1>5, <1>6, <1>7, <1>8, <1>9, <1>10

(* A new connection: nothing is on its way to the client, and a channel    *)
(* that was joined is rejoined.                                            *)
LEMMA ConnectingMatches ==
  ASSUME TypeOK, MatchInv, Connect \/ Reconnect, "backpressure" \notin Env
  PROVE  MatchInv'
<1>1. /\ out' = sendBuffer /\ inn' = <<>> /\ sendBuffer' = <<>>
      /\ socket' = "open"
      /\ UNCHANGED <<state, acks, ref, registered, excuse>>
      /\ due \in Nat
      /\ (due' = due /\ socket = "new") \/ due' = due + 1
  BY DEF Connect, Reconnect, Opened, OpenedAndCut, chanVars, TypeOK
<1>2. (\A i \in 1..Len(out) : FrameIsOld(out[i]))'
  BY <1>1 DEF MatchInv, FramesAreOld, FrameIsOld
<1>3. Len(inn') = 0 /\ Len(sendBuffer') = 0
  BY <1>1
<1>4. FramesAreOld' /\ MessagesAreOld' /\ AnswersHold'
  BY <1>2, <1>3 DEF FramesAreOld, MessagesAreOld, AnswersHold
<1>5. JoinedOnline'
  BY <1>1 DEF MatchInv, JoinedOnline
<1>6. JoinedHolds'
  <2>1. due' = 0 /\ state' = "joined" => excuse' = "closed"
    BY <1>1 DEF MatchInv, JoinedOnline
  <2> QED
    BY <2>1 DEF JoinedHolds, Settled
<1> QED
  BY <1>4, <1>5, <1>6 DEF MatchInv

LEMMA DisconnectMatches ==
  ASSUME TypeOK, MatchInv, Disconnect \/ CloseClient
  PROVE  MatchInv'
<1>1. /\ out' = <<>> /\ inn' = <<>>
      /\ \/ socket' = "down"
         \/ socket' = "new" /\ excuse' = "closed"
      /\ UNCHANGED <<state, acks, ref, registered, sendBuffer>>
  BY DEF Disconnect, CloseClient, chanVars
<1>2. (\A i \in 1..Len(sendBuffer) : FrameIsOld(sendBuffer[i]))'
  BY <1>1 DEF MatchInv, FramesAreOld, FrameIsOld
<1>3. Len(out') = 0 /\ Len(inn') = 0
  BY <1>1
<1>4. FramesAreOld' /\ MessagesAreOld'
  BY <1>2, <1>3 DEF FramesAreOld, MessagesAreOld
<1>5. JoinedOnline'
  BY <1>1 DEF MatchInv, JoinedOnline
<1>6. ~Attached'
  BY <1>1 DEF Attached, Connected
<1> QED
  BY <1>4, <1>5, <1>6 DEF MatchInv, AnswersHold, JoinedHolds
(* The server handles a frame: dropping the subscription it answers a      *)
(* leave, and a join leaves it joined or refused.                          *)
LEMMA ServerHandleMatches ==
  ASSUME TypeOK, MatchInv, Offline, ServerHandle, "silence" \notin Env
  PROVE  MatchInv'
<1>1. /\ out \in Seq(Frames) /\ inn \in Seq(Incoming) /\ out # <<>>
      /\ out' = Tail(out)
      /\ UNCHANGED <<chanVars, clientVars>>
      /\ ref \in Nat
  BY DEF TypeOK, ServerHandle
<1>2. PICK f \in Frames, m \in Incoming :
        /\ f = out[1] /\ m.ref = f.ref
        /\ inn' = Append(inn, m)
        /\ m.event \in Replies
        /\ f.event = "leave" => m.event = "ok" /\ ~srvJoined'
        /\ f.event = "join" => srvJoined' \/ excuse' # "none"
        /\ f.event = "push" => UNCHANGED <<srvJoined, excuse>>
  <2>1. Head(out) = out[1] /\ out[1] \in Frames
    BY <1>1
  <2>2. PICK a \in Answers(out[1]) :
          /\ inn' = Append(inn, [event |-> a, ref |-> out[1].ref])
          /\ srvJoined' = CASE out[1].event = "join" -> a # "failed"
                            [] out[1].event = "leave" -> FALSE
                            [] OTHER -> srvJoined
          /\ excuse' = IF out[1].event # "join" THEN excuse
                       ELSE IF a = "failed" THEN "refused" ELSE "none"
    BY <2>1 DEF ServerHandle
  <2>3. a \in Replies /\ (out[1].event = "leave" => a = "ok")
    BY <2>2 DEF Answers, Replies
  <2>4. PICK m \in Incoming : m = [event |-> a, ref |-> out[1].ref]
    <3>1. out[1].ref \in Refs
      BY <2>1 DEF Frames
    <3> QED
      BY <2>3, <3>1 DEF Incoming, Replies
  <2> QED
    BY <2>1, <2>2, <2>3, <2>4
<1>3. /\ Len(out) \in Nat /\ Len(out) > 0 /\ Len(out') = Len(out) - 1
      /\ \A i \in 1..Len(out') : i + 1 \in 1..Len(out) /\ out'[i] = out[i + 1]
  BY <1>1
<1>4. /\ Len(inn) \in Nat /\ Len(inn') = Len(inn) + 1
      /\ \A i \in 1..Len(inn) : inn'[i] = inn[i]
      /\ inn'[Len(inn) + 1] = m
  BY <1>1, <1>2
<1>5. UNCHANGED <<ref, acks, sendBuffer, socket, state, registered, listening,
                  due>>
  BY <1>1 DEF chanVars, clientVars
<1>6. FrameIsOld(f)
  BY <1>2, <1>3 DEF MatchInv, FramesAreOld
<1>7. FramesAreOld'
  <2>1. \A i \in 1..Len(out') : FrameIsOld(out[i + 1])
    BY <1>3 DEF MatchInv, FramesAreOld
  <2>2. (\A i \in 1..Len(out) : FrameIsOld(out[i]))'
    BY <1>3, <1>5, <2>1 DEF FrameIsOld
  <2>3. (\A i \in 1..Len(sendBuffer) : FrameIsOld(sendBuffer[i]))'
    BY <1>5 DEF MatchInv, FramesAreOld, FrameIsOld
  <2> QED
    BY <2>2, <2>3 DEF FramesAreOld
<1>8. MessagesAreOld'
  <2>1. ASSUME NEW i \in 1..Len(inn')  PROVE inn'[i].ref <= ref'
    <3>1. CASE i \in 1..Len(inn)
      BY <1>4, <1>5, <3>1 DEF MatchInv, MessagesAreOld
    <3>2. CASE i = Len(inn) + 1
      BY <1>2, <1>4, <1>5, <1>6, <3>2 DEF FrameIsOld
    <3> QED
      BY <1>4, <3>1, <3>2
  <2> QED
    BY <2>1 DEF MessagesAreOld
<1>9. JoinedOnline'
  <2>1. Connected
    BY <1>1 DEF Offline
  <2> QED
    BY <1>5, <2>1 DEF MatchInv, JoinedOnline, Connected
<1>10. Len(inn) + 1 \in 1..Len(inn')
  BY <1>4
<1>11. CASE f.event = "leave"
  <2>1. acks'[m.ref] \in {"leave", "none"}
    BY <1>2, <1>5, <1>6, <1>11 DEF FrameIsOld
  <2>2. EndsIt(m)'
    BY <1>2, <2>1 DEF EndsIt
  <2>3. Ending'
    BY <1>4, <1>10, <2>2 DEF Ending, EndsIt
  <2>4. AnswersHold' /\ JoinedHolds'
    BY <2>3 DEF AnswersHold, JoinedHolds, Attached
  <2> QED
    BY <1>7, <1>8, <1>9, <2>4 DEF MatchInv
<1>12. CASE f.event = "join"
  <2>1. \A i : Settled(i)'
    BY <1>2, <1>12 DEF Settled
  <2>2. AnswersHold' /\ JoinedHolds'
    BY <2>1 DEF AnswersHold, JoinedHolds
  <2> QED
    BY <1>7, <1>8, <1>9, <2>2 DEF MatchInv
<1>13. CASE f.event = "push"
  <2>1. Ending => Ending'
    <3>1. ASSUME NEW i \in 1..Len(out), out[i].event = "leave"
          PROVE  Ending'
      <4>1. i # 1
        BY <1>2, <1>13, <3>1
      <4>2. i - 1 \in 1..Len(out') /\ (i - 1) + 1 = i
        BY <1>3, <4>1
      <4>3. out'[i - 1].event = "leave"
        BY <1>3, <3>1, <4>2
      <4> QED
        BY <4>2, <4>3 DEF Ending
    <3>2. ASSUME NEW i \in 1..Len(inn), EndsIt(inn[i])
          PROVE  Ending'
      <4>1. i \in 1..Len(inn') /\ inn'[i] = inn[i]
        BY <1>4
      <4> QED
        BY <1>5, <3>2, <4>1 DEF Ending, EndsIt
    <3> QED
      BY <3>1, <3>2 DEF Ending
  <2>2. Attached' => Attached
    BY <1>5, <2>1 DEF Attached, Connected
  <2>3. ASSUME NEW i, Settled(i)  PROVE Settled(i)'
    <3>1. \A j \in 1..Len(inn) : j \in 1..Len(inn') /\ inn'[j] = inn[j]
      BY <1>4
    <3> QED
      BY <1>2, <1>13, <2>3, <3>1 DEF Settled
  <2>4. AnswersHold'
    <3>1. ASSUME Attached', NEW i \in 1..Len(inn'), Accepts(inn[i])'
          PROVE  Settled(i)'
      <4>1. CASE i \in 1..Len(inn)
        <5>1. Accepts(inn[i])
          BY <1>4, <1>5, <3>1, <4>1 DEF Accepts
        <5> QED
          BY <2>2, <2>3, <3>1, <4>1, <5>1 DEF MatchInv, AnswersHold
      <4>2. CASE i = Len(inn) + 1
        <5>1. acks'[m.ref] = "join"
          BY <1>4, <3>1, <4>2 DEF Accepts
        <5> QED
          BY <1>2, <1>5, <1>6, <1>13, <5>1 DEF FrameIsOld
      <4> QED
        BY <1>4, <4>1, <4>2
    <3> QED
      BY <3>1 DEF AnswersHold
  <2>5. JoinedHolds'
    BY <1>5, <2>2, <2>3 DEF MatchInv, JoinedHolds
  <2> QED
    BY <1>7, <1>8, <1>9, <2>4, <2>5 DEF MatchInv
<1> QED
  BY <1>11, <1>12, <1>13 DEF Frames

(* An error the server sends, and what it closes, are at the end of what   *)
(* is on its way.                                                          *)
LEMMA ServerEventMatches ==
  ASSUME TypeOK, MatchInv, ServerEvent
  PROVE  MatchInv'
<1>1. PICK m : /\ m.event \in {"error", "close"} /\ m.ref = 0
               /\ inn' = Append(inn, m)
  BY DEF ServerEvent
<1>2. /\ UNCHANGED <<ref, acks, out, sendBuffer, socket, state, registered>>
      /\ inn \in Seq(Incoming) /\ ref \in Nat
  BY DEF ServerEvent, chanVars, clientVars, TypeOK
<1>3. /\ Len(inn) \in Nat /\ Len(inn') = Len(inn) + 1
      /\ \A i \in 1..Len(inn) : inn'[i] = inn[i]
      /\ inn'[Len(inn) + 1] = m
  BY <1>1, <1>2
<1>4. FramesAreOld' /\ JoinedOnline'
  <2>1. UNCHANGED excuse
    BY DEF ServerEvent
  <2> QED
    BY <1>2, <2>1 DEF MatchInv, FramesAreOld, FrameIsOld, JoinedOnline
<1>5. MessagesAreOld'
  <2>1. ASSUME NEW i \in 1..Len(inn')  PROVE inn'[i].ref <= ref'
    <3>1. CASE i \in 1..Len(inn)
      BY <1>2, <1>3, <3>1 DEF MatchInv, MessagesAreOld
    <3>2. CASE i = Len(inn) + 1
      BY <1>1, <1>2, <1>3, <3>2
    <3> QED
      BY <1>3, <3>1, <3>2
  <2> QED
    BY <2>1 DEF MessagesAreOld
<1>6. Len(inn) + 1 \in 1..Len(inn')
  BY <1>3
<1>7. CASE m.event = "close"
  <2>1. Ending'
    BY <1>3, <1>6, <1>7 DEF Ending, EndsIt
  <2> QED
    BY <1>4, <1>5, <2>1 DEF MatchInv, AnswersHold, JoinedHolds, Attached
<1>8. CASE m.event = "error"
  <2>1. ASSUME NEW i \in 0..Len(inn)  PROVE Settled(i)'
    <3>1. Len(inn) + 1 > i
      BY <1>3
    <3> QED
      BY <1>3, <1>6, <1>8, <3>1 DEF Settled
  <2>2. \A i \in 1..Len(inn') : Accepts(inn[i])' => i # Len(inn) + 1
    BY <1>3, <1>8 DEF Accepts
  <2>3. AnswersHold'
    BY <1>3, <2>1, <2>2 DEF AnswersHold
  <2>4. JoinedHolds'
    BY <1>3, <2>1 DEF JoinedHolds
  <2> QED
    BY <1>4, <1>5, <2>3, <2>4 DEF MatchInv
<1> QED
  BY <1>1, <1>7, <1>8
(* A message is taken that does not end the subscription: all that is      *)
(* behind it moves up by one.                                              *)
LEMMA TailShifts ==
  ASSUME TypeOK, MessagesAreOld, inn # <<>>, inn' = Tail(inn),
         ~EndsIt(inn[1]),
         acks' = acks \/ acks' = Unwatched(inn[1].ref),
         UNCHANGED <<out, srvJoined, excuse>>
  PROVE  /\ Ending => Ending'
         /\ \A i \in 1..Len(inn') :
              Accepts(inn[i])' => i + 1 \in 1..Len(inn) /\ Accepts(inn[i + 1])
         /\ \A i \in Nat : Settled(i + 1) => Settled(i)'
<1>1. /\ inn \in Seq(Incoming) /\ acks \in [Refs -> Entries]
  BY DEF TypeOK, Entries
<1>2. /\ Len(inn) \in Nat /\ Len(inn) > 0 /\ Len(inn') = Len(inn) - 1
      /\ \A i \in 1..Len(inn') : i + 1 \in 1..Len(inn) /\ inn'[i] = inn[i + 1]
  BY <1>1
<1>3. ASSUME NEW i \in 1..Len(inn), i # 1
      PROVE  i - 1 \in 1..Len(inn') /\ inn'[i - 1] = inn[i]
  <2>1. i - 1 \in 1..Len(inn') /\ (i - 1) + 1 = i
    BY <1>2, <1>3
  <2> QED
    BY <1>2, <2>1
<1>4. ASSUME NEW i \in 1..Len(inn), inn[i].event \in Replies
      PROVE  acks'[inn[i].ref] \in {acks[inn[i].ref], "none"}
  <2>1. inn[i] \in Incoming
    BY <1>1, ElementOfSeq
  <2>2. inn[i].ref \in Refs
    BY <1>4, <2>1 DEF Incoming, Replies
  <2> QED
    BY <2>2 DEF Unwatched
<1>5. Ending => Ending'
  <2>1. ASSUME NEW i \in 1..Len(inn), EndsIt(inn[i])  PROVE Ending'
    <3>1. i # 1
      BY <2>1
    <3>2. \/ inn[i].event = "close"
          \/ /\ inn[i].event \in Replies
             /\ acks'[inn[i].ref] \in {"leave", "none"}
      BY <1>4, <2>1 DEF EndsIt
    <3>3. i - 1 \in 1..Len(inn') /\ inn'[i - 1] = inn[i]
      BY <1>3, <3>1
    <3> QED
      BY <3>2, <3>3 DEF Ending, EndsIt
  <2>2. ASSUME NEW i \in 1..Len(out), out[i].event = "leave"  PROVE Ending'
    BY <2>2 DEF Ending
  <2> QED
    BY <2>1, <2>2 DEF Ending
<1>6. ASSUME NEW i \in 1..Len(inn'), Accepts(inn[i])'
      PROVE  i + 1 \in 1..Len(inn) /\ Accepts(inn[i + 1])
  <2>1. i + 1 \in 1..Len(inn) /\ inn'[i] = inn[i + 1]
    BY <1>2
  <2>2. /\ inn[i + 1].event \in {"ok", "mismatch"}
        /\ acks'[inn[i + 1].ref] = "join"
    BY <1>6, <2>1 DEF Accepts
  <2>3. acks[inn[i + 1].ref] = "join"
    BY <1>4, <2>1, <2>2 DEF Replies
  <2> QED
    BY <2>1, <2>2, <2>3 DEF Accepts
<1>7. ASSUME NEW i \in Nat, Settled(i + 1)  PROVE Settled(i)'
  <2>1. ASSUME NEW j \in 1..Len(inn), j > i + 1, inn[j].event = "error"
        PROVE  Settled(i)'
    <3>1. j # 1 /\ j - 1 > i
      BY <2>1
    <3>2. j - 1 \in 1..Len(inn') /\ inn'[j - 1].event = "error"
      BY <1>3, <2>1, <3>1
    <3> QED
      BY <3>1, <3>2 DEF Settled
  <2> QED
    BY <1>7, <2>1 DEF Settled
<1> QED
  BY <1>5, <1>6, <1>7

LEMMA ReceiveMatches ==
  ASSUME TypeOK, MatchInv, Receive
  PROVE  MatchInv'
<1>1. /\ inn \in Seq(Incoming) /\ inn # <<>> /\ inn' = Tail(inn)
      /\ acks \in [Refs -> Entries]
      /\ UNCHANGED <<out, ref, socket, sendBuffer, due, srvJoined, excuse>>
      /\ socket = "open" /\ listening
      /\ registered \in BOOLEAN
  BY DEF TypeOK, Entries, Receive, Connected
<1>2. /\ Head(inn) = inn[1] /\ 1 \in 1..Len(inn) /\ inn[1] \in Incoming
      /\ Len(inn') = Len(inn) - 1 /\ Len(inn) \in Nat
      /\ \A i \in 1..Len(inn') : i + 1 \in 1..Len(inn) /\ inn'[i] = inn[i + 1]
  BY <1>1
<1>3. acks' = acks \/ acks' = Unwatched(inn[1].ref)
  BY <1>2 DEF Receive, Reply, UnexpectedReply, JoinReply, LeaveReply,
              PushReply, ErrorEvent, CloseEvent
<1>4. Grows
  <2>1. FramesAreOld
    BY DEF MatchInv
  <2> QED
    BY <1>1, <1>3, <2>1, NothingChanged, EntryRemoved DEF Receive
<1>5. FramesAreOld'
  BY <1>4 DEF Grows
<1>6. MessagesAreOld'
  <2>1. ASSUME NEW i \in 1..Len(inn')  PROVE inn'[i].ref <= ref'
    BY <1>1, <1>2 DEF MatchInv, MessagesAreOld
  <2> QED
    BY <2>1 DEF MessagesAreOld
<1>7. CASE ~registered' \/ ~listening'
  <2>1. ~Attached'
    BY <1>7 DEF Attached
  <2>2. (state' = state /\ registered' = registered) \/ state' = "closed"
    BY <1>7 DEF Receive, Reply, UnexpectedReply, JoinReply, LeaveReply,
                PushReply, ErrorEvent, CloseEvent, OnClose
  <2>3. JoinedOnline'
    BY <1>1, <2>2 DEF MatchInv, JoinedOnline
  <2> QED
    BY <1>5, <1>6, <2>1, <2>3 DEF MatchInv, AnswersHold, JoinedHolds
<1>8. CASE registered' /\ listening'
  <2>1. /\ registered
        /\ \/ JoinReply(inn[1]) /\ inn[1].event \in Replies
           \/ PushReply(inn[1]) /\ inn[1].event \in Replies
           \/ ErrorEvent(inn[1])
    BY <1>2, <1>8 DEF Receive, Reply, Replies, UnexpectedReply, LeaveReply,
                      CloseEvent, OnClose
  <2>2. ~EndsIt(inn[1])
    BY <2>1, PushesAssumption DEF EndsIt, Replies, JoinReply, PushReply,
                                  ErrorEvent
  <2>3. /\ Ending => Ending'
        /\ \A i \in 1..Len(inn') :
             Accepts(inn[i])' => i + 1 \in 1..Len(inn) /\ Accepts(inn[i + 1])
        /\ \A i \in Nat : Settled(i + 1) => Settled(i)'
    BY <1>1, <1>3, <2>2, TailShifts DEF MatchInv
  <2>4. Attached' => Attached
    BY <1>1, <2>1, <2>3 DEF Attached, Connected
  <2>5. AnswersHold'
    <3>1. ASSUME Attached', NEW i \in 1..Len(inn'), Accepts(inn[i])'
          PROVE  Settled(i)'
      <4>1. Settled(i + 1)
        BY <2>3, <2>4, <3>1 DEF MatchInv, AnswersHold
      <4> QED
        BY <2>3, <4>1
    <3> QED
      BY <3>1 DEF AnswersHold
  <2>6. JoinedOnline'
    BY <1>1, <1>8 DEF JoinedOnline
  <2>7. JoinedHolds'
    <3>1. SUFFICES ASSUME Attached', due' = 0, state' = "joined"
                   PROVE  Settled(0)'
      BY DEF JoinedHolds
    <3>2. inn[1].event # "error"
      <4>1. ErrorEvent(inn[1]) => state' # "joined"
        BY DEF ErrorEvent, OnError
      <4> QED
        BY <2>1, <3>1, <4>1 DEF Replies
    <3>3. CASE state = "joined"
      <4>1. Settled(0)
        BY <1>1, <2>4, <3>1, <3>3 DEF MatchInv, JoinedHolds
      <4>2. \A j \in 1..Len(inn) :
              j > 0 /\ inn[j].event = "error" => j > 0 + 1
        BY <1>2, <3>2
      <4>3. Settled(0 + 1)
        BY <4>1, <4>2 DEF Settled
      <4> QED
        BY <2>3, <4>3
    <3>4. CASE state # "joined"
      <4>1. Accepts(inn[1])
        BY <2>1, <3>1, <3>2, <3>4
           DEF Accepts, Replies, JoinReply, PushReply, OnJoinPushError,
               ErrorEvent
      <4>2. Settled(0 + 1)
        BY <1>2, <2>4, <3>1, <4>1 DEF MatchInv, AnswersHold
      <4> QED
        BY <2>3, <4>2
    <3> QED
      BY <3>3, <3>4
  <2> QED
    BY <1>5, <1>6, <2>5, <2>6, <2>7 DEF MatchInv
<1>9. registered' \in BOOLEAN /\ listening' \in BOOLEAN
  BY DEF Receive, Reply, UnexpectedReply, JoinReply, LeaveReply,
         PushReply, ErrorEvent, CloseEvent, OnClose, TypeOK
<1> QED
  BY <1>7, <1>8, <1>9

LEMMA MatchOfInit == Init => MatchInv /\ Offline
<1> SUFFICES ASSUME Init PROVE MatchInv /\ Offline
  OBVIOUS
<1>1. Len(out) = 0 /\ Len(inn) = 0 /\ Len(sendBuffer) = 0 /\ state = "closed"
  BY DEF Init
<1>2. Offline
  BY DEF Init, Offline
<1> QED
  BY <1>1, <1>2 DEF MatchInv, FramesAreOld, MessagesAreOld, JoinedOnline,
                    AnswersHold, JoinedHolds

LEMMA OfflineOfNext == Offline /\ [Next]_vars => Offline'
<1> SUFFICES ASSUME Offline, [Next]_vars, ~Connected' PROVE out' = <<>>
  BY DEF Offline
<1>1. ASSUME UNCHANGED socket PROVE ~Connected /\ out = <<>>
  BY <1>1 DEF Offline, Connected
<1>2. ASSUME UNCHANGED socket, Rejoin PROVE out' = <<>>
  BY <1>1, <1>2 DEF Rejoin, JoinAgain, LeaveAndJoinAgain, Leave, Transmit
<1>3. CASE Subscribe \/ RejoinTimerFires
  BY <1>2, <1>3 DEF Subscribe, RejoinTimerFires
<1>4. CASE RejoinDue
  BY <1>1, <1>2, <1>4 DEF RejoinDue
<1>5. CASE Unsubscribe \/ RunReady
  BY <1>1, <1>5 DEF Unsubscribe, RunReady, Leave, SendPush, Transmit
<1>6. ASSUME NEW p \in Pushes, Push(p) \/ PushTimeout(p) PROVE out' = <<>>
  BY <1>1, <1>6
     DEF Push, PushTimeout, SendPush, Transmit, clientVars, netVars
<1>7. CASE RawJoin \/ ResumeRejoin
  BY <1>1, <1>7 DEF RawJoin, ResumeRejoin, JoinAgain, Transmit
<1>8. CASE JoinTimeout \/ AbandonRejoin \/ AbandonDue \/ UNCHANGED vars
  BY <1>1, <1>8
     DEF JoinTimeout, AbandonRejoin, AbandonDue, vars, clientVars, netVars
<1>9. ASSUME NEW r \in Refs, LeaveTimeout(r) PROVE out' = <<>>
  BY <1>1, <1>9 DEF LeaveTimeout, clientVars, netVars
<1>10. CASE Connect \/ Reconnect \/ Disconnect \/ CloseClient
  BY <1>10 DEF Connect, Reconnect, Disconnect, CloseClient, Opened,
               OpenedAndCut, Connected
<1>11. CASE Receive \/ ServerHandle \/ ServerEvent
  BY <1>1, <1>11 DEF Receive, ServerHandle, ServerEvent, clientVars, Connected
<1> QED
  BY <1>3, <1>4, <1>5, <1>6, <1>7, <1>8, <1>9, <1>10, <1>11 DEF Next

LEMMA MatchOfNext ==
  ASSUME {"silence", "backpressure"} \cap Env = {}
  PROVE  TypeOK /\ MatchInv /\ Offline /\ [Next]_vars => MatchInv'
<1> SUFFICES ASSUME TypeOK, MatchInv, Offline, [Next]_vars PROVE MatchInv'
  OBVIOUS
<1>1. CASE \/ \E p \in Pushes : PushTimeout(p)
           \/ \E r \in Refs : LeaveTimeout(r)
           \/ JoinTimeout
  BY <1>1, TimeoutsMatch
<1>2. CASE Subscribe \/ RejoinTimerFires \/ RejoinDue \/ ResumeRejoin
  BY <1>2, RejoiningMatches
<1>3. CASE Unsubscribe \/ (\E p \in Pushes : Push(p)) \/ RawJoin \/ RunReady
             \/ AbandonRejoin
  BY <1>3, CallsMatch
<1>4. CASE Connect \/ Reconnect
  BY <1>4, ConnectingMatches
<1>5. CASE Disconnect \/ CloseClient
  BY <1>5, DisconnectMatches
<1>6. CASE ServerHandle
  BY <1>6, ServerHandleMatches
<1>7. CASE ServerEvent
  BY <1>7, ServerEventMatches
<1>8. CASE Receive
  BY <1>8, ReceiveMatches
<1>9. CASE AbandonDue
  BY <1>9 DEF AbandonDue
<1>10. CASE UNCHANGED vars
  <2>1. FramesAreOld
    BY DEF MatchInv
  <2>2. /\ UNCHANGED <<ref, acks, out, sendBuffer, state, due>>
        /\ UNCHANGED <<inn, socket, listening, registered, srvJoined, excuse>>
    BY <1>10 DEF vars, chanVars, clientVars, netVars
  <2> QED
    BY <2>1, <2>2, NothingChanged, MatchOfGrowth
<1> QED
  BY <1>1, <1>2, <1>3, <1>4, <1>5, <1>6, <1>7, <1>8, <1>9, <1>10 DEF Next

(* Once everything in flight has arrived, a channel that believes to be    *)
(* joined has a subscription at the server, or the server refused its last *)
(* join, or the application has closed the client since that join, with    *)
(* any number of pushes, references, leaves, lost connections, errors and  *)
(* calls of close() and connect() (_rejoin, on_error, on_close,            *)
(* on_join_push_ok, _reconnect, close).                                    *)
THEOREM JoinedChannelsAreJoined == Spec => []JoinedMatchesServer
<1>1. CASE {"silence", "backpressure"} \cap Env = {}
  <2>1. MatchInv => JoinedMatchesServer
    <3>1. Quiet => /\ Len(out) = 0 /\ Len(inn) = 0
                   /\ Connected /\ listening /\ due = 0
      BY DEF Quiet
    <3>2. Len(out) = 0 /\ Len(inn) = 0 => ~Ending
      BY DEF Ending
    <3>3. Len(inn) = 0 /\ Settled(0) => srvJoined \/ excuse # "none"
      BY DEF Settled
    <3> QED
      BY <3>1, <3>2, <3>3 DEF JoinedMatchesServer, MatchInv, JoinedOnline,
                              JoinedHolds, Attached
  <2> QED
    BY <1>1, <2>1, MatchOfInit, MatchOfNext, OfflineOfNext, TypeCorrect, PTL
       DEF Spec
<1>2. CASE {"silence", "backpressure"} \cap Env # {}
  <2>1. JoinedMatchesServer
    BY <1>2 DEF JoinedMatchesServer
  <2> QED
    BY <2>1, PTL
<1> QED
  BY <1>1, <1>2
=============================================================================
