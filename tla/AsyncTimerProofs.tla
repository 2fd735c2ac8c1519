-------------------------- MODULE AsyncTimerProofs --------------------------
(* Proofs about AsyncTimer, for any number of tasks.                       *)
EXTENDS AsyncTimer, TLAPS

USE MaxTasksAssumption

(* What the invariants below rest on: the tasks are born in order, and the *)
(* ones that started their callback are the ones in "called".              *)
TasksAreKnown ==
  /\ timer <= born
  /\ tries <= born
  /\ \A t \in Tasks : task[t] = "unborn" <=> t > born
  /\ \A t \in Tasks : t \in called => task[t] \in {"calling", "done"}

IInv == TypeOK /\ OnlyTheLatestSleeps /\ TasksAreKnown

LEMMA Initially == Init => IInv
  BY DEF Init, IInv, TypeOK, OnlyTheLatestSleeps, TasksAreKnown, Tasks

LEMMA Inductive == IInv /\ [Next]_vars => IInv'
<1> SUFFICES ASSUME IInv, [Next]_vars PROVE IInv'
  OBVIOUS
<1> USE DEF IInv, TypeOK, OnlyTheLatestSleeps, TasksAreKnown, Tasks
<1>1. CASE Reset
  <2>1. CASE Live(timer)
    <3> USE <1>1, <2>1 DEF Reset, Live, Cancelled, DoomedBy
    <3>4. task' \in [Tasks -> {"unborn", "sleeping", "calling", "done"}]
      OBVIOUS
    <3>5. doomed' \subseteq Tasks
      OBVIOUS
    <3>1. TypeOK'
      BY <3>4, <3>5
    <3>2. OnlyTheLatestSleeps'
      OBVIOUS
    <3>3. TasksAreKnown'
      OBVIOUS
    <3> QED
      BY <3>1, <3>2, <3>3
  <2>2. CASE ~Live(timer)
    <3>1. tries' = 0 /\ UNCHANGED <<task, doomed, timer, born, called>>
      BY <1>1, <2>2 DEF Reset
    <3> QED
      BY <3>1
  <2> QED
    BY <2>1, <2>2
<1>2. CASE ScheduleTimeout
  <2> USE <1>2 DEF ScheduleTimeout, Started, Cancelled, DoomedBy
  <2>4. task' \in [Tasks -> {"unborn", "sleeping", "calling", "done"}]
    OBVIOUS
  <2>5. doomed' \subseteq Tasks
    OBVIOUS
  <2>6. tries' \in 0..MaxTasks /\ born' \in 0..MaxTasks /\ timer' \in 0..MaxTasks
    OBVIOUS
  <2>1. TypeOK'
    BY <2>4, <2>5, <2>6
  <2>2. OnlyTheLatestSleeps'
    OBVIOUS
  <2>3. TasksAreKnown'
    OBVIOUS
  <2> QED
    BY <2>1, <2>2, <2>3
<1>3. ASSUME NEW t \in Tasks, Fire(t) PROVE IInv'
  BY <1>3 DEF Fire
<1>4. ASSUME NEW t \in Tasks, Finish(t) PROVE IInv'
  BY <1>4 DEF Finish
<1>5. CASE UNCHANGED vars
  BY <1>5 DEF vars
<1> QED
  BY <1>1, <1>2, <1>3, <1>4, <1>5 DEF Next

(* Type correctness of the timer.                                          *)
THEOREM TypeCorrect == Spec => []TypeOK
<1>1. IInv => TypeOK
  BY DEF IInv
<1> QED
  BY <1>1, Initially, Inductive, PTL DEF Spec

(* Only the task the timer refers to can still start its callback: a reset *)
(* or a newer schedule_timeout() silences every older task.                *)
THEOREM LatestOnly == Spec => []OnlyTheLatestSleeps
<1>1. IInv => OnlyTheLatestSleeps
  BY DEF IInv
<1> QED
  BY <1>1, Initially, Inductive, PTL DEF Spec

-----------------------------------------------------------------------------
(* The refinement: a step of the tasks is a step of the one-shot timer, or *)
(* changes nothing of it.                                                  *)

LEMMA InitRefines == Init => OneShot!Init
  BY DEF Init, OneShot!Init, PendingTask, Tasks

LEMMA StepRefines == IInv /\ [Next]_vars => [OneShot!Next]_(OneShot!vars)
<1> SUFFICES ASSUME IInv, [Next]_vars PROVE [OneShot!Next]_(OneShot!vars)
  OBVIOUS
<1> USE DEF IInv, TypeOK, OnlyTheLatestSleeps, TasksAreKnown, Tasks
<1>1. CASE Reset
  <2>1. CASE Live(timer)
    <3>1. PendingTask' = 0 /\ UNCHANGED <<born, called>>
      BY <1>1, <2>1 DEF Reset, PendingTask
    <3> QED
      BY <3>1 DEF OneShot!Next, OneShot!Withdraw
  <2>2. CASE ~Live(timer)
    <3>1. PendingTask' = PendingTask /\ UNCHANGED <<born, called>>
      BY <1>1, <2>2 DEF Reset, PendingTask
    <3> QED
      BY <3>1 DEF OneShot!vars
  <2> QED
    BY <2>1, <2>2
<1>2. CASE ScheduleTimeout
  <2>1. born + 1 \in Tasks /\ task'[born + 1] = "sleeping" /\ timer' = born + 1
    BY <1>2 DEF ScheduleTimeout, Started, Cancelled
  <2>2. PendingTask' = born + 1
    BY <2>1 DEF PendingTask
  <2> QED
    BY <1>2, <2>2 DEF ScheduleTimeout, OneShot!Next, OneShot!Request
<1>3. ASSUME NEW t \in Tasks, Fire(t) PROVE OneShot!Next
  <2>1. t = timer /\ t # 0 /\ t \notin called
    BY <1>3 DEF Fire
  <2>2. PendingTask = t
    BY <1>3, <2>1 DEF Fire, PendingTask
  <2>3. PendingTask' = 0
    BY <1>3, <2>1 DEF Fire, PendingTask
  <2> QED
    BY <1>3, <2>1, <2>2, <2>3 DEF Fire, OneShot!Next, OneShot!Expire
<1>4. ASSUME NEW t \in Tasks, Finish(t) PROVE UNCHANGED OneShot!vars
  <2>1. PendingTask' = PendingTask
    BY <1>4 DEF Finish, PendingTask
  <2> QED
    BY <1>4, <2>1 DEF Finish, OneShot!vars
<1>5. CASE UNCHANGED vars
  BY <1>5 DEF vars, PendingTask, OneShot!vars
<1> QED
  BY <1>1, <1>2, <1>3, <1>4, <1>5 DEF Next

(* AsyncTimer implements the one-shot timer: this is what lets Channel     *)
(* keep one Boolean for its rejoin timer.                                  *)
THEOREM Refines == Spec => ImplementsOneShot
  BY InitRefines, StepRefines, Initially, Inductive, PTL
     DEF Spec, ImplementsOneShot, OneShot!Spec
=============================================================================
