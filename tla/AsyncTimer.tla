----------------------------- MODULE AsyncTimer -----------------------------
(***************************************************************************)
(* AsyncTimer (realtime/_async/timer.py): a callback run by an asyncio     *)
(* task after a delay.  The object keeps a reference to its newest task    *)
(* only; older tasks live on in the event loop.  A task that executes its  *)
(* callback and is cancelled (the rejoin timer's callback does this to     *)
(* itself, by scheduling the next try) runs until its next suspension.     *)
(* Time is abstracted: a sleeping task may wake up at any moment.          *)
(***************************************************************************)
EXTENDS Naturals

CONSTANT MaxTasks   \* bound: how many tasks are ever created

ASSUME MaxTasksAssumption == MaxTasks \in Nat

VARIABLES
  tries,   \* self.tries: the schedule_timeout calls since the last reset
  timer,   \* self.timer: the newest task, 0 for None
  task,    \* the state of every task ever created, and of those to come
  doomed,  \* tasks cancelled while their callback runs
  born,    \* how many tasks were created
  called   \* history: the tasks whose callback was started

vars == <<tries, timer, task, doomed, born, called>>

Tasks == 1..MaxTasks

TypeOK ==
  /\ tries \in 0..MaxTasks
  /\ timer \in 0..MaxTasks
  /\ task \in [Tasks -> {"unborn", "sleeping", "calling", "done"}]
  /\ doomed \subseteq Tasks
  /\ born \in 0..MaxTasks
  /\ called \subseteq Tasks

Init ==
  /\ tries = 0
  /\ timer = 0
  /\ task = [t \in Tasks |-> "unborn"]
  /\ doomed = {}
  /\ born = 0
  /\ called = {}

-----------------------------------------------------------------------------
(* Task.cancel(): a sleeping task ends, its CancelledError caught by       *)
(* _run_timer; one that executes its callback is told at its next          *)
(* suspension; one that ended does not notice.                             *)

Live(t) == t # 0 /\ task[t] \in {"sleeping", "calling"}

Cancelled(t) == [x \in Tasks |-> IF x = t /\ task[x] = "sleeping"
                                   THEN "done" ELSE task[x]]

DoomedBy(t) == doomed \cup {x \in Tasks : x = t /\ task[x] = "calling"}

(* A reset that forgets the task and does not cancel it.                   *)
ResetWithoutCancel ==
  /\ tries' = 0
  /\ timer' = 0
  /\ UNCHANGED <<task, doomed, born, called>>

(* A reset that takes one try back.                                        *)
ResetOneTry ==
  /\ tries' = tries - 1
  /\ IF Live(timer)
       THEN /\ task' = Cancelled(timer)
            /\ doomed' = DoomedBy(timer)
            /\ timer' = 0
       ELSE UNCHANGED <<task, doomed, timer>>
  /\ UNCHANGED <<born, called>>

(* reset(): a task that is not done is cancelled and forgotten.            *)
Reset ==
  /\ tries' = 0
  /\ IF Live(timer)
       THEN /\ task' = Cancelled(timer)
            /\ doomed' = DoomedBy(timer)
            /\ timer' = 0
       ELSE UNCHANGED <<task, doomed, timer>>
  /\ UNCHANGED <<born, called>>

(* A scheduling that does not cancel the task it replaces.                 *)
StartedBesideTheOld == [task EXCEPT ![born + 1] = "sleeping"]

(* schedule_timeout()'s effect on the tasks: the known one is cancelled,   *)
(* a new one is created.                                                   *)
Started == [Cancelled(timer) EXCEPT ![born + 1] = "sleeping"]

ScheduleTimeout ==
  /\ born < MaxTasks
  /\ tries' = tries + 1
  /\ born' = born + 1
  /\ task' = Started
  /\ doomed' = DoomedBy(timer)
  /\ timer' = born + 1
  /\ UNCHANGED called

(* _run_timer(): the sleep is over and the callback starts.                *)
Fire(t) ==
  /\ task[t] = "sleeping"
  /\ task' = [task EXCEPT ![t] = "calling"]
  /\ called' = called \cup {t}
  /\ UNCHANGED <<tries, timer, doomed, born>>

(* _run_timer(): the callback returned, or raised what _run_timer logs, or *)
(* (a doomed task) was interrupted at a suspension.  All end the task.     *)
Finish(t) ==
  /\ task[t] = "calling"
  /\ task' = [task EXCEPT ![t] = "done"]
  /\ doomed' = doomed \ {t}
  /\ UNCHANGED <<tries, timer, born, called>>

Next ==
  \/ Reset
  \/ ScheduleTimeout
  \/ \E t \in Tasks : Fire(t) \/ Finish(t)

Spec == Init /\ [][Next]_vars

-----------------------------------------------------------------------------
(* Of all tasks the timer created, only the one it still refers to can     *)
(* start a callback: what was superseded or reset never fires.             *)
OnlyTheLatestSleeps == \A t \in Tasks : task[t] = "sleeping" => t = timer

(* The request the timer's state stands for: its task if it still sleeps.  *)
PendingTask == IF timer \in Tasks /\ task[timer] = "sleeping" THEN timer ELSE 0

OneShot == INSTANCE OneShotTimer
             WITH requests <- born, pending <- PendingTask, expired <- called

(* The tasks, cancellations and the reference the object keeps implement   *)
(* the one-shot timer its callers expect (timer.py as a whole).            *)
ImplementsOneShot == OneShot!Spec
=============================================================================
