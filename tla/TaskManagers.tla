---------------------------- MODULE TaskManagers ----------------------------
(***************************************************************************)
(* The workers of a thread pool: TaskManager of agent++/src/threads.cpp.   *)
(*                                                                         *)
(* A worker holds the lock of its TaskManager while it tests go and while  *)
(* it runs a task; it gives it up to wait and to tell the pool that it is  *)
(* idle.  Nobody else holds that lock for more than one step.              *)
(***************************************************************************)
EXTENDS Naturals

CONSTANTS
    Size,      \* number of workers
    MaxTasks   \* bound on the number of tasks given to the pool

ASSUME ManagersAssumption == Size \in Nat \ {0} /\ MaxTasks \in Nat

Workers == 1 .. Size

\* Tasks are numbered in the order in which execute is called for them.
Tasks == 1 .. MaxTasks
NoTask == 0   \* a null pointer

VARIABLES
    task,     \* TaskManager::task
    go,       \* TaskManager::go
    wpc,      \* where the worker is in TaskManager::run
    done,     \* tasks that were run to their end
    dropped   \* tasks that were deleted without being run

workerVars == <<task, go, wpc, done, dropped>>

\* "enter": before a lock(), also the one at the end of wait();
\* "notify": after the unlock(), before the call of idle_notification.
WorkerPlaces == {"enter", "loop", "run", "notify", "wait", "ended"}

WorkersOK ==
    /\ task \in [Workers -> Tasks \union {NoTask}]
    /\ go \in [Workers -> BOOLEAN]
    /\ wpc \in [Workers -> WorkerPlaces]
    /\ done \subseteq Tasks /\ dropped \subseteq Tasks
    /\ \A w \in Workers : wpc[w] = "run" => task[w] # NoTask

WorkersInit ==
    /\ task = [w \in Workers |-> NoTask]
    /\ go = [w \in Workers |-> TRUE]
    /\ wpc = [w \in Workers |-> "enter"]
    /\ done = {} /\ dropped = {}

IsIdle(w) == task[w] = NoTask

\* The worker has its TaskManager locked.
Locked(w) == wpc[w] \in {"loop", "run"}

Running == {t \in Tasks : \E w \in Workers : wpc[w] = "run" /\ task[w] = t}

Enter(w) ==
    /\ wpc[w] = "enter"
    /\ wpc' = [wpc EXCEPT ![w] = "loop"]
    /\ UNCHANGED <<task, go, done, dropped>>

\* Mutant of TakeTask: the worker believes that it was woken for a task.
TakeUnchecked(w) ==
    /\ wpc[w] = "loop" /\ go[w]
    /\ wpc' = [wpc EXCEPT ![w] = "run"]
    /\ UNCHANGED <<task, go, done, dropped>>

TakeTask(w) ==
    /\ wpc[w] = "loop" /\ go[w] /\ ~IsIdle(w)
    /\ wpc' = [wpc EXCEPT ![w] = "run"]
    /\ UNCHANGED <<task, go, done, dropped>>

Sleep(w) ==
    /\ wpc[w] = "loop" /\ go[w] /\ IsIdle(w)
    /\ wpc' = [wpc EXCEPT ![w] = "wait"]
    /\ UNCHANGED <<task, go, done, dropped>>

\* Mutant of Finish: the worker does not forget the task.
FinishKeeping(w) ==
    /\ wpc[w] = "run"
    /\ wpc' = [wpc EXCEPT ![w] = "notify"]
    /\ done' = done \union {task[w]}
    /\ UNCHANGED <<task, go, dropped>>

\* task->run() returns, the task is deleted.
Finish(w) ==
    /\ wpc[w] = "run"
    /\ wpc' = [wpc EXCEPT ![w] = "notify"]
    /\ task' = [task EXCEPT ![w] = NoTask]
    /\ done' = done \union {task[w]}
    /\ UNCHANGED <<go, dropped>>

\* A worker that was stopped deletes the task it has not run.
Leave(w) ==
    /\ wpc[w] = "loop" /\ ~go[w]
    /\ wpc' = [wpc EXCEPT ![w] = "ended"]
    /\ task' = [task EXCEPT ![w] = NoTask]
    /\ dropped' = dropped \union ({task[w]} \ {NoTask})
    /\ UNCHANGED <<go, done>>

\* A condition variable may wake its waiter for no reason; an event that was
\* set before the wait began does the same.
Awake(w) ==
    /\ wpc[w] = "wait"
    /\ wpc' = [wpc EXCEPT ![w] = "enter"]
    /\ UNCHANGED <<task, go, done, dropped>>

Notified(w) == IF wpc[w] = "wait" THEN [wpc EXCEPT ![w] = "enter"] ELSE wpc

\* Mutant of SetTask: the worker is not notified.
SetTaskSilently(w, t) ==
    /\ ~Locked(w) /\ IsIdle(w)
    /\ task' = [task EXCEPT ![w] = t]
    /\ UNCHANGED <<go, wpc, done, dropped>>

\* set_task gets the lock and succeeds ...
SetTask(w, t) ==
    /\ ~Locked(w) /\ IsIdle(w)
    /\ task' = [task EXCEPT ![w] = t]
    /\ wpc' = Notified(w)
    /\ UNCHANGED <<go, done, dropped>>

\* ... or another caller has been faster.
Refused(w) == ~Locked(w) /\ ~IsIdle(w)

\* stop() takes no lock and wakes nobody.
StopWorker(w) ==
    /\ go' = [go EXCEPT ![w] = FALSE]
    /\ UNCHANGED <<task, wpc, done, dropped>>

\* Mutant of Destroy: ~TaskManager does not notify the worker.
DestroySilently(w) == ~Locked(w) /\ StopWorker(w)

\* ~TaskManager up to the join
Destroy(w) ==
    /\ ~Locked(w)
    /\ go' = [go EXCEPT ![w] = FALSE]
    /\ wpc' = Notified(w)
    /\ UNCHANGED <<task, done, dropped>>

WorkerStep(w) == Enter(w) \/ TakeTask(w) \/ Sleep(w) \/ Finish(w) \/ Leave(w)
=============================================================================
