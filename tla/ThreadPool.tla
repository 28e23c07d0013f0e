----------------------------- MODULE ThreadPool -----------------------------
(***************************************************************************)
(* ThreadPool of agent++/src/threads.cpp: callers of execute, each in its  *)
(* own thread, the workers, and the thread that deletes the pool as        *)
(* Mib::~Mib (agent++/src/mib.cpp) does: terminate, wait until the pool is *)
(* idle, delete.                                                           *)
(***************************************************************************)
EXTENDS TaskManagers

CONSTANTS Callers   \* threads that call execute

VARIABLES
    calls,       \* number of calls of execute so far
    cpc, arg,    \* where a caller is in execute, and its task
    at,          \* the cursor of its loop over taskList
    tpc, tat     \* where the pool's owner is, and its cursor

callerVars == <<calls, cpc, arg, at>>
ownerVars == <<tpc, tat>>
vars == <<workerVars, callerVars, ownerVars>>

\* "lock" before the loop, "relock" after set_task failed, "scan" in the loop
\* with the pool locked, "set" in set_task, "wait" in wait(1000).
CallerPlaces == {"idle", "lock", "relock", "scan", "set", "wait"}

\* "stop" in terminate with the pool locked, "poll" in is_idle with the pool
\* locked, "pause" between the two, "ready" after is_idle has returned TRUE,
\* "delete" and "join" in ~TaskManager.
OwnerPlaces == {"live", "stop", "pause", "poll", "ready", "delete", "join", "gone"}

\* Types; a caller has a task exactly while it is in execute, and a cursor on
\* a worker while it is in set_task.
TypeOK ==
    /\ WorkersOK
    /\ calls \in 0 .. MaxTasks
    /\ cpc \in [Callers -> CallerPlaces]
    /\ arg \in [Callers -> Tasks \union {NoTask}]
    /\ \A c \in Callers : cpc[c] = "idle" <=> arg[c] = NoTask
    /\ at \in [Callers -> 1 .. Size + 1]
    /\ \A c \in Callers : cpc[c] \in {"set", "relock"} => at[c] \in Workers
    /\ tpc \in OwnerPlaces /\ tat \in 1 .. Size + 1
    /\ tpc \in {"delete", "join"} => tat \in Workers

Init ==
    /\ WorkersInit
    /\ calls = 0
    /\ cpc = [c \in Callers |-> "idle"]
    /\ arg = [c \in Callers |-> NoTask]
    /\ at = [c \in Callers |-> 1]
    /\ tpc = "live" /\ tat = 1

Unused == \A c \in Callers : cpc[c] = "idle"

PoolFree == tpc \notin {"stop", "poll"} /\ \A c \in Callers : cpc[c] # "scan"

-----------------------------------------------------------------------------
(* execute *)

Goto(c, place) == cpc' = [cpc EXCEPT ![c] = place]

\* Nobody calls execute any more when the pool is terminated; calls that
\* began before go on.
Execute(c) ==
    /\ cpc[c] = "idle" /\ tpc = "live" /\ calls < MaxTasks
    /\ calls' = calls + 1
    /\ arg' = [arg EXCEPT ![c] = calls + 1]
    /\ Goto(c, "lock")
    /\ UNCHANGED <<at, workerVars, ownerVars>>

Lock(c) ==
    /\ PoolFree /\ cpc[c] \in {"lock", "relock"}
    /\ Goto(c, "scan")
    /\ at' = [at EXCEPT ![c] = IF cpc[c] = "relock" THEN @ + 1 ELSE 1]
    /\ UNCHANGED <<calls, arg, workerVars, ownerVars>>

Skip(c) ==
    /\ cpc[c] = "scan" /\ at[c] \in Workers /\ ~IsIdle(at[c])
    /\ at' = [at EXCEPT ![c] = @ + 1]
    /\ UNCHANGED <<calls, cpc, arg, workerVars, ownerVars>>

\* The pool is unlocked before the task is set.
Choose(c) ==
    /\ cpc[c] = "scan" /\ at[c] \in Workers /\ IsIdle(at[c])
    /\ Goto(c, "set")
    /\ UNCHANGED <<calls, arg, at, workerVars, ownerVars>>

\* Mutant of Hand: set_task succeeds and returns FALSE.
HandAndRetry(c) ==
    /\ cpc[c] = "set" /\ SetTask(at[c], arg[c])
    /\ Goto(c, "relock")
    /\ UNCHANGED <<calls, arg, at, ownerVars>>

Hand(c) ==
    /\ cpc[c] = "set" /\ SetTask(at[c], arg[c])
    /\ Goto(c, "idle")
    /\ arg' = [arg EXCEPT ![c] = NoTask]
    /\ at' = [at EXCEPT ![c] = 1]
    /\ UNCHANGED <<calls, ownerVars>>

Retry(c) ==
    /\ cpc[c] = "set" /\ Refused(at[c])
    /\ Goto(c, "relock")
    /\ UNCHANGED <<calls, arg, at, workerVars, ownerVars>>

Await(c) ==
    /\ cpc[c] = "scan" /\ at[c] = Size + 1
    /\ Goto(c, "wait")
    /\ at' = [at EXCEPT ![c] = 1]
    /\ UNCHANGED <<calls, arg, workerVars, ownerVars>>

\* The wait ends after a second, or earlier.
Timeout(c) ==
    /\ cpc[c] = "wait"
    /\ Goto(c, "lock")
    /\ UNCHANGED <<calls, arg, at, workerVars, ownerVars>>

\* notify wakes one caller that waits.
Notify ==
    LET waiting == {c \in Callers : cpc[c] = "wait"}
    IN IF waiting = {} THEN UNCHANGED cpc ELSE \E c \in waiting : Goto(c, "lock")

\* idle_notification
IdleNotification(w) ==
    /\ wpc[w] = "notify" /\ PoolFree
    /\ wpc' = [wpc EXCEPT ![w] = "enter"]
    /\ Notify
    /\ UNCHANGED <<task, go, done, dropped, calls, arg, at, ownerVars>>

-----------------------------------------------------------------------------
(* terminate, is_idle and the destructors *)

Terminate ==
    /\ tpc = "live" /\ PoolFree
    /\ tpc' = "stop" /\ tat' = 1
    /\ UNCHANGED <<workerVars, callerVars>>

StopNext ==
    /\ tpc = "stop" /\ tat \in Workers
    /\ StopWorker(tat)
    /\ tat' = tat + 1
    /\ UNCHANGED <<tpc, callerVars>>

Terminated ==
    /\ tpc = "stop" /\ tat = Size + 1
    /\ Notify
    /\ tpc' = "pause" /\ tat' = 1
    /\ UNCHANGED <<workerVars, calls, arg, at>>

Poll ==
    /\ tpc = "pause" /\ PoolFree
    /\ tpc' = "poll" /\ tat' = 1
    /\ UNCHANGED <<workerVars, callerVars>>

PollNext ==
    /\ tpc = "poll" /\ tat \in Workers /\ IsIdle(tat)
    /\ tat' = tat + 1
    /\ UNCHANGED <<tpc, workerVars, callerVars>>

StillBusy ==
    /\ tpc = "poll" /\ tat \in Workers /\ ~IsIdle(tat)
    /\ tpc' = "pause" /\ tat' = 1
    /\ UNCHANGED <<workerVars, callerVars>>

AllIdle ==
    /\ tpc = "poll" /\ tat = Size + 1
    /\ tpc' = "ready" /\ tat' = 1
    /\ UNCHANGED <<workerVars, callerVars>>

\* The pool is deleted.  Its destructor terminates it once more, to no effect.
\* Mib::~Mib waits until all are idle, MasterAgentXMib::~MasterAgentXMib does
\* not.  Neither may delete a pool while somebody is in execute.
Delete ==
    /\ tpc \in {"ready", "pause"} /\ Unused
    /\ tpc' = "delete" /\ tat' = 1
    /\ UNCHANGED <<workerVars, callerVars>>

DestroyNext ==
    /\ tpc = "delete" /\ Destroy(tat)
    /\ tpc' = "join"
    /\ UNCHANGED <<tat, callerVars>>

Join ==
    /\ tpc = "join" /\ wpc[tat] = "ended"
    /\ IF tat = Size
       THEN tpc' = "gone" /\ tat' = 1
       ELSE tpc' = "delete" /\ tat' = tat + 1
    /\ UNCHANGED <<workerVars, callerVars>>

Gone == tpc = "gone" /\ UNCHANGED vars

-----------------------------------------------------------------------------

CallerStep(c) ==
    Lock(c) \/ Skip(c) \/ Choose(c) \/ Hand(c) \/ Retry(c) \/ Await(c) \/ Timeout(c)

OwnerStep ==
    \/ StopNext \/ Terminated \/ Poll \/ PollNext \/ StillBusy \/ AllIdle
    \/ Delete /\ tpc = "ready"
    \/ DestroyNext \/ Join

\* What a worker does when it runs; a wait without a timeout may last forever.
WorkerRuns(w) ==
    \/ WorkerStep(w) /\ UNCHANGED <<callerVars, ownerVars>>
    \/ IdleNotification(w)

WorkerNext(w) ==
    \/ WorkerRuns(w)
    \/ Awake(w) /\ UNCHANGED <<callerVars, ownerVars>>

Next ==
    \/ \E w \in Workers : WorkerNext(w)
    \/ \E c \in Callers : Execute(c) \/ CallerStep(c)
    \/ Terminate \/ OwnerStep \/ Delete \/ Gone

Spec == Init /\ [][Next]_vars

\* Threads do not stop, tasks end, and a wait with a timeout ends.  A lock is
\* free most of the time: whoever waits for it gets it.
FairSpec ==
    /\ Spec
    /\ \A w \in Workers : SF_vars(WorkerRuns(w))
    /\ \A c \in Callers : SF_vars(CallerStep(c))
    /\ SF_vars(OwnerStep)

-----------------------------------------------------------------------------
(* Properties *)

\* A task is in one place: with the caller whose execute has not returned, or
\* with one worker, or it is done or deleted.
Places(t) ==
    {<<"caller", c>> : c \in {c \in Callers : arg[c] = t}}
      \union {<<"worker", w>> : w \in {w \in Workers : task[w] = t}}
      \union (IF t \in done THEN {<<"done", 0>>} ELSE {})
      \union (IF t \in dropped THEN {<<"dropped", 0>>} ELSE {})

\* execute neither loses a task nor gives it to two workers, whatever other
\* callers and the pool's owner do meanwhile.
InOnePlace == \A t \in 1 .. calls : \E p \in Places(t) : Places(t) = {p}

StateOf(t) ==
    CASE t > calls -> "new"
      [] t \in Running -> "running"
      [] t \in done -> "done"
      [] t \in dropped -> "dropped"
      [] OTHER -> "pending"

Phase ==
    CASE tpc = "live" -> "live"
      [] tpc = "stop" -> "stopping"
      [] OTHER -> "stopped"

Bag == INSTANCE TaskBag WITH state <- [t \in Tasks |-> StateOf(t)], phase <- Phase

\* Each task is run at most once, at most Size at a time, none is deleted
\* unless the pool is terminated, and none is started after terminate.
ImplementsBag == Bag!Spec

\* Every task given to execute is run, unless the pool is terminated: neither
\* the notification of set_task nor that of idle_notification gets lost.
TasksRun == \A t \in Tasks : t <= calls ~> t \in done \/ tpc # "live"

\* threads.h says of is_idle: "TRUE if the thread managed by this TaskManager
\* does not currently execute any task; FALSE otherwise."
EndedAreIdle == \A w \in Workers : wpc[w] = "ended" => IsIdle(w)

\* A pool that nobody uses any more can be deleted, if no call of execute that
\* overlapped with terminate has left its task with a worker that had ended:
\* Mib::~Mib does not hang.
PoolGoes ==
    (tpc # "live" /\ EndedAreIdle /\ Unused) ~> tpc = "gone"
=============================================================================
