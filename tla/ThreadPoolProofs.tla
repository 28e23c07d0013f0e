-------------------------- MODULE ThreadPoolProofs --------------------------
(***************************************************************************)
(* Theorems about ThreadPool for every number of workers, callers and      *)
(* tasks: its types, that no task is lost or handed out twice, and that it *)
(* implements TaskBag.                                                     *)
(***************************************************************************)
EXTENDS ThreadPool, TLAPS, FiniteSetTheorems

-----------------------------------------------------------------------------
(* Types *)

\* What Notify does to the callers.
LEMMA NotifyType ==
    ASSUME TypeOK, Notify
    PROVE  /\ cpc' \in [Callers -> CallerPlaces]
           /\ \A c \in Callers : cpc'[c] = cpc[c] \/ (cpc[c] = "wait" /\ cpc'[c] = "lock")
  BY DEF TypeOK, Notify, Goto, CallerPlaces

\* Typing survives every step of a worker.
LEMMA WorkerType ==
    ASSUME TypeOK, NEW w \in Workers, WorkerNext(w)
    PROVE  TypeOK'
  <1>1. CASE WorkerStep(w) /\ UNCHANGED <<callerVars, ownerVars>>
    <2>1. CASE Enter(w)
      BY <1>1, <2>1 DEF TypeOK, WorkersOK, WorkerPlaces, Enter, callerVars, ownerVars
    <2>2. CASE TakeTask(w)
      BY <1>1, <2>2 DEF TypeOK, WorkersOK, WorkerPlaces, TakeTask, IsIdle, callerVars, ownerVars
    <2>3. CASE Sleep(w)
      BY <1>1, <2>3 DEF TypeOK, WorkersOK, WorkerPlaces, Sleep, callerVars, ownerVars
    <2>4. CASE Finish(w)
      BY <1>1, <2>4 DEF TypeOK, WorkersOK, WorkerPlaces, Finish, callerVars, ownerVars
    <2>5. CASE Leave(w)
      BY <1>1, <2>5 DEF TypeOK, WorkersOK, WorkerPlaces, Leave, callerVars, ownerVars
    <2> QED BY <1>1, <2>1, <2>2, <2>3, <2>4, <2>5 DEF WorkerStep
  <1>2. CASE Awake(w) /\ UNCHANGED <<callerVars, ownerVars>>
    BY <1>2 DEF TypeOK, WorkersOK, WorkerPlaces, Awake, callerVars, ownerVars
  <1>3. CASE IdleNotification(w)
    <2>1. WorkersOK'
      BY <1>3 DEF TypeOK, WorkersOK, WorkerPlaces, IdleNotification
    <2>2. Notify
      BY <1>3 DEF IdleNotification
    <2> QED BY <1>3, <2>1, <2>2, NotifyType DEF TypeOK, IdleNotification, ownerVars
  <1> QED BY <1>1, <1>2, <1>3 DEF WorkerNext, WorkerRuns

\* Typing survives every step of a caller.
LEMMA CallerType ==
    ASSUME TypeOK, NEW c \in Callers, Execute(c) \/ CallerStep(c)
    PROVE  TypeOK'
  <1> USE ManagersAssumption
  <1>1. CASE Execute(c)
    BY <1>1 DEF TypeOK, WorkersOK, CallerPlaces, Execute, Goto, workerVars, ownerVars, Tasks, NoTask
  <1>2. CASE Lock(c)
    BY <1>2 DEF TypeOK, WorkersOK, CallerPlaces, Lock, Goto, workerVars, ownerVars, Workers
  <1>3. CASE Skip(c)
    BY <1>3 DEF TypeOK, WorkersOK, CallerPlaces, Skip, workerVars, ownerVars, Workers
  <1>4. CASE Choose(c)
    BY <1>4 DEF TypeOK, WorkersOK, CallerPlaces, Choose, Goto, workerVars, ownerVars, Workers
  <1>5. CASE Hand(c)
    <2>1. at[c] \in Workers /\ arg[c] \in Tasks
      BY <1>5 DEF TypeOK, Hand, SetTask, Locked
    <2>2. WorkersOK'
      BY <1>5, <2>1 DEF TypeOK, WorkersOK, WorkerPlaces, Hand, SetTask, Locked, Notified, IsIdle, Tasks, NoTask
    <2> QED BY <1>5, <2>2 DEF TypeOK, CallerPlaces, Hand, Goto, ownerVars, Workers
  <1>6. CASE Retry(c)
    BY <1>6 DEF TypeOK, WorkersOK, CallerPlaces, Retry, Goto, workerVars, ownerVars
  <1>7. CASE Await(c)
    BY <1>7 DEF TypeOK, WorkersOK, CallerPlaces, Await, Goto, workerVars, ownerVars, Workers
  <1>8. CASE Timeout(c)
    BY <1>8 DEF TypeOK, WorkersOK, CallerPlaces, Timeout, Goto, workerVars, ownerVars
  <1> QED BY <1>1, <1>2, <1>3, <1>4, <1>5, <1>6, <1>7, <1>8 DEF CallerStep

\* Typing survives every step of the pool's owner.
LEMMA OwnerType ==
    ASSUME TypeOK, Terminate \/ OwnerStep \/ Delete \/ Gone
    PROVE  TypeOK'
  <1> USE ManagersAssumption
  <1>1. CASE Terminate
    BY <1>1 DEF TypeOK, WorkersOK, OwnerPlaces, Terminate, workerVars, callerVars
  <1>2. CASE StopNext
    BY <1>2 DEF TypeOK, WorkersOK, StopNext, StopWorker, callerVars, Workers
  <1>3. CASE Terminated
    <2>1. Notify
      BY <1>3 DEF Terminated
    <2> QED BY <1>3, <2>1, NotifyType DEF TypeOK, WorkersOK, OwnerPlaces, Terminated, workerVars
  <1>4. CASE Poll
    BY <1>4 DEF TypeOK, WorkersOK, OwnerPlaces, Poll, workerVars, callerVars
  <1>5. CASE PollNext
    BY <1>5 DEF TypeOK, WorkersOK, PollNext, workerVars, callerVars, Workers
  <1>6. CASE StillBusy
    BY <1>6 DEF TypeOK, WorkersOK, OwnerPlaces, StillBusy, workerVars, callerVars
  <1>7. CASE AllIdle
    BY <1>7 DEF TypeOK, WorkersOK, OwnerPlaces, AllIdle, workerVars, callerVars
  <1>8. CASE Delete
    BY <1>8 DEF TypeOK, WorkersOK, OwnerPlaces, Delete, workerVars, callerVars, Workers
  <1>9. CASE DestroyNext
    BY <1>9 DEF TypeOK, WorkersOK, WorkerPlaces, OwnerPlaces, DestroyNext, Destroy, Notified, callerVars
  <1>10. CASE Join
    BY <1>10 DEF TypeOK, WorkersOK, OwnerPlaces, Join, workerVars, callerVars, Workers
  <1>11. CASE Gone
    BY <1>11 DEF TypeOK, WorkersOK, Gone, vars, workerVars, callerVars, ownerVars
  <1> QED BY <1>1, <1>2, <1>3, <1>4, <1>5, <1>6, <1>7, <1>8, <1>9, <1>10, <1>11 DEF OwnerStep

\* The variables of the pool keep their types: a worker that runs has a task,
\* and a caller has one exactly while it is in execute.
THEOREM TypeCorrect == Spec => []TypeOK
  <1>1. Init => TypeOK
    BY ManagersAssumption DEF Init, WorkersInit, TypeOK, WorkersOK, WorkerPlaces, CallerPlaces,
        OwnerPlaces, Tasks, NoTask, Workers
  <1>2. TypeOK /\ [Next]_vars => TypeOK'
    <2> SUFFICES ASSUME TypeOK, [Next]_vars PROVE TypeOK'
      OBVIOUS
    <2>1. CASE Next
      BY <2>1, WorkerType, CallerType, OwnerType DEF Next
    <2>2. CASE UNCHANGED vars
      BY <2>2 DEF TypeOK, WorkersOK, vars, workerVars, callerVars, ownerVars
    <2> QED BY <2>1, <2>2
  <1> QED BY <1>1, <1>2, PTL DEF Spec

-----------------------------------------------------------------------------
(* No task is lost, none is handed out twice *)

\* Only tasks execute was called for are anywhere.
Known ==
    /\ \A w \in Workers : task[w] <= calls
    /\ \A c \in Callers : arg[c] <= calls
    /\ \A t \in done \union dropped : t <= calls

\* No task is in two places ...
Apart ==
    /\ \A v, w \in Workers : task[v] = task[w] => v = w \/ IsIdle(v)
    /\ \A c, d \in Callers : arg[c] = arg[d] => c = d \/ arg[c] = NoTask
    /\ \A w \in Workers, c \in Callers : task[w] = arg[c] => IsIdle(w)
    /\ \A w \in Workers : task[w] \notin done \union dropped
    /\ \A c \in Callers : arg[c] \notin done \union dropped
    /\ done \intersect dropped = {}

\* ... and each is in one.
Found ==
    \A t \in 1 .. calls :
        \/ t \in done \union dropped
        \/ \E w \in Workers : task[w] = t
        \/ \E c \in Callers : arg[c] = t

Kept == Known /\ Apart /\ Found

taskPlaces == <<task, done, dropped, calls, arg>>

LEMMA KeptUnmoved == ASSUME Kept, UNCHANGED taskPlaces PROVE Kept'
  BY DEF Kept, Known, Apart, Found, IsIdle, taskPlaces

\* A task that was run goes from its worker to done.
LEMMA KeptFinish ==
    ASSUME TypeOK, Kept, NEW w \in Workers, Finish(w), UNCHANGED callerVars
    PROVE  Kept'
  <1> DEFINE t == task[w]
  <1>1. /\ t \in Tasks /\ t # NoTask /\ calls' = calls /\ arg' = arg
        /\ task' = [task EXCEPT ![w] = NoTask]
        /\ done' = done \union {t} /\ dropped' = dropped
        /\ task \in [Workers -> Tasks \union {NoTask}]
        /\ done \subseteq Tasks /\ dropped \subseteq Tasks /\ calls \in Nat
    BY DEF TypeOK, WorkersOK, Finish, callerVars, Tasks, NoTask
  <1>2. Known'
    BY <1>1 DEF Kept, Known, Tasks, NoTask
  <1>3. (\A v \in Workers \ {w} : task[v] # t) /\ \A d \in Callers : arg[d] # t
    BY <1>1 DEF Kept, Apart, IsIdle
  <1>4. Apart'
    <2>1. \A v, x \in Workers : task'[v] = task'[x] => v = x \/ task'[v] = NoTask
      BY <1>1 DEF Kept, Known, Apart, IsIdle, Tasks, NoTask
    <2>2. \A b, d \in Callers : arg'[b] = arg'[d] => b = d \/ arg'[b] = NoTask
      BY <1>1 DEF Kept, Known, Apart, Tasks, NoTask
    <2>3. \A v \in Workers, d \in Callers : task'[v] = arg'[d] => task'[v] = NoTask
      BY <1>1 DEF Kept, Known, Apart, IsIdle, Tasks, NoTask
    <2>4. \A v \in Workers : task'[v] \notin done' \union dropped'
      BY <1>1, <1>3 DEF Kept, Known, Apart, Tasks, NoTask
    <2>5. \A d \in Callers : arg'[d] \notin done' \union dropped'
      BY <1>1, <1>3 DEF Kept, Known, Apart, Tasks, NoTask
    <2>6. done' \intersect dropped' = {}
      BY <1>1 DEF Kept, Apart
    <2> QED BY <2>1, <2>2, <2>3, <2>4, <2>5, <2>6 DEF Apart, IsIdle
  <1>5. Found'
    BY <1>1 DEF Kept, Found
  <1> QED BY <1>2, <1>4, <1>5 DEF Kept

\* A task a stopped worker has not run goes from the worker to dropped.
LEMMA KeptLeave ==
    ASSUME TypeOK, Kept, NEW w \in Workers, Leave(w), UNCHANGED callerVars
    PROVE  Kept'
  <1> DEFINE t == task[w]
  <1>1. /\ t \in Tasks \union {NoTask} /\ calls' = calls /\ arg' = arg
        /\ task' = [task EXCEPT ![w] = NoTask]
        /\ done' = done /\ dropped' = dropped \union ({t} \ {NoTask})
        /\ task \in [Workers -> Tasks \union {NoTask}]
        /\ done \subseteq Tasks /\ dropped \subseteq Tasks /\ calls \in Nat
    BY DEF TypeOK, WorkersOK, Leave, callerVars, Tasks, NoTask
  <1>2. Known'
    BY <1>1 DEF Kept, Known, Tasks, NoTask
  <1>3. t # NoTask => (\A v \in Workers \ {w} : task[v] # t) /\ \A d \in Callers : arg[d] # t
    BY <1>1 DEF Kept, Apart, IsIdle
  <1>4. Apart'
    <2>1. \A v, x \in Workers : task'[v] = task'[x] => v = x \/ task'[v] = NoTask
      BY <1>1 DEF Kept, Known, Apart, IsIdle, Tasks, NoTask
    <2>2. \A b, d \in Callers : arg'[b] = arg'[d] => b = d \/ arg'[b] = NoTask
      BY <1>1 DEF Kept, Known, Apart, Tasks, NoTask
    <2>3. \A v \in Workers, d \in Callers : task'[v] = arg'[d] => task'[v] = NoTask
      BY <1>1 DEF Kept, Known, Apart, IsIdle, Tasks, NoTask
    <2>4. \A v \in Workers : task'[v] \notin done' \union dropped'
      BY <1>1, <1>3 DEF Kept, Known, Apart, Tasks, NoTask
    <2>5. \A d \in Callers : arg'[d] \notin done' \union dropped'
      BY <1>1, <1>3 DEF Kept, Known, Apart, Tasks, NoTask
    <2>6. done' \intersect dropped' = {}
      BY <1>1 DEF Kept, Apart
    <2> QED BY <2>1, <2>2, <2>3, <2>4, <2>5, <2>6 DEF Apart, IsIdle
  <1>5. Found'
    BY <1>1 DEF Kept, Found, NoTask
  <1> QED BY <1>2, <1>4, <1>5 DEF Kept

\* A new task is with the caller.
LEMMA KeptExecute ==
    ASSUME TypeOK, Kept, NEW c \in Callers, Execute(c)
    PROVE  Kept'
  <1>1. /\ arg[c] = NoTask /\ calls' = calls + 1 /\ calls \in Nat
        /\ arg' = [arg EXCEPT ![c] = calls + 1]
        /\ task' = task /\ done' = done /\ dropped' = dropped
        /\ task \in [Workers -> Tasks \union {NoTask}]
        /\ arg \in [Callers -> Tasks \union {NoTask}]
        /\ done \subseteq Tasks /\ dropped \subseteq Tasks
    BY DEF TypeOK, WorkersOK, Execute, workerVars, Tasks, NoTask
  <1>2. Known'
    BY <1>1 DEF Kept, Known, Tasks, NoTask
  <1>3. Apart'
    BY <1>1 DEF Kept, Known, Apart, IsIdle, Tasks, NoTask
  <1>4. Found'
    BY <1>1 DEF Kept, Found, NoTask
  <1> QED BY <1>2, <1>3, <1>4 DEF Kept

\* set_task moves it from the caller to a worker.
LEMMA KeptHand ==
    ASSUME TypeOK, Kept, NEW c \in Callers, Hand(c)
    PROVE  Kept'
  <1> DEFINE w == at[c]
  <1>1. /\ arg[c] \in Tasks /\ w \in Workers /\ task[w] = NoTask
        /\ arg' = [arg EXCEPT ![c] = NoTask]
        /\ task' = [task EXCEPT ![w] = arg[c]]
        /\ calls' = calls /\ done' = done /\ dropped' = dropped
        /\ task \in [Workers -> Tasks \union {NoTask}]
        /\ arg \in [Callers -> Tasks \union {NoTask}]
        /\ done \subseteq Tasks /\ dropped \subseteq Tasks /\ calls \in Nat
    BY DEF TypeOK, WorkersOK, Hand, SetTask, IsIdle, Tasks, NoTask
  <1>2. Known'
    BY <1>1 DEF Kept, Known, Tasks, NoTask
  <1>3. Apart'
    BY <1>1 DEF Kept, Apart, IsIdle, Tasks, NoTask
  <1>4. Found'
    BY <1>1 DEF Kept, Found, NoTask
  <1> QED BY <1>2, <1>3, <1>4 DEF Kept

\* Kept is inductive relative to the types.
LEMMA KeptNext == ASSUME TypeOK, Kept, [Next]_vars PROVE Kept'
  <1>1. ASSUME NEW w \in Workers, WorkerNext(w) PROVE Kept'
    BY <1>1, KeptUnmoved, KeptFinish, KeptLeave
       DEF WorkerNext, WorkerRuns, WorkerStep, Enter, TakeTask, Sleep, Awake,
           IdleNotification, taskPlaces, callerVars
  <1>2. ASSUME NEW c \in Callers, Execute(c) \/ CallerStep(c) PROVE Kept'
    BY <1>2, KeptUnmoved, KeptExecute, KeptHand
       DEF CallerStep, Lock, Skip, Choose, Retry, Await, Timeout, taskPlaces, workerVars
  <1>3. CASE Terminate \/ OwnerStep \/ Delete \/ Gone
    BY <1>3, KeptUnmoved
       DEF OwnerStep, Terminate, StopNext, StopWorker, Terminated, Poll, PollNext, StillBusy,
           AllIdle, Delete, DestroyNext, Destroy, Join, Gone, taskPlaces, vars, workerVars, callerVars
  <1>4. CASE UNCHANGED vars
    BY <1>4, KeptUnmoved DEF taskPlaces, vars, workerVars, callerVars
  <1> QED BY <1>1, <1>2, <1>3, <1>4 DEF Next

LEMMA KeptInit == ASSUME Init PROVE Kept
  BY DEF Init, WorkersInit, Kept, Known, Apart, Found, IsIdle, NoTask

\* What Kept says, in the words of Places.
LEMMA KeptInOnePlace == ASSUME TypeOK, Kept PROVE InOnePlace
  <1> SUFFICES ASSUME NEW t \in 1 .. calls PROVE \E p \in Places(t) : Places(t) = {p}
    BY DEF InOnePlace
  <1>1. t # NoTask
    BY DEF TypeOK, NoTask
  <1>2. CASE t \in done
    <2>1. Places(t) = {<<"done", 0>>}
      BY <1>1, <1>2 DEF Kept, Apart, Places
    <2> QED BY <2>1
  <1>3. CASE t \in dropped
    <2>1. Places(t) = {<<"dropped", 0>>}
      BY <1>1, <1>3 DEF Kept, Apart, Places
    <2> QED BY <2>1
  <1>4. ASSUME NEW w \in Workers, task[w] = t PROVE \E p \in Places(t) : Places(t) = {p}
    <2>1. Places(t) = {<<"worker", w>>}
      BY <1>1, <1>4 DEF Kept, Apart, Places, IsIdle
    <2> QED BY <2>1
  <1>5. ASSUME NEW c \in Callers, arg[c] = t PROVE \E p \in Places(t) : Places(t) = {p}
    <2>1. Places(t) = {<<"caller", c>>}
      BY <1>1, <1>5 DEF Kept, Apart, Places, IsIdle
    <2> QED BY <2>1
  <1> QED BY <1>2, <1>3, <1>4, <1>5 DEF Kept, Found

LEMMA KeptCorrect == Spec => []Kept
  <1> QED BY KeptInit, KeptNext, TypeCorrect, PTL DEF Spec

\* execute loses no task and gives none to two workers: a task is with the
\* caller, with one worker, done or deleted.
THEOREM EachInOnePlace == Spec => []InOnePlace
  <1> QED BY KeptCorrect, TypeCorrect, KeptInOnePlace, PTL

-----------------------------------------------------------------------------
(* The pool implements TaskBag *)

\* Workers are told to stop by terminate only, and all of them.
Told ==
    /\ tpc = "live" => \A w \in Workers : go[w]
    /\ tpc = "stop" => \A w \in 1 .. tat - 1 : ~go[w]
    /\ tpc \notin {"live", "stop"} => \A w \in Workers : ~go[w]

LEMMA ToldNext == ASSUME TypeOK, Told, [Next]_vars PROVE Told'
  <1> USE DEF Told, TypeOK, WorkersOK, Workers
  <1>1. ASSUME NEW w \in Workers, WorkerNext(w) PROVE Told'
    BY <1>1 DEF WorkerNext, WorkerRuns, WorkerStep, Enter, TakeTask, Sleep, Finish, Leave, Awake,
           IdleNotification, ownerVars
  <1>2. ASSUME NEW c \in Callers, Execute(c) \/ CallerStep(c) PROVE Told'
    BY <1>2 DEF Execute, CallerStep, Lock, Skip, Choose, Hand, SetTask, Retry, Await, Timeout,
           workerVars, ownerVars
  <1>3. CASE Terminate
    BY <1>3 DEF Terminate, workerVars
  <1>4. CASE StopNext
    <2>1. /\ tpc' = "stop" /\ tpc = "stop" /\ go' = [go EXCEPT ![tat] = FALSE] /\ tat \in Workers
          /\ tat' = tat + 1
      BY <1>4 DEF StopNext, StopWorker
    <2> QED BY <2>1
  <1>5. CASE Terminated
    <2>1. tpc = "stop" /\ tat = Size + 1 /\ tpc' = "pause" /\ go' = go
      BY <1>5 DEF Terminated, workerVars
    <2>2. \A w \in Workers : ~go[w]
      BY <2>1, ManagersAssumption
    <2> QED BY <2>1, <2>2
  <1>6. CASE DestroyNext
    <2>1. tpc' = "join" /\ tpc = "delete" /\ go' = [go EXCEPT ![tat] = FALSE] /\ tat \in Workers
      BY <1>6 DEF DestroyNext, Destroy
    <2> QED BY <2>1
  <1>7. CASE Poll \/ PollNext \/ StillBusy \/ AllIdle \/ Delete \/ Join \/ Gone
    BY <1>7 DEF Poll, PollNext, StillBusy, AllIdle, Delete, Join, Gone, vars, workerVars, ownerVars
  <1>8. CASE UNCHANGED vars
    BY <1>8 DEF vars, workerVars, ownerVars
  <1> QED BY <1>1, <1>2, <1>3, <1>4, <1>5, <1>6, <1>7, <1>8 DEF Next, OwnerStep

\* What a step does to the bag if it leaves the places of the tasks alone.
LEMMA BagUnmoved ==
    ASSUME UNCHANGED taskPlaces, Running' = Running, Phase' = Phase
    PROVE  UNCHANGED Bag!vars
  BY DEF taskPlaces, Bag!vars, StateOf

\* A step that changes the state of one task.
LEMMA BagMoved ==
    ASSUME NEW t \in Tasks, NEW from, NEW to, StateOf(t) = from, StateOf(t)' = to,
           \A u \in Tasks \ {t} : StateOf(u)' = StateOf(u)
    PROVE  Bag!Move(t, from, to)
  BY DEF Bag!Move

\* At most Size - 1 tasks are run when a worker takes one.
LEMMA RoomToRun ==
    ASSUME TypeOK, NEW w \in Workers, wpc[w] # "run"
    PROVE  Cardinality(Running) < Size
  <1> DEFINE R == {v \in Workers : wpc[v] = "run"}
             f == [v \in R |-> task[v]]
  <1>1. IsFiniteSet(Workers) /\ Cardinality(Workers) = Size
    BY FS_Interval, ManagersAssumption DEF Workers
  <1>2. IsFiniteSet(Workers \ {w}) /\ Cardinality(Workers \ {w}) = Size - 1
    BY <1>1, FS_RemoveElement
  <1>3. IsFiniteSet(R) /\ Cardinality(R) <= Size - 1
    BY <1>2, FS_Subset
  <1>4. f \in Surjection(R, Running)
    BY DEF Surjection, Running, TypeOK, WorkersOK
  <1>5. IsFiniteSet(Running) /\ Cardinality(Running) <= Cardinality(R)
    BY <1>3, <1>4, FS_Surjection
  <1>6. Cardinality(R) \in Nat /\ Cardinality(Running) \in Nat
    BY <1>3, <1>5, FS_CardinalityType
  <1> QED BY <1>3, <1>5, <1>6, ManagersAssumption

\* The state of a task says where it is.
LEMMA StateIs ==
    ASSUME TypeOK, Kept, NEW t \in Tasks
    PROVE  /\ t > calls => StateOf(t) = "new" /\ t \notin Running \union done \union dropped
           /\ t \in Running => StateOf(t) = "running" /\ t \notin done \union dropped
           /\ t \in done => StateOf(t) = "done"
           /\ t \in dropped => StateOf(t) = "dropped" /\ t \notin done
           /\ (t <= calls /\ t \notin Running \union done \union dropped) => StateOf(t) = "pending"
  <1>1. calls \in Nat /\ t \in Nat
    BY ManagersAssumption DEF TypeOK, Tasks
  <1>2. t \in Running \union done \union dropped => t <= calls
    BY DEF Kept, Known, Running
  <1>3. t \in Running => t \notin done \union dropped
    BY DEF Kept, Apart, Running
  <1>4. t \notin done \intersect dropped
    BY DEF Kept, Apart
  <1> QED BY <1>1, <1>2, <1>3, <1>4 DEF StateOf

\* The tasks the bag takes to be run are those that are.
LEMMA BagRunning == ASSUME TypeOK, Kept PROVE Bag!Running = Running
  <1>1. Running \subseteq Tasks
    BY DEF TypeOK, WorkersOK, Running
  <1>2. ASSUME NEW t \in Tasks PROVE StateOf(t) = "running" <=> t \in Running
    BY StateIs DEF TypeOK, Tasks
  <1> QED BY <1>1, <1>2 DEF Bag!Running

\* TakeTask starts a task.
LEMMA TakeStarts ==
    ASSUME TypeOK, Kept, TypeOK', Kept', Told,
           NEW w \in Workers, TakeTask(w), UNCHANGED <<callerVars, ownerVars>>
    PROVE  \E t \in Tasks : Bag!Start(t)
  <1>1. PICK t \in Tasks : t = task[w]
    BY DEF TypeOK, WorkersOK, TakeTask, IsIdle
  <1>2. /\ t <= calls /\ t \notin done \union dropped /\ t # NoTask
        /\ task' = task /\ done' = done /\ dropped' = dropped /\ calls' = calls /\ tpc' = tpc
    BY <1>1 DEF Kept, Known, Apart, TakeTask, IsIdle, callerVars, ownerVars
  <1>3. wpc[w] # "run" /\ wpc' = [wpc EXCEPT ![w] = "run"] /\ wpc \in [Workers -> WorkerPlaces]
    BY DEF TypeOK, WorkersOK, TakeTask
  <1>4. t \notin Running
    BY <1>1, <1>2, <1>3 DEF Kept, Apart, Running, IsIdle
  <1>5. Running' = Running \union {t}
    BY <1>1, <1>2, <1>3 DEF Running
  <1>6. Bag!Move(t, "pending", "running")
    <2>1. StateOf(t) = "pending" /\ StateOf(t)' = "running"
      BY <1>2, <1>4, <1>5, StateIs, TypeOK', Kept' DEF StateOf
    <2>2. \A u \in Tasks \ {t} : StateOf(u)' = StateOf(u)
      BY <1>2, <1>5 DEF StateOf
    <2> QED BY <2>1, <2>2, BagMoved
  <1>7. Phase # "stopped" /\ Phase' = Phase
    BY <1>2 DEF TakeTask, Told, Phase
  <1>8. Bag!Cardinality(Bag!Running) < Size
    BY <1>3, BagRunning, RoomToRun DEF Cardinality, Bag!Cardinality
  <1> QED BY <1>6, <1>7, <1>8 DEF Bag!Start

\* Finish ends it.
LEMMA FinishFinishes ==
    ASSUME TypeOK, Kept, NEW w \in Workers, Finish(w), UNCHANGED <<callerVars, ownerVars>>
    PROVE  \E t \in Tasks : Bag!Finish(t)
  <1>1. PICK t \in Tasks : t = task[w]
    BY DEF TypeOK, WorkersOK, Finish
  <1>2. /\ t <= calls /\ t \notin done \union dropped /\ t # NoTask
        /\ task' = [task EXCEPT ![w] = NoTask] /\ done' = done \union {t} /\ dropped' = dropped
        /\ calls' = calls /\ tpc' = tpc /\ wpc[w] = "run" /\ wpc' = [wpc EXCEPT ![w] = "notify"]
        /\ task \in [Workers -> Tasks \union {NoTask}] /\ wpc \in [Workers -> WorkerPlaces]
    BY <1>1 DEF TypeOK, WorkersOK, Kept, Known, Apart, Finish, callerVars, ownerVars
  <1>3. t \in Running /\ Running' = Running \ {t}
    BY <1>1, <1>2 DEF Kept, Apart, Running, IsIdle
  <1>4. StateOf(t) = "running"
    BY <1>3, StateIs
  <1>5. StateOf(t)' = "done"
    BY <1>2, <1>3 DEF StateOf, TypeOK, Tasks
  <1>6. \A u \in Tasks \ {t} : StateOf(u)' = StateOf(u)
    BY <1>2, <1>3 DEF StateOf
  <1>7. Bag!Move(t, "running", "done") /\ Phase' = Phase
    BY <1>2, <1>4, <1>5, <1>6, BagMoved DEF Phase
  <1> QED BY <1>7 DEF Bag!Finish

\* A worker that was stopped drops its task, if it has one.
LEMMA LeaveDrops ==
    ASSUME TypeOK, Kept, Told, NEW w \in Workers, Leave(w), UNCHANGED <<callerVars, ownerVars>>
    PROVE  (\E t \in Tasks : Bag!Drop(t)) \/ UNCHANGED Bag!vars
  <1>1. /\ done' = done /\ dropped' = dropped \union ({task[w]} \ {NoTask}) /\ arg' = arg
        /\ calls' = calls /\ tpc' = tpc /\ wpc[w] = "loop" /\ wpc' = [wpc EXCEPT ![w] = "ended"]
        /\ task' = [task EXCEPT ![w] = NoTask] /\ task \in [Workers -> Tasks \union {NoTask}]
        /\ wpc \in [Workers -> WorkerPlaces]
    BY DEF TypeOK, WorkersOK, Leave, callerVars, ownerVars
  <1>2. Running' = Running
    BY <1>1 DEF Running
  <1>3. Phase' = Phase
    BY <1>1 DEF Phase
  <1>4. CASE IsIdle(w)
    <2>1. dropped' = dropped /\ task' = task
      BY <1>1, <1>4 DEF IsIdle
    <2> QED BY <1>1, <1>2, <1>3, <2>1, BagUnmoved DEF taskPlaces
  <1>5. CASE ~IsIdle(w)
    <2>1. PICK t \in Tasks : t = task[w] /\ t # NoTask
      BY <1>1, <1>5 DEF IsIdle
    <2>2. t <= calls /\ t \notin done \union dropped /\ dropped' = dropped \union {t}
      BY <1>1, <2>1 DEF Kept, Known, Apart
    <2>3. t \notin Running
      BY <1>1, <2>1 DEF Kept, Apart, Running, IsIdle
    <2>4. StateOf(t) = "pending"
      BY <2>2, <2>3, StateIs
    <2>5. StateOf(t)' = "dropped"
      BY <1>1, <1>2, <2>2, <2>3 DEF StateOf, TypeOK, Tasks
    <2>6. \A u \in Tasks \ {t} : StateOf(u)' = StateOf(u)
      BY <1>1, <1>2, <2>2 DEF StateOf
    <2>7. Bag!Move(t, "pending", "dropped")
      BY <2>4, <2>5, <2>6, BagMoved
    <2>8. Phase # "live"
      BY DEF Leave, Told, Phase
    <2> QED BY <1>3, <2>7, <2>8 DEF Bag!Drop
  <1> QED BY <1>4, <1>5

\* execute adds a task.
LEMMA ExecuteSubmits ==
    ASSUME TypeOK, Kept, NEW c \in Callers, Execute(c)
    PROVE  \E t \in Tasks : Bag!Submit(t)
  <1>1. PICK t \in Tasks : t = calls + 1
    BY ManagersAssumption DEF Execute, TypeOK, Tasks
  <1>2. calls \in Nat /\ calls' = calls + 1 /\ UNCHANGED <<task, wpc, done, dropped, tpc>> /\ tpc = "live"
    BY DEF Execute, workerVars, ownerVars, TypeOK
  <1>3. Running' = Running /\ Phase = "live" /\ Phase' = Phase
    BY <1>2 DEF Running, Phase
  <1>4. StateOf(t) = "new" /\ t \notin Running \union done \union dropped
    BY <1>1, <1>2, StateIs
  <1>5. StateOf(t)' = "pending"
    BY <1>1, <1>2, <1>3, <1>4 DEF StateOf
  <1>6. \A u \in Tasks \ {t} : StateOf(u)' = StateOf(u)
    BY <1>1, <1>2, <1>3 DEF StateOf, Tasks
  <1>7. Bag!Move(t, "new", "pending")
    BY <1>4, <1>5, <1>6, BagMoved
  <1> QED BY <1>3, <1>7 DEF Bag!Submit

\* The other steps of callers and workers move no task that the bag sees.
LEMMA HandUnseen ==
    ASSUME TypeOK, Kept, NEW c \in Callers, Hand(c)
    PROVE  UNCHANGED Bag!vars
  <1>1. /\ at[c] \in Workers /\ wpc[at[c]] # "run" /\ wpc \in [Workers -> WorkerPlaces]
        /\ task \in [Workers -> Tasks \union {NoTask}] /\ task' = [task EXCEPT ![at[c]] = arg[c]]
        /\ wpc' = Notified(at[c])
        /\ calls' = calls /\ done' = done /\ dropped' = dropped /\ tpc' = tpc
    BY DEF TypeOK, WorkersOK, Hand, SetTask, Locked, ownerVars
  <1>2. Running' = Running
    BY <1>1 DEF Running, Notified
  <1> QED BY <1>1, <1>2 DEF Bag!vars, StateOf, Phase

\* Every step of the pool is one of the bag or is not seen there.
LEMMA StepRefines ==
    ASSUME TypeOK, TypeOK', Kept, Kept', Told, [Next]_vars
    PROVE  [Bag!Next]_(Bag!vars)
  <1>1. ASSUME NEW w \in Workers, WorkerNext(w) PROVE Bag!Next \/ UNCHANGED Bag!vars
    <2>1. CASE Enter(w) \/ Sleep(w) \/ Awake(w) \/ IdleNotification(w)
      <3>1. Running' = Running
        BY <1>1, <2>1 DEF Enter, Sleep, Awake, IdleNotification, Running, TypeOK, WorkersOK
      <3>2. UNCHANGED taskPlaces /\ tpc' = tpc
        BY <1>1, <2>1
           DEF Enter, Sleep, Awake, IdleNotification, WorkerNext, WorkerRuns, WorkerStep, TakeTask,
               Finish, Leave, taskPlaces, callerVars, ownerVars
      <3> QED BY <3>1, <3>2, BagUnmoved DEF Phase
    <2>2. CASE WorkerStep(w) /\ UNCHANGED <<callerVars, ownerVars>>
      BY <2>1, <2>2, TakeStarts, FinishFinishes, LeaveDrops DEF WorkerStep, Bag!Next
    <2> QED BY <1>1, <2>1, <2>2 DEF WorkerNext, WorkerRuns
  <1>2. ASSUME NEW c \in Callers, Execute(c) PROVE Bag!Next
    BY <1>2, ExecuteSubmits DEF Bag!Next
  <1>3. ASSUME NEW c \in Callers, CallerStep(c) PROVE UNCHANGED Bag!vars
    <2>1. CASE Hand(c)
      BY <2>1, HandUnseen
    <2>2. CASE ~Hand(c)
      <3>1. UNCHANGED <<workerVars, calls, tpc>>
        BY <1>3, <2>2 DEF CallerStep, Lock, Skip, Choose, Retry, Await, Timeout, ownerVars
      <3> QED BY <3>1 DEF workerVars, Bag!vars, StateOf, Running, Phase
    <2> QED BY <2>1, <2>2
  <1>4. CASE Terminate \/ Terminated
    <2>1. UNCHANGED <<workerVars, calls>>
      BY <1>4 DEF Terminate, Terminated, callerVars
    <2>2. UNCHANGED [t \in Tasks |-> StateOf(t)]
      BY <2>1 DEF workerVars, StateOf, Running
    <2>3. (Phase = "live" /\ Phase' = "stopping") \/ (Phase = "stopping" /\ Phase' = "stopped")
      BY <1>4 DEF Terminate, Terminated, Phase
    <2> QED BY <2>2, <2>3 DEF Bag!Stop, Bag!Next
  <1>5. CASE StopNext \/ DestroyNext
    <2>1. UNCHANGED taskPlaces /\ Phase' = Phase
      BY <1>5 DEF StopNext, StopWorker, DestroyNext, Destroy, taskPlaces, callerVars, Phase
    <2>2. Running' = Running
      BY <1>5 DEF StopNext, StopWorker, DestroyNext, Destroy, Notified, Running, TypeOK, WorkersOK
    <2> QED BY <2>1, <2>2, BagUnmoved
  <1>6. CASE Poll \/ PollNext \/ StillBusy \/ AllIdle \/ Delete \/ Join \/ Gone \/ UNCHANGED vars
    <2>1. UNCHANGED taskPlaces /\ wpc' = wpc /\ Phase' = Phase
      BY <1>6 DEF Poll, PollNext, StillBusy, AllIdle, Delete, Join, Gone, vars, taskPlaces,
             workerVars, callerVars, ownerVars, Phase
    <2>2. Running' = Running
      BY <2>1 DEF taskPlaces, Running
    <2> QED BY <2>1, <2>2, BagUnmoved
  <1> QED BY <1>1, <1>2, <1>3, <1>4, <1>5, <1>6 DEF Next, OwnerStep

LEMMA InitRefines == ASSUME Init PROVE Bag!Init
  BY DEF Init, WorkersInit, Bag!Init, StateOf, Running, Phase, Tasks

LEMMA InitTold == ASSUME Init PROVE Told
  BY DEF Init, WorkersInit, Told

\* The pool implements TaskBag: each task is run at most once, at most Size at
\* a time, none is deleted before terminate and none is started after it.
THEOREM PoolImplementsBag == Spec => ImplementsBag
  <1>1. Spec => []Told
    BY InitTold, ToldNext, TypeCorrect, PTL DEF Spec
  <1> QED BY <1>1, InitRefines, StepRefines, TypeCorrect, KeptCorrect, PTL DEF Spec, ImplementsBag, Bag!Spec
=============================================================================
