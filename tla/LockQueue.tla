------------------------------ MODULE LockQueue ------------------------------
(***************************************************************************)
(* The LockQueue of agent++/src/threads.cpp and the requests that lock     *)
(* managed objects.  A SET leaves its LockRequest with the queue and waits *)
(* until the queue's thread, which owns every mutex locked for a SET,      *)
(* notifies it.  A GET takes the mutex of its entry itself and tells the   *)
(* queue nothing when it gives it back.                                    *)
(*                                                                         *)
(* What a caller of acquire or release does with the queue locked is one   *)
(* step; the queue's thread keeps the queue locked from one wait(5000) to  *)
(* the next.                                                               *)
(***************************************************************************)
EXTENDS Naturals, Sequences

CONSTANTS
    Setters,   \* SET requests, each with its thread
    Getters,   \* GET requests, each with its thread
    Targets,   \* the managed objects
    Queue,     \* the thread of the LockQueue
    NoOne      \* owner of a free mutex

Requests == Setters \union Getters

ASSUME LockQueueAssumption ==
    /\ Setters \intersect Getters = {}
    /\ Queue \notin Requests
    /\ NoOne \notin Requests \union Targets \union {Queue}

VARIABLES
    pc,              \* where each request's thread is
    tgt,             \* SET: LockRequest::target; GET: its entry
    want,            \* SET: the objects its PDU names
    locks,           \* SET: Request::locks
    call,            \* SET: how far it is in acquire or release and wait
    mib,             \* owner of the MIB lock
    mutex,           \* owner of each object's mutex
    pendingLock, pendingRelease,   \* the requests whose LockRequest is in the list
    qpc,             \* where the queue's thread is
    left,            \* how many of pendingLock it has still to look at
    current,         \* the request it is about to notify
    go, dpc          \* LockQueue::go, and where its destructor is

requestVars == <<pc, tgt, want, locks, call, mib>>
queueVars == <<pendingLock, pendingRelease, qpc, left, current>>
ownerVars == <<go, dpc>>
vars == <<requestVars, mutex, queueVars, ownerVars>>

SetPlaces == {"start", "prepare", "lock", "commit", "unlock", "destroy", "done"}
GetPlaces == {"start", "find", "read", "destroy", "done"}
Calls == {"none", "added", "waits", "woken"}
QueuePlaces == {"awake", "drain", "released", "scan", "granted", "wait", "ended"}

TypeOK ==
    /\ pc \in [Requests -> SetPlaces \union GetPlaces]
    /\ tgt \in [Requests -> Targets \union {NoOne}]
    /\ \A g \in Getters : tgt[g] # NoOne
    /\ \A r \in Setters : tgt[r] = NoOne <=> call[r] = "none"
    /\ want \in [Setters -> SUBSET Targets]
    /\ locks \in [Setters -> SUBSET Targets]
    /\ call \in [Setters -> Calls]
    /\ mib \in Requests \union {NoOne}
    /\ mutex \in [Targets -> Getters \union {Queue, NoOne}]
    /\ pendingLock \in Seq(Setters)
    /\ pendingRelease \in Seq(Setters)
    /\ qpc \in QueuePlaces
    /\ left \in 0 .. Len(pendingLock)
    /\ current \in Setters \union {NoOne}
    /\ qpc \in {"released", "granted"} <=> current # NoOne
    /\ go \in BOOLEAN
    /\ dpc \in {"live", "notify", "join", "gone"}

Init ==
    /\ pc = [r \in Requests |-> "start"]
    /\ tgt \in {f \in [Requests -> Targets \union {NoOne}] :
                  \A r \in Requests : f[r] = NoOne <=> r \in Setters}
    /\ want \in [Setters -> SUBSET Targets]
    /\ locks = [r \in Setters |-> {}]
    /\ call = [r \in Setters |-> "none"]
    /\ mib = NoOne
    /\ mutex = [t \in Targets |-> NoOne]
    /\ pendingLock = <<>> /\ pendingRelease = <<>>
    /\ qpc = "awake" /\ left = 0 /\ current = NoOne
    /\ go = TRUE /\ dpc = "live"

Goto(r, place) == pc' = [pc EXCEPT ![r] = place]

\* The queue's thread has the queue locked.
Busy == qpc \in {"drain", "released", "scan", "granted"}

\* What notify() makes of the queue's thread.
Notified == IF qpc = "wait" THEN "awake" ELSE qpc

-----------------------------------------------------------------------------
(* Requests *)

\* lock_mib of process_prepare_set_request and of process_request
LockMib(r) ==
    /\ pc[r] = "start" /\ mib = NoOne
    /\ mib' = r
    /\ Goto(r, IF r \in Setters THEN "prepare" ELSE "find")
    /\ UNCHANGED <<tgt, want, locks, call, mutex, queueVars, ownerVars>>

\* set_locked: LockQueue::acquire for an object that is not locked yet.
Acquire(r) ==
    /\ pc[r] = "prepare" /\ ~Busy
    /\ \E t \in want[r] \ locks[r] : tgt' = [tgt EXCEPT ![r] = t]
    /\ Goto(r, "lock")
    /\ call' = [call EXCEPT ![r] = "added"]
    /\ pendingLock' = Append(pendingLock, r)
    /\ qpc' = Notified
    /\ UNCHANGED <<want, locks, mib, mutex, pendingRelease, left, current, ownerVars>>

\* The thread of the request keeps its LockRequest locked until it waits.
Wait(r) ==
    /\ call[r] = "added"
    /\ call' = [call EXCEPT ![r] = "waits"]
    /\ UNCHANGED <<pc, tgt, want, locks, mib, mutex, queueVars, ownerVars>>

\* r.wait() returns and the LockRequest is destroyed.
Return(r) ==
    /\ call[r] = "woken"
    /\ call' = [call EXCEPT ![r] = "none"]
    /\ tgt' = [tgt EXCEPT ![r] = NoOne]
    /\ IF pc[r] = "lock"
       THEN Goto(r, "prepare") /\ locks' = [locks EXCEPT ![r] = @ \union {tgt[r]}]
       ELSE Goto(r, "commit") /\ UNCHANGED locks
    /\ UNCHANGED <<want, mib, mutex, queueVars, ownerVars>>

\* The prepare phase ends, before everything is locked if a binding is wrong.
Prepared(r) ==
    /\ r \in Setters /\ pc[r] = "prepare"
    /\ Goto(r, "commit")
    /\ mib' = NoOne
    /\ UNCHANGED <<tgt, want, locks, call, mutex, queueVars, ownerVars>>

\* set_unlocked of the undo or cleanup phase: LockQueue::release.
Release(r) ==
    /\ pc[r] = "commit" /\ ~Busy
    /\ \E t \in locks[r] :
         /\ tgt' = [tgt EXCEPT ![r] = t]
         /\ locks' = [locks EXCEPT ![r] = @ \ {t}]
    /\ Goto(r, "unlock")
    /\ call' = [call EXCEPT ![r] = "added"]
    /\ pendingRelease' = Append(pendingRelease, r)
    /\ qpc' = Notified
    /\ UNCHANGED <<want, mib, mutex, pendingLock, left, current, ownerVars>>

Answered(r) ==
    /\ r \in Setters /\ pc[r] = "commit" /\ locks[r] = {}
    /\ Goto(r, "destroy")
    /\ UNCHANGED <<tgt, want, locks, call, mib, mutex, queueVars, ownerVars>>

\* Mutant of StartSynch: the entry is used without its lock.
StartUnlocked(g) ==
    /\ pc[g] = "find"
    /\ mutex' = [mutex EXCEPT ![tgt[g]] = g]
    /\ mib' = NoOne
    /\ Goto(g, "read")
    /\ UNCHANGED <<tgt, want, locks, call, queueVars, ownerVars>>

\* start_synch, unlock_mib
StartSynch(g) ==
    /\ pc[g] = "find" /\ mutex[tgt[g]] = NoOne
    /\ mutex' = [mutex EXCEPT ![tgt[g]] = g]
    /\ mib' = NoOne
    /\ Goto(g, "read")
    /\ UNCHANGED <<tgt, want, locks, call, queueVars, ownerVars>>

EndSynch(g) ==
    /\ pc[g] = "read"
    /\ mutex' = [mutex EXCEPT ![tgt[g]] = NoOne]
    /\ Goto(g, "destroy")
    /\ UNCHANGED <<tgt, want, locks, call, mib, queueVars, ownerVars>>

\* ~Request notifies the queue, unless its thread is at work.
Destroy(r) ==
    /\ pc[r] = "destroy"
    /\ Goto(r, "done")
    /\ qpc' = Notified
    /\ UNCHANGED <<tgt, want, locks, call, mib, mutex, pendingLock, pendingRelease, left, current, ownerVars>>

-----------------------------------------------------------------------------
(* The queue's thread *)

Idle == pendingLock = <<>> /\ pendingRelease = <<>>

\* The thread gets the queue's lock and tests the condition of its loop.
Enter ==
    /\ qpc = "awake"
    /\ qpc' = IF Idle /\ ~go THEN "ended" ELSE "drain"
    /\ UNCHANGED <<requestVars, mutex, pendingLock, pendingRelease, left, current, ownerVars>>

\* A mutex that the thread does not own it cannot unlock.
Unlock ==
    /\ qpc = "drain" /\ pendingRelease # <<>>
    /\ current' = Head(pendingRelease)
    /\ pendingRelease' = Tail(pendingRelease)
    /\ mutex' = [t \in Targets |->
                   IF t = tgt[Head(pendingRelease)] /\ mutex[t] = Queue THEN NoOne ELSE mutex[t]]
    /\ qpc' = "released"
    /\ UNCHANGED <<requestVars, pendingLock, left, ownerVars>>

StartScan ==
    /\ qpc = "drain" /\ pendingRelease = <<>>
    /\ left' = Len(pendingLock)
    /\ qpc' = "scan"
    /\ UNCHANGED <<requestVars, mutex, pendingLock, pendingRelease, current, ownerVars>>

\* Mutant of TryLock: a mutex that the thread owns already will do.
TryLockOwned ==
    /\ qpc = "scan" /\ left > 0 /\ mutex[tgt[Head(pendingLock)]] \in {NoOne, Queue}
    /\ mutex' = [mutex EXCEPT ![tgt[Head(pendingLock)]] = Queue]
    /\ current' = Head(pendingLock)
    /\ pendingLock' = Tail(pendingLock)
    /\ left' = left - 1
    /\ qpc' = "granted"
    /\ UNCHANGED <<requestVars, pendingRelease, ownerVars>>

\* trylock() returns LOCKED: the mutex was free ...
TryLock ==
    /\ qpc = "scan" /\ left > 0 /\ mutex[tgt[Head(pendingLock)]] = NoOne
    /\ mutex' = [mutex EXCEPT ![tgt[Head(pendingLock)]] = Queue]
    /\ current' = Head(pendingLock)
    /\ pendingLock' = Tail(pendingLock)
    /\ left' = left - 1
    /\ qpc' = "granted"
    /\ UNCHANGED <<requestVars, pendingRelease, ownerVars>>

\* ... OWNED or BUSY: the request goes to the end of the list.
PutBack ==
    /\ qpc = "scan" /\ left > 0 /\ mutex[tgt[Head(pendingLock)]] # NoOne
    /\ pendingLock' = Append(Tail(pendingLock), Head(pendingLock))
    /\ left' = left - 1
    /\ UNCHANGED <<requestVars, mutex, pendingRelease, qpc, current, ownerVars>>

\* The thread locks the LockRequest, which it can once the request waits.
NotifyRequest ==
    /\ qpc \in {"released", "granted"} /\ call[current] = "waits"
    /\ call' = [call EXCEPT ![current] = "woken"]
    /\ current' = NoOne
    /\ qpc' = IF qpc = "released" THEN "drain" ELSE "scan"
    /\ UNCHANGED <<pc, tgt, want, locks, mib, mutex, pendingLock, pendingRelease, left, ownerVars>>

\* wait(5000)
Sleep ==
    /\ qpc = "scan" /\ left = 0
    /\ qpc' = "wait"
    /\ UNCHANGED <<requestVars, mutex, pendingLock, pendingRelease, left, current, ownerVars>>

\* Mutant of Timeout: a wait without a timeout.
NoTimeout == FALSE /\ UNCHANGED vars

Timeout ==
    /\ qpc = "wait"
    /\ qpc' = "awake"
    /\ UNCHANGED <<requestVars, mutex, pendingLock, pendingRelease, left, current, ownerVars>>

-----------------------------------------------------------------------------
(* ~LockQueue, when all requests are gone *)

\* Mutant of Delete: go stays TRUE.
DeleteGoing ==
    /\ dpc = "live" /\ \A r \in Requests : pc[r] = "done"
    /\ dpc' = "notify"
    /\ UNCHANGED <<requestVars, mutex, queueVars, go>>

Delete ==
    /\ dpc = "live" /\ \A r \in Requests : pc[r] = "done"
    /\ go' = FALSE
    /\ dpc' = "notify"
    /\ UNCHANGED <<requestVars, mutex, queueVars>>

NotifyQueue ==
    /\ dpc = "notify" /\ ~Busy
    /\ qpc' = Notified
    /\ dpc' = "join"
    /\ UNCHANGED <<requestVars, mutex, pendingLock, pendingRelease, left, current, go>>

Join ==
    /\ dpc = "join" /\ qpc = "ended"
    /\ dpc' = "gone"
    /\ UNCHANGED <<requestVars, mutex, queueVars, go>>

Gone == dpc = "gone" /\ UNCHANGED vars

-----------------------------------------------------------------------------

SetStep(r) == Acquire(r) \/ Wait(r) \/ Return(r) \/ Prepared(r) \/ Release(r) \/ Answered(r)

GetStep(g) == StartSynch(g) \/ EndSynch(g)

QueueStep == Enter \/ Unlock \/ StartScan \/ TryLock \/ PutBack \/ NotifyRequest \/ Sleep

DeleteStep == Delete \/ NotifyQueue \/ Join

Next ==
    \/ \E r \in Requests : LockMib(r) \/ Destroy(r)
    \/ \E r \in Setters : SetStep(r)
    \/ \E g \in Getters : GetStep(g)
    \/ QueueStep \/ Timeout
    \/ DeleteStep \/ Gone

Spec == Init /\ [][Next]_vars

\* Threads do not stop, a wait with a timeout ends, and whoever waits for a
\* mutex that is free again and again gets it.
FairSpec ==
    /\ Spec
    /\ \A r \in Setters : SF_vars(LockMib(r) \/ SetStep(r) \/ Destroy(r))
    /\ \A g \in Getters : SF_vars(LockMib(g) \/ GetStep(g) \/ Destroy(g))
    /\ WF_vars(QueueStep \/ Timeout)
    /\ SF_vars(DeleteStep)

\* A condition variable that wakes its waiter for no reason: r.wait() tests
\* no condition.
WakeForNoReason(r) ==
    /\ call[r] = "waits"
    /\ call' = [call EXCEPT ![r] = "woken"]
    /\ UNCHANGED <<pc, tgt, want, locks, mib, mutex, queueVars, ownerVars>>

SpuriousSpec == Init /\ [][Next \/ \E r \in Setters : WakeForNoReason(r)]_vars

-----------------------------------------------------------------------------
(* Properties *)

Among(r, list) == \E i \in DOMAIN list : list[i] = r

\* Request r may use object t: set_locked has returned, or is about to, and
\* set_unlocked has not given it back.
Holds(r, t) ==
    IF r \in Getters THEN mutex[t] = r
    ELSE \/ t \in locks[r]
         \/ /\ tgt[r] = t /\ pc[r] = "lock"
            /\ call[r] = "woken" \/ (qpc = "granted" /\ current = r)
         \/ /\ tgt[r] = t /\ pc[r] = "unlock"
            /\ Among(r, pendingRelease)

\* No two requests hold an object, though the queue's thread is the owner of
\* every mutex locked for a SET, and a request that holds one holds its mutex.
Exclusive ==
    /\ \A r, s \in Requests, t \in Targets : Holds(r, t) /\ Holds(s, t) => r = s
    /\ \A t \in Targets : mutex[t] = Queue <=> \E r \in Setters : Holds(r, t)

OwnerOf(t) ==
    IF \E r \in Requests : Holds(r, t) THEN CHOOSE r \in Requests : Holds(r, t) ELSE NoOne

Table == INSTANCE LockTable WITH
    Clients <- Requests, NoOwner <- NoOne, owner <- [t \in Targets |-> OwnerOf(t)]

\* The queue behaves like a table of locks: an object goes from one request
\* to another only through being free.
ImplementsTable == Table!Spec

\* A SET is not left waiting, neither for a lock nor for the acknowledgement
\* of a release: not if a GET gives the lock back without a word, nor if a
\* request is destroyed while the queue's thread is at work.
CallsReturn == \A r \in Setters : call[r] # "none" ~> call[r] = "none"

\* ~LockQueue returns.
QueueGoes == dpc # "live" ~> dpc = "gone"
=============================================================================
