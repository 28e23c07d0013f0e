------------------------- MODULE MibSetTransaction -------------------------
(***************************************************************************)
(* How an agent++ agent processes SET and GET requests concurrently:       *)
(* Mib::process_set_request and its four phases, Request::set_locked and   *)
(* set_unlocked, the LockQueue as the owner of every lock a SET holds, and *)
(* the GET branch of Mib::process_request.                                 *)
(*                                                                         *)
(* Each request runs in a thread of the pool.  A SET takes the MIB lock    *)
(* for its whole prepare phase and locks one entry per binding as it goes; *)
(* it commits, undoes and cleans up with the entry locks alone.  A GET     *)
(* takes the MIB lock, then the entry, then gives the MIB lock back.       *)
(***************************************************************************)
EXTENDS MibObjects

CONSTANTS
    Setters,     \* SET requests
    Getters,     \* GET requests
    SetPdus,     \* the PDUs a SET may carry
    GetPdus,     \* the PDUs a GET may carry
    Listeners,   \* the listeners of each table
    NoRequest,   \* owner of a free lock
    NoEntry      \* null MibEntry pointer

Requests == Setters \union Getters

ASSUME TransactionAssumption ==
    /\ Setters \intersect Getters = {}
    /\ NoRequest \notin Requests
    /\ NoEntry \notin Entries
    /\ SetPdus \subseteq Pdus
    /\ GetPdus \subseteq Pdus
    /\ Listeners \in [Entries -> SUBSET Tables]

VARIABLES
    pdu,         \* the bindings of each request
    pc,          \* where each request's thread is
    idx,         \* the binding it works on
    mib,         \* owner of the MIB lock
    owner,       \* owner of each entry's lock
    want,        \* SET: entries still to be locked for the current binding
    locks,       \* SET: Request::locks, the entry locked for each binding
    ready,       \* SET: Request::ready
    done,        \* SET: Request::done
    status,      \* SET: the outcome so far
    value,       \* the value of each instance
    undo,        \* MibLeaf::undo of each instance
    deleteRows,  \* MibTable::delete_rows of all tables
    got          \* GET: the values it has read

request == <<pdu, pc, idx>>
setRequest == <<want, locks, ready, done, status>>
objects == <<value, undo, deleteRows>>
vars == <<request, mib, owner, setRequest, objects, got>>

Phases == {"start", "prepare", "lock", "commit", "undo", "cleanup", "answer", "delete", "done"}
ReadPhases == {"start", "wait", "read", "done"}
Outcomes == {"noError", "prepareError", "commitFailed"}

TypeOK ==
    /\ pdu \in [Requests -> Pdus]
    /\ pc \in [Requests -> Phases \union ReadPhases]
    /\ idx \in [Requests -> 1..(MaxVbs + 1)]
    /\ mib \in Requests \union {NoRequest}
    /\ owner \in [Entries -> Requests \union {NoRequest}]
    /\ want \in [Setters -> SUBSET Entries]
    /\ locks \in [Setters -> [1..MaxVbs -> Entries \union {NoEntry}]]
    /\ ready \in [Setters -> SUBSET (1..MaxVbs)]
    /\ done \in [Setters -> SUBSET (1..MaxVbs)]
    /\ status \in [Setters -> Outcomes]
    /\ value \in [Instances -> Stored]
    /\ undo \in [Instances -> Backup]
    /\ deleteRows \subseteq (Tables \X Rows)
    /\ got \in [Getters -> Seq(Stored)]

\* A table starts empty or with inactive or active rows; scalars have a value.
InitialValues ==
    {v \in [Instances -> {Default, "active", "notInService", Absent}] :
       \A x \in Instances :
         IF ~IsTable(EntryOf(x)) THEN v[x] = Default
         ELSE IF IsStatus(x) THEN v[x] # Default
         ELSE v[x] = IF v[StatusOf(x)] = Absent THEN Absent ELSE Default}

Init ==
    /\ pdu \in {f \in [Requests -> SetPdus \union GetPdus] :
                  /\ \A r \in Setters : f[r] \in SetPdus
                  /\ \A g \in Getters : f[g] \in GetPdus}
    /\ pc = [r \in Requests |-> "start"]
    /\ idx = [r \in Requests |-> 1]
    /\ mib = NoRequest
    /\ owner = [e \in Entries |-> NoRequest]
    /\ want = [r \in Setters |-> {}]
    /\ locks = [r \in Setters |-> [i \in 1..MaxVbs |-> NoEntry]]
    /\ ready = [r \in Setters |-> {}]
    /\ done = [r \in Setters |-> {}]
    /\ status = [r \in Setters |-> "noError"]
    /\ value \in InitialValues
    /\ undo = [x \in Instances |-> NoUndo]
    /\ deleteRows = {}
    /\ got = [g \in Getters |-> <<>>]

-----------------------------------------------------------------------------
(* Helpers.                                                                *)

Goto(r, phase) == pc' = [pc EXCEPT ![r] = phase] /\ idx' = [idx EXCEPT ![r] = 1]
NextVb(r) == idx' = [idx EXCEPT ![r] = @ + 1]
Current(r) == pdu[r][idx[r]].inst
InPdu(r) == idx[r] <= Len(pdu[r])

\* Request::lock_index finds e among the locked entries l or as a listener of one.
LockIndexed(l, e) ==
    \E i \in DOMAIN l : l[i] # NoEntry /\ (l[i] = e \/ e \in Listeners[l[i]])

\* Mutant of ToLock: the listeners of a table are left alone.
ToLockEntryOnly(l, e) == IF LockIndexed(l, e) THEN {} ELSE {e}

\* Request::set_locked: what must be locked before entry e is recorded.
ToLock(l, e) ==
    IF LockIndexed(l, e) THEN {}
    ELSE {e} \union {t \in Listeners[e] : ~LockIndexed(l, t)}

\* Mutant of ToRelease: other bindings of the same entry are not looked for.
ToReleaseAtOnce(l, i) ==
    LET e == l[i]
        rest == [l EXCEPT ![i] = NoEntry]
    IN IF e = NoEntry THEN {}
       ELSE {e} \union {t \in Listeners[e] : ~LockIndexed(rest, t)}

\* Request::set_unlocked(i): what is released once l[i] has been cleared.
ToRelease(l, i) ==
    LET e == l[i]
        rest == [l EXCEPT ![i] = NoEntry]
    IN IF e = NoEntry \/ (\E j \in DOMAIN rest : rest[j] = e) THEN {}
       ELSE {e} \union {t \in Listeners[e] : ~LockIndexed(rest, t)}

\* The LockQueue thread owns the mutex of every entry a SET holds, whichever
\* SET that is, so it can release any of them, and none that a GET holds.
Unlock(r, i) ==
    /\ locks' = [locks EXCEPT ![r][i] = NoEntry]
    /\ owner' = [e \in Entries |->
                   IF e \in ToRelease(locks[r], i) /\ owner[e] \in Setters
                     THEN NoRequest ELSE owner[e]]

-----------------------------------------------------------------------------
(* Mib::process_prepare_set_request.                                       *)

StartSet(r) ==
    /\ pc[r] = "start"
    /\ mib = NoRequest
    /\ mib' = r
    /\ Goto(r, "prepare")
    /\ UNCHANGED <<pdu, owner, setRequest, objects, got>>

SkipReady(r) ==
    /\ pc[r] = "prepare" /\ InPdu(r)
    /\ idx[r] \in ready[r]
    /\ NextVb(r)
    /\ UNCHANGED <<pdu, pc, mib, owner, setRequest, objects, got>>

\* Mutant of Deny: the early return keeps the MIB lock.
DenyKeepingMib(r) ==
    /\ pc[r] = "prepare" /\ InPdu(r)
    /\ idx[r] \notin ready[r]
    /\ status' = [status EXCEPT ![r] = "prepareError"]
    /\ Goto(r, "cleanup")
    /\ UNCHANGED <<pdu, mib, owner, want, locks, ready, done, objects, got>>

\* No managing object is found or VACM denies access.
Deny(r) ==
    /\ pc[r] = "prepare" /\ InPdu(r)
    /\ idx[r] \notin ready[r]
    /\ status' = [status EXCEPT ![r] = "prepareError"]
    /\ mib' = NoRequest
    /\ Goto(r, "cleanup")
    /\ UNCHANGED <<pdu, owner, want, locks, ready, done, objects, got>>

FindEntry(r) ==
    /\ pc[r] = "prepare" /\ InPdu(r)
    /\ idx[r] \notin ready[r]
    /\ want' = [want EXCEPT ![r] = ToLock(locks[r], EntryOf(Current(r)))]
    /\ pc' = [pc EXCEPT ![r] = "lock"]
    /\ UNCHANGED <<pdu, idx, mib, owner, locks, ready, done, status, objects, got>>

\* LockQueue::acquire, for the entry first and then for its listeners; granted
\* when trylock finds the lock free.
Lock(r) ==
    /\ pc[r] = "lock"
    /\ \E e \in want[r] :
         /\ EntryOf(Current(r)) \in want[r] => e = EntryOf(Current(r))
         /\ owner[e] = NoRequest
         /\ owner' = [owner EXCEPT ![e] = r]
         /\ want' = [want EXCEPT ![r] = @ \ {e}]
    /\ UNCHANGED <<request, mib, locks, ready, done, status, objects, got>>

Locked(r) ==
    /\ pc[r] = "lock" /\ want[r] = {}
    /\ locks' = [locks EXCEPT ![r][idx[r]] = EntryOf(Current(r))]

Accept(r) ==
    /\ Locked(r)
    /\ MayPrepare(pdu[r], idx[r], value, deleteRows)
    /\ ready' = [ready EXCEPT ![r] = (@ \union Covered(pdu[r], idx[r], value)) \ {idx[r]}]
    /\ done' = [done EXCEPT ![r] = @ \union Ignored(pdu[r], idx[r], value)]
    /\ deleteRows' = deleteRows \union
                       {k \in {RowOf(Current(r))} : Marks(pdu[r], idx[r], value)}
    /\ pc' = [pc EXCEPT ![r] = "prepare"]
    /\ NextVb(r)
    /\ UNCHANGED <<pdu, mib, owner, want, status, value, undo, got>>

\* A test fails; a voter may do so after the row was marked for deletion.
Reject(r) ==
    /\ Locked(r)
    /\ deleteRows' \in {deleteRows, deleteRows \union
         {k \in {RowOf(Current(r))} : /\ Marks(pdu[r], idx[r], value)
                                      /\ MayPrepare(pdu[r], idx[r], value, deleteRows)}}
    /\ status' = [status EXCEPT ![r] = "prepareError"]
    /\ mib' = NoRequest
    /\ Goto(r, "cleanup")
    /\ UNCHANGED <<pdu, owner, want, ready, done, value, undo, got>>

Prepared(r) ==
    /\ pc[r] = "prepare" /\ ~InPdu(r)
    /\ mib' = NoRequest
    /\ Goto(r, "commit")
    /\ UNCHANGED <<pdu, owner, setRequest, objects, got>>

-----------------------------------------------------------------------------
(* Mib::process_commit_set_request.                                        *)

SkipDone(r) ==
    /\ pc[r] = "commit" /\ InPdu(r)
    /\ idx[r] \in done[r]
    /\ NextVb(r)
    /\ UNCHANGED <<pdu, pc, mib, owner, setRequest, objects, got>>

\* entry->commit_set_request; a binding without a locked entry fails as well.
CommitOutcomes(r) ==
    IF locks[r][idx[r]] = NoEntry THEN {Outcome(FALSE, value, undo, {})}
    ELSE Commits(pdu[r], idx[r], value, undo)

Commit(r) ==
    /\ pc[r] = "commit" /\ InPdu(r)
    /\ idx[r] \notin done[r]
    /\ \E o \in CommitOutcomes(r) :
         /\ value' = o.value
         /\ undo' = o.undo
         /\ done' = [done EXCEPT ![r] = @ \union o.finished]
         /\ IF o.ok
              THEN NextVb(r) /\ UNCHANGED <<pc, status>>
              ELSE Goto(r, "undo") /\ status' = [status EXCEPT ![r] = "commitFailed"]
    /\ deleteRows' = {k \in deleteRows : RowExists(<<k[1], k[2], "status">>, value')}
    /\ UNCHANGED <<pdu, mib, owner, want, locks, ready, got>>

\* Mutant of Committed: the cleanup phase is left out.
CommittedNoCleanup(r) ==
    /\ pc[r] = "commit" /\ ~InPdu(r)
    /\ Goto(r, "answer")
    /\ UNCHANGED <<pdu, mib, owner, setRequest, objects, got>>

Committed(r) ==
    /\ pc[r] = "commit" /\ ~InPdu(r)
    /\ Goto(r, "cleanup")
    /\ UNCHANGED <<pdu, mib, owner, setRequest, objects, got>>

-----------------------------------------------------------------------------
(* Mib::process_undo_set_request and process_cleanup_set_request.          *)

Undo(r) ==
    /\ pc[r] = "undo" /\ InPdu(r)
    /\ IF locks[r][idx[r]] = NoEntry
         THEN UNCHANGED <<owner, locks, objects>>
         ELSE LET S == Reached(pdu[r], idx[r], value) IN
              /\ value' = Unset(S, value, undo)
              /\ undo' = Forget(S, undo)
              /\ deleteRows' = Cleared(deleteRows, Current(r))
              /\ Unlock(r, idx[r])
    /\ NextVb(r)
    /\ UNCHANGED <<pdu, pc, mib, want, ready, done, status, got>>

Undone(r) ==
    /\ pc[r] = "undo" /\ ~InPdu(r)
    /\ Goto(r, "answer")
    /\ UNCHANGED <<pdu, mib, owner, setRequest, objects, got>>

Cleanup(r) ==
    /\ pc[r] = "cleanup" /\ InPdu(r)
    /\ locks[r][idx[r]] # NoEntry
    /\ undo' = Forget(Reached(pdu[r], idx[r], value), undo)
    /\ deleteRows' = Cleared(deleteRows, Current(r))
    /\ Unlock(r, idx[r])
    /\ NextVb(r)
    /\ UNCHANGED <<pdu, pc, mib, want, ready, done, status, value, got>>

\* The loop returns at the first binding without a locked entry.
CleanedUp(r) ==
    /\ pc[r] = "cleanup"
    /\ InPdu(r) => locks[r][idx[r]] = NoEntry
    /\ Goto(r, "answer")
    /\ UNCHANGED <<pdu, mib, owner, setRequest, objects, got>>

-----------------------------------------------------------------------------
(* Mib::finalize: RequestList::answer, then ~Request releases the locks    *)
(* that are left.                                                          *)

Answer(r) ==
    /\ pc[r] = "answer"
    /\ Goto(r, "delete")
    /\ UNCHANGED <<pdu, mib, owner, setRequest, objects, got>>

Release(r) ==
    /\ pc[r] = "delete" /\ InPdu(r)
    /\ Unlock(r, idx[r])
    /\ NextVb(r)
    /\ UNCHANGED <<pdu, pc, mib, want, ready, done, status, objects, got>>

Delete(r) ==
    /\ pc[r] = "delete" /\ ~InPdu(r)
    /\ Goto(r, "done")
    /\ UNCHANGED <<pdu, mib, owner, setRequest, objects, got>>

SetStep(r) ==
    \/ StartSet(r) \/ SkipReady(r) \/ Deny(r) \/ FindEntry(r) \/ Lock(r)
    \/ Accept(r) \/ Reject(r) \/ Prepared(r)
    \/ SkipDone(r) \/ Commit(r) \/ Committed(r)
    \/ Undo(r) \/ Undone(r) \/ Cleanup(r) \/ CleanedUp(r)
    \/ Answer(r) \/ Release(r) \/ Delete(r)

-----------------------------------------------------------------------------
(* The GET branch of Mib::process_request, once per binding.               *)

StartGet(g) ==
    /\ pc[g] = "start" /\ InPdu(g)
    /\ mib = NoRequest
    /\ mib' = g
    /\ pc' = [pc EXCEPT ![g] = "wait"]
    /\ UNCHANGED <<pdu, idx, owner, setRequest, objects, got>>

\* Mutant of LockEntry: the entry is read under the MIB lock alone.
LockEntryNot(g) ==
    /\ pc[g] = "wait"
    /\ mib' = NoRequest
    /\ pc' = [pc EXCEPT ![g] = "read"]
    /\ UNCHANGED <<pdu, idx, owner, setRequest, objects, got>>

\* entry->start_synch(), with the MIB lock held while it blocks.
LockEntry(g) ==
    /\ pc[g] = "wait"
    /\ owner[EntryOf(Current(g))] = NoRequest
    /\ owner' = [owner EXCEPT ![EntryOf(Current(g))] = g]
    /\ mib' = NoRequest
    /\ pc' = [pc EXCEPT ![g] = "read"]
    /\ UNCHANGED <<pdu, idx, setRequest, objects, got>>

Read(g) ==
    /\ pc[g] = "read"
    /\ got' = [got EXCEPT ![g] = Append(@, value[Current(g)])]
    /\ owner' = [owner EXCEPT ![EntryOf(Current(g))] = NoRequest]
    /\ pc' = [pc EXCEPT ![g] = "start"]
    /\ NextVb(g)
    /\ UNCHANGED <<pdu, mib, setRequest, objects>>

EndGet(g) ==
    /\ pc[g] = "start" /\ ~InPdu(g)
    /\ pc' = [pc EXCEPT ![g] = "done"]
    /\ UNCHANGED <<pdu, idx, mib, owner, setRequest, objects, got>>

GetStep(g) == StartGet(g) \/ LockEntry(g) \/ Read(g) \/ EndGet(g)

AllDone == \A r \in Requests : pc[r] = "done"
Terminated == AllDone /\ UNCHANGED vars

Next ==
    \/ \E r \in Setters : SetStep(r)
    \/ \E g \in Getters : GetStep(g)
    \/ Terminated

\* Every request has a thread of the pool, which the system keeps scheduling;
\* the LockQueue thread retries a pending lock whenever one is released.
Fairness ==
    /\ \A r \in Setters : WF_vars(SetStep(r))
    /\ \A g \in Getters : WF_vars(GetStep(g))

Spec == Init /\ [][Next]_vars
FairSpec == Spec /\ Fairness

-----------------------------------------------------------------------------
(* Properties.                                                             *)

\* The entry recorded for a binding is locked on behalf of that request until
\* set_unlocked forgets it, however many bindings share the entry and whoever
\* else waits for it: mib.cpp's "Entry has been locked by prepare_set_request".
EntriesHeld ==
    \A r \in Setters : \A i \in 1..MaxVbs :
      locks[r][i] # NoEntry => owner[locks[r][i]] = r

\* A table a request commits or undoes tells its listeners about its rows, so
\* the request holds their locks as well: Request::set_locked takes them.
ListenersHeld ==
    \A r \in Setters : pc[r] \in {"commit", "undo"} =>
      \A i \in 1..MaxVbs : locks[r][i] # NoEntry =>
        \A t \in Listeners[locks[r][i]] : owner[t] = r

\* While a GET reads an entry no SET is between locking and unlocking it: what a
\* GET sees is never half of a SET, nor something that is undone later.
ReadersExcluded ==
    \A g \in Getters : pc[g] = "read" =>
      \A r \in Setters : \A i \in 1..MaxVbs : locks[r][i] # EntryOf(Current(g))

\* An undo copy lives no longer than the SET that made it: when nobody is
\* setting an entry there is none, so a later SET cannot restore a stale value.
UndoCopiesOwned ==
    \A x \in Instances : undo[x] # NoUndo =>
      \E r \in Setters : owner[EntryOf(x)] = r /\ pc[r] \in {"commit", "undo", "cleanup"}

\* A row is on delete_rows only while the SET that destroys it holds its table:
\* otherwise MibTable::prepare_set_request rejects the row for ever.
MarkedRowsOwned ==
    \A k \in deleteRows : \E r \in Setters :
      owner[k[1]] = r /\ pc[r] \in {"prepare", "lock", "commit", "undo", "cleanup"}

\* The locks of a request are given back by its cleanup or undo phase, before
\* it is answered: none is left for ~Request.
UnlockedWhenAnswered ==
    \A r \in Setters : pc[r] = "delete" => \A i \in 1..MaxVbs : locks[r][i] = NoEntry

\* The commit phase finds an entry for every binding that is not done yet, also
\* for those check_creation covered without locking: mib.cpp's "entry should be
\* available, but we have to be sure".  It rests on MibTable::set_value, whose
\* first call for a new row is to "handle the other ones"; it holds of PDUs that
\* name the status of a row once, since of several set_value commits the last.
CommitFindsEntry ==
    \A r \in Setters : pc[r] = "commit" /\ InPdu(r) /\ idx[r] \notin done[r] =>
      locks[r][idx[r]] # NoEntry

\* Every request is answered and deleted: no two requests wait for each other's
\* entries, and none keeps the MIB lock or an entry lock when it ends.
AllAnswered == <>AllDone

=============================================================================
