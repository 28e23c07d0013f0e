------------------------- MODULE MibAtomicityProofs -------------------------
(***************************************************************************)
(* What the phases of a SET leave behind: theorems about the undo copies,  *)
(* the rows marked for deletion and the locks of MibSetTransaction, and    *)
(* that it implements MibStore, so that SETs are atomic.                   *)
(***************************************************************************)
EXTENDS MibSetAtomicity, MibSetProofs

\* Whatever follows a binding that a new row has covered is for that row too:
\* process_cleanup_set_request returns at the first binding without a lock.
NoGaps ==
    \A p \in SetPdus : \A i, j, k \in DOMAIN p :
      /\ i < j /\ j < k
      /\ InRow(p[i].inst, p[j].inst) /\ MayCreate(p, p[i].inst)
      => InRow(p[k].inst, p[j].inst)

\* A PDU names the status of a row at most once: of several such bindings for a
\* new row MibTable::set_value commits only the last.
StatusOnce ==
    \A p \in SetPdus : \A i, j \in DOMAIN p :
      IsStatus(p[i].inst) /\ p[i].inst = p[j].inst => i = j

-----------------------------------------------------------------------------
(* The bindings of a SET.  In its prepare phase it locks an entry for each *)
(* binding or finds it covered by an earlier one of the same row.          *)

Preparing(r) == pc[r] \in {"prepare", "lock"}

\* Binding i was accepted for a row that is not there, so j need not be locked.
Covers(r, i, j) ==
    /\ i \in DOMAIN pdu[r] /\ i < j
    /\ InRow(pdu[r][i].inst, pdu[r][j].inst)
    /\ locks[r][i] # NoEntry
    /\ RowMissing(pdu[r][i].inst, value)

\* A SET that has not begun has no locks and nothing is ready or done.
Fresh(r) ==
    pc[r] = "start" =>
      ready[r] = {} /\ done[r] = {} /\ \A i \in 1..MaxVbs : locks[r][i] = NoEntry

\* What is behind the current binding is locked or covered, nothing else is locked.
Progress(r) ==
    Preparing(r) =>
      /\ \A j \in DOMAIN pdu[r] : j < idx[r] => locks[r][j] # NoEntry \/ j \in ready[r]
      /\ \A j \in 1..MaxVbs : locks[r][j] # NoEntry => j < idx[r]
      /\ pc[r] = "lock" => idx[r] \notin ready[r]
      /\ ready[r] \subseteq DOMAIN pdu[r]

\* A binding that is ready but not locked has one that covers it.
ReadyCovered(r) ==
    Preparing(r) =>
      \A j \in ready[r] : locks[r][j] = NoEntry => \E i \in 1..MaxVbs : Covers(r, i, j)

\* Before the commit phase the bindings of a row are done together.
DoneByRows(r) ==
    Preparing(r) =>
      /\ done[r] \subseteq DOMAIN pdu[r]
      /\ \A i \in done[r], j \in DOMAIN pdu[r] :
           InRow(pdu[r][i].inst, pdu[r][j].inst) => j \in done[r]

\* In the commit phase a binding without a lock is done, or will be when the one
\* that covers it creates the row, unless the status is named again behind it.
CommitCovered(r) ==
    StatusOnce /\ pc[r] = "commit" =>
      \A j \in DOMAIN pdu[r] : idx[r] <= j /\ locks[r][j] = NoEntry /\ j \notin done[r] =>
        \E i \in 1..MaxVbs : Covers(r, i, j) /\ idx[r] <= i /\ i \notin done[r]

BindingOK(r) == Fresh(r) /\ Progress(r) /\ ReadyCovered(r) /\ DoneByRows(r) /\ CommitCovered(r)

BaseInv == LockInv /\ TypeInv
BindingInv == \A r \in Setters : BindingOK(r)

-----------------------------------------------------------------------------
(* The undo and cleanup phases give back every lock.                       *)

\* Once a binding has no lock, those behind it have none.
LocksFirst(r) ==
    /\ Preparing(r) =>
         \A j \in ready[r], k \in DOMAIN pdu[r] : j < k /\ locks[r][j] = NoEntry =>
           k \in ready[r] /\ locks[r][k] = NoEntry
    /\ pc[r] = "commit" =>
         \A j, k \in 1..MaxVbs : j < k /\ locks[r][j] = NoEntry => locks[r][k] = NoEntry
    /\ pc[r] = "cleanup" =>
         \A j, k \in 1..MaxVbs : idx[r] <= j /\ j < k /\ locks[r][j] = NoEntry =>
           locks[r][k] = NoEntry

\* The two phases have passed the bindings behind them.
LocksPassed(r) ==
    /\ pc[r] \in {"undo", "cleanup"} => \A i \in 1..MaxVbs : i < idx[r] => locks[r][i] = NoEntry
    /\ pc[r] \in {"start", "answer", "delete", "done"} => \A i \in 1..MaxVbs : locks[r][i] = NoEntry

PassInv == \A r \in Setters : LocksFirst(r) /\ LocksPassed(r)

-----------------------------------------------------------------------------
(* What a SET has written lies in the entries it has locked.               *)

Locks(r, e) == \E k \in 1..MaxVbs : locks[r][k] = e

\* A row is on delete_rows while a SET has its table locked.
MarksLocked == \A k \in deleteRows : \E r \in Setters : Locks(r, k[1])

\* Request r names instance x, whose undo copy it may have made, and has it locked.
MayRestore(r, x) ==
    /\ pc[r] \in {"commit", "undo", "cleanup"}
    /\ Naming(pdu[r], x) # {} /\ Locks(r, EntryOf(x))

\* An undo copy is of an instance that a SET names and has locked.
UndoLocked ==
    \A x \in Instances : undo[x] # NoUndo =>
      /\ \E r \in Setters : MayRestore(r, x)
      /\ InTable(x) => RowExists(x, value)

\* A commit may upgrade a row only if the PDU names its status: undo and cleanup
\* do not reach the undo copy otherwise.
StatusNamed ==
    \A p \in SetPdus : \A i \in DOMAIN p : InTable(p[i].inst) => StatusVbs(p, p[i].inst) # {}
NoUpgrade == ServiceAnswers = {FALSE}
Calm == (\E x \in Instances : value[x] = "notReady") => StatusNamed \/ NoUpgrade

-----------------------------------------------------------------------------
(* Commits touch the row they are for, and finish bindings of it.          *)

\* What one kind of commit leaves alone and which bindings it finishes.
CommitScope(p, i, v, u, o) ==
    /\ \A y \in Instances : ~InRow(p[i].inst, y) => o.value[y] = v[y] /\ o.undo[y] = u[y]
    /\ o.finished \subseteq NamingRow(p, p[i].inst)
    /\ o.ok /\ RowMissing(p[i].inst, v) => o.finished = FinishedByAddRow(p, p[i].inst)

\* The call that creates a row finishes all its bindings if the status is named once.
LEMMA AllFinished ==
    ASSUME StatusOnce, NEW p \in SetPdus, NEW x
    PROVE  FinishedByAddRow(p, x) = NamingRow(p, x)
<1> SUFFICES ASSUME NEW i \in NamingRow(p, x) PROVE LastStatus(p, i)
  BY DEF FinishedByAddRow
<1>1. i \in DOMAIN p /\ DOMAIN p \subseteq Nat
  BY PduProperties, TransactionAssumption DEF NamingRow, TransactionAssumption
<1>2. ASSUME IsStatus(p[i].inst), NEW j \in Naming(p, p[i].inst) PROVE j <= i
  <2>1. j = i
    BY <1>1, <1>2 DEF StatusOnce, Naming
  <2> QED
    BY <1>1, <2>1
<1> QED
  BY <1>2 DEF LastStatus

LEMMA LeafScope ==
    ASSUME NEW p \in Pdus, NEW i \in 1..Len(p), NEW v, NEW u, DataOK(v, u),
           ~RowMissing(p[i].inst, v), NEW o \in CommitLeaf(p, i, v, u)
    PROVE  CommitScope(p, i, v, u, o)
<1> DEFINE x == p[i].inst
<1>1. x \in Instances /\ i \in DOMAIN p
  BY PduProperties, VbProperties
<1>2. i \in NamingRow(p, x)
  BY <1>1 DEF NamingRow, InRow
<1>3. \A y \in Instances : ~InRow(x, y) => y # x
  BY DEF InRow
<1>4. \/ o = Outcome(TRUE, [v EXCEPT ![x] = p[i].val], [u EXCEPT ![x] = v[x]], {i})
      \/ o = Outcome(FALSE, v, [u EXCEPT ![x] = v[x]], {})
  BY DEF CommitLeaf
<1> QED
  BY <1>1, <1>2, <1>3, <1>4 DEF CommitScope, Outcome, DataOK

LEMMA StatusScope ==
    ASSUME NEW p \in Pdus, NEW i \in 1..Len(p), NEW v, NEW u, DataOK(v, u),
           ~RowMissing(p[i].inst, v), NEW o \in CommitStatus(p, i, v, u)
    PROVE  CommitScope(p, i, v, u, o)
<1> DEFINE x == p[i].inst
<1>1. x \in Instances /\ i \in DOMAIN p
  BY PduProperties, VbProperties
<1>2. i \in NamingRow(p, x)
  BY <1>1 DEF NamingRow, InRow
<1>3. \A y \in Instances : ~InRow(x, y) => y # x
  BY DEF InRow
<1>4. o = Outcome(TRUE, [v EXCEPT ![x] = StatusAfter(p[i].val)], [u EXCEPT ![x] = v[x]], {i})
  BY DEF CommitStatus
<1> QED
  BY <1>1, <1>2, <1>3, <1>4 DEF CommitScope, Outcome, DataOK

LEMMA RemoveScope ==
    ASSUME NEW p, NEW i, NEW v, NEW u,
           ~RowMissing(p[i].inst, v), NEW o \in RemoveRow(p, i, v, u)
    PROVE  CommitScope(p, i, v, u, o)
BY DEF CommitScope, Outcome, RemoveRow

LEMMA AddScope ==
    ASSUME NEW p, NEW i, NEW v, NEW u, NEW o \in AddRow(p, i, v, u)
    PROVE  CommitScope(p, i, v, u, o)
<1> DEFINE x == p[i].inst
<1>1. \/ o = Outcome(TRUE, [y \in Instances |-> IF InRow(x, y) THEN NewValue(p, y) ELSE v[y]],
                          [y \in Instances |-> IF InRow(x, y) THEN NewUndo(p, y) ELSE u[y]],
                          FinishedByAddRow(p, x))
      \/ o = Outcome(FALSE, v, u, {})
  BY DEF AddRow
<1>2. FinishedByAddRow(p, x) \subseteq NamingRow(p, x)
  BY DEF FinishedByAddRow
<1> QED
  BY <1>1, <1>2 DEF CommitScope, Outcome

\* The upgrade concerns the status of the same row.
LEMMA UpgradeScope ==
    ASSUME NEW p \in Pdus, NEW i \in 1..Len(p), NEW v, NEW u, InTable(p[i].inst),
           NEW c, OutcomeOK(c), CommitScope(p, i, v, u, c), NEW o \in Upgrades(c, p[i].inst)
    PROVE  CommitScope(p, i, v, u, o)
<1> DEFINE x == p[i].inst
           s == StatusOf(x)
<1>1. CASE o = c
  BY <1>1
<1>2. CASE o # c
  <2>1. o = [c EXCEPT !.value[s] = "notInService", !.undo[s] = "notReady"]
    BY <1>2 DEF Upgrades
  <2>2. o = Outcome(c.ok, [c.value EXCEPT ![s] = "notInService"],
                          [c.undo EXCEPT ![s] = "notReady"], c.finished)
    BY <2>1 DEF OutcomeOK, Outcome
  <2>3. InRow(x, s)
    BY DEF InRow, RowOf, StatusOf
  <2>4. \A y \in Instances : ~InRow(x, y) =>
          [c.value EXCEPT ![s] = "notInService"][y] = c.value[y]
          /\ [c.undo EXCEPT ![s] = "notReady"][y] = c.undo[y]
    BY <2>3 DEF OutcomeOK, DataOK
  <2> QED
    BY <2>2, <2>4 DEF CommitScope, Outcome
<1> QED
  BY <1>1, <1>2

\* The scope of any commit.
LEMMA CommitsScope ==
    ASSUME NEW p \in Pdus, NEW i \in 1..Len(p), NEW v, NEW u, DataOK(v, u),
           NEW o \in Commits(p, i, v, u)
    PROVE  CommitScope(p, i, v, u, o)
<1> DEFINE x == p[i].inst
<1>1. x \in Instances
  BY PduProperties, VbProperties
<1>2. CASE ~InTable(x)
  BY <1>2, LeafScope DEF Commits, RowMissing
<1>3. CASE InTable(x)
  <2>1. PICK c \in CommitTable(p, i, v, u) : o \in Upgrades(c, x)
    BY <1>3 DEF Commits
  <2>2. OutcomeOK(c) /\ CommitScope(p, i, v, u, c)
    <3>1. CASE ~RowExists(x, v)
      BY <1>3, <2>1, <3>1, AddRowType, AddScope DEF CommitTable
    <3>2. CASE RowExists(x, v) /\ ~IsStatus(x)
      BY <2>1, <3>2, CommitLeafType, LeafScope DEF CommitTable, RowMissing
    <3>3. CASE RowExists(x, v) /\ IsStatus(x) /\ p[i].val = "destroy"
      BY <1>3, <2>1, <3>3, RemoveRowType, RemoveScope DEF CommitTable, RowMissing
    <3>4. CASE RowExists(x, v) /\ IsStatus(x) /\ p[i].val # "destroy"
      BY <2>1, <3>4, CommitStatusType, StatusScope DEF CommitTable, RowMissing
    <3> QED
      BY <3>1, <3>2, <3>3, <3>4
  <2> QED
    BY <1>3, <2>1, <2>2, UpgradeScope
<1> QED
  BY <1>2, <1>3

-----------------------------------------------------------------------------
(* A step of one SET leaves the others, and what they have locked, alone.  *)

\* Nothing of request s changes.
Same(s) ==
    /\ pdu' = pdu /\ pc'[s] = pc[s] /\ idx'[s] = idx[s]
    /\ locks'[s] = locks[s] /\ ready'[s] = ready[s] /\ done'[s] = done[s] /\ status'[s] = status[s]

\* Nothing changes in the entries request s has locked.
Safe(s) ==
    \A x \in Instances : Locks(s, EntryOf(x)) => value'[x] = value[x] /\ undo'[x] = undo[x]

LEMMA OthersSame ==
    ASSUME TypeInv, NEW r \in Setters, SetStep(r), NEW s \in Setters, s # r
    PROVE  Same(s)
<1> USE DEF Same, TypeInv, ControlOK, SetOK, Requests
<1>1. CASE StartSet(r) \/ Prepared(r) \/ Committed(r) \/ Undone(r) \/ CleanedUp(r) \/ Answer(r) \/ Delete(r)
  BY <1>1 DEF StartSet, Prepared, Committed, Undone, CleanedUp, Answer, Delete, Goto, setRequest
<1>2. CASE SkipReady(r) \/ SkipDone(r)
  BY <1>2 DEF SkipReady, SkipDone, NextVb, setRequest
<1>3. CASE Deny(r) \/ FindEntry(r) \/ Lock(r)
  BY <1>3 DEF Deny, FindEntry, Lock, Goto, request
<1>4. CASE Accept(r)
  BY <1>4 DEF Accept, Locked, NextVb
<1>5. CASE Reject(r)
  BY <1>5 DEF Reject, Locked, Goto
<1>6. CASE Commit(r)
  BY <1>6 DEF Commit, NextVb, Goto
<1>7. CASE Undo(r)
  BY <1>7 DEF Undo, Unlock, NextVb
<1>8. CASE Cleanup(r) \/ Release(r)
  BY <1>8 DEF Cleanup, Release, Unlock, NextVb
<1> QED
  BY <1>1, <1>2, <1>3, <1>4, <1>5, <1>6, <1>7, <1>8 DEF SetStep

\* What undo and cleanup reach lies in the entry of the binding.
LEMMA ReachedEntry ==
    ASSUME NEW p, NEW i, NEW y \in Reached(p, i, value)
    PROVE  EntryOf(y) = EntryOf(p[i].inst)
BY DEF Reached

\* The lock recorded for the current binding is its entry's.
LEMMA CurrentLocked ==
    ASSUME BaseInv, NEW r \in Setters, InPdu(r), locks[r][idx[r]] # NoEntry
    PROVE  /\ r \in Requests /\ pdu[r] \in Pdus /\ idx[r] \in 1..Len(pdu[r]) /\ idx[r] \in 1..MaxVbs
           /\ DOMAIN pdu[r] = 1..Len(pdu[r])
           /\ Current(r) = pdu[r][idx[r]].inst /\ Current(r) \in Instances
           /\ locks[r][idx[r]] = EntryOf(Current(r))
           /\ Locks(r, EntryOf(Current(r)))
<1>1. r \in Requests /\ pdu[r] \in Pdus
  BY DEF BaseInv, LockInv, ControlOK, Requests
<1>2. idx[r] \in 1..MaxVbs /\ idx[r] \in DOMAIN pdu[r] /\ Current(r) \in Instances
  BY <1>1, CurrentBinding DEF BaseInv, LockInv
<1>3. locks[r][idx[r]] = EntryOf(pdu[r][idx[r]].inst)
  BY <1>2 DEF BaseInv, LockInv, LocksNamed
<1> QED
  BY <1>1, <1>2, <1>3, PduProperties DEF Current, Locks

\* A SET writes only into entries it has locked.
LEMMA WritesLocked ==
    ASSUME BaseInv, NEW r \in Setters, SetStep(r), NEW x \in Instances
    PROVE  \/ value'[x] = value[x] /\ undo'[x] = undo[x]
           \/ Locks(r, EntryOf(x)) /\ pc[r] \in {"commit", "undo", "cleanup"}
<1>1. CASE Commit(r)
  <2>1. PICK o \in CommitOutcomes(r) : value' = o.value /\ undo' = o.undo
    BY <1>1 DEF Commit
  <2>2. CASE locks[r][idx[r]] = NoEntry
    BY <2>1, <2>2 DEF CommitOutcomes, Outcome
  <2>3. CASE locks[r][idx[r]] # NoEntry
    <3>1. /\ pdu[r] \in Pdus /\ idx[r] \in 1..Len(pdu[r]) /\ Current(r) = pdu[r][idx[r]].inst
          /\ Locks(r, EntryOf(Current(r)))
      BY <1>1, <2>3, CurrentLocked DEF Commit
    <3>2. CommitScope(pdu[r], idx[r], value, undo, o)
      BY <2>1, <2>3, <3>1, CommitsScope DEF CommitOutcomes, BaseInv, TypeInv
    <3>3. InRow(Current(r), x) => EntryOf(x) = EntryOf(Current(r))
      BY DEF InRow, RowOf, EntryOf
    <3> QED
      BY <1>1, <2>1, <3>1, <3>2, <3>3 DEF CommitScope, Commit
  <2> QED
    BY <2>2, <2>3
<1>2. CASE Undo(r)
  <2>1. CASE locks[r][idx[r]] = NoEntry
    BY <1>2, <2>1 DEF Undo, objects
  <2>2. CASE locks[r][idx[r]] # NoEntry
    <3>1. /\ value' = Unset(Reached(pdu[r], idx[r], value), value, undo)
          /\ undo' = Forget(Reached(pdu[r], idx[r], value), undo)
          /\ Current(r) = pdu[r][idx[r]].inst /\ Locks(r, EntryOf(Current(r)))
      BY <1>2, <2>2, CurrentLocked DEF Undo
    <3> QED
      BY <1>2, <3>1, ReachedEntry DEF Unset, Forget, Undo
  <2> QED
    BY <2>1, <2>2
<1>3. CASE Cleanup(r)
  <2>1. /\ value' = value /\ undo' = Forget(Reached(pdu[r], idx[r], value), undo)
        /\ Current(r) = pdu[r][idx[r]].inst /\ Locks(r, EntryOf(Current(r)))
    BY <1>3, CurrentLocked DEF Cleanup
  <2> QED
    BY <1>3, <2>1, ReachedEntry DEF Forget, Cleanup
<1>4. CASE ~(Commit(r) \/ Undo(r) \/ Cleanup(r))
  <2>1. value' = value /\ undo' = undo
    BY <1>4 DEF SetStep, StartSet, SkipReady, Deny, FindEntry, Lock, Accept, Reject, Prepared, SkipDone,
       Committed, Undone, CleanedUp, Answer, Release, Delete, objects
  <2> QED
    BY <2>1
<1> QED
  BY <1>1, <1>2, <1>3, <1>4

\* Two SETs never have one entry locked.
LEMMA LocksApart ==
    ASSUME LockInv, NEW r \in Setters, NEW s \in Setters, NEW e \in Entries, Locks(r, e), Locks(s, e)
    PROVE  r = s
<1>1. e # NoEntry
  BY TransactionAssumption DEF TransactionAssumption
<1> QED
  BY <1>1 DEF LockInv, FamilyHeld, Family, Locks

LEMMA OthersSafe ==
    ASSUME BaseInv, NEW r \in Setters, SetStep(r), NEW s \in Setters, s # r
    PROVE  Safe(s)
<1> SUFFICES ASSUME NEW x \in Instances, Locks(s, EntryOf(x))
             PROVE  value'[x] = value[x] /\ undo'[x] = undo[x]
  BY DEF Safe
<1>1. ~Locks(r, EntryOf(x))
  BY LocksApart, InstanceProperties DEF BaseInv
<1> QED
  BY <1>1, WritesLocked

\* A GET writes nothing and leaves all SETs alone.
LEMMA GetQuiet ==
    ASSUME TypeInv, NEW g \in Getters, GetStep(g)
    PROVE  /\ UNCHANGED <<value, undo, deleteRows>>
           /\ \A s \in Setters : Same(s) /\ Safe(s)
<1>1. \A s \in Setters : s # g /\ s \in Requests
  BY TransactionAssumption DEF TransactionAssumption, Requests
<1>2. UNCHANGED <<value, undo, deleteRows, pdu, locks, ready, done, status>>
  BY DEF GetStep, StartGet, LockEntry, Read, EndGet, setRequest, objects
<1>3. \A s \in Setters : pc'[s] = pc[s] /\ idx'[s] = idx[s]
  BY <1>1 DEF GetStep, StartGet, LockEntry, Read, EndGet, NextVb, TypeInv, ControlOK
<1> QED
  BY <1>2, <1>3 DEF Same, Safe

\* Nothing happens.
LEMMA StutterQuiet ==
    ASSUME UNCHANGED vars
    PROVE  /\ UNCHANGED <<value, undo, deleteRows>>
           /\ \A s \in Setters : Same(s) /\ Safe(s)
BY DEF vars, request, setRequest, objects, Same, Safe

-----------------------------------------------------------------------------
(* The bindings are locked or covered.                                     *)

\* The bindings of a PDU.
LEMMA Bindings ==
    ASSUME TypeInv, NEW r \in Setters
    PROVE  /\ r \in Requests /\ pdu[r] \in Pdus /\ pdu[r] \in SetPdus
           /\ DOMAIN pdu[r] = 1..Len(pdu[r]) /\ Len(pdu[r]) \in Nat /\ MaxVbs \in Nat
           /\ DOMAIN pdu[r] \subseteq 1..MaxVbs
           /\ \A i \in DOMAIN pdu[r] : pdu[r][i].inst \in Instances /\ pdu[r][i] \in Vbs
           /\ idx[r] \in 1..(MaxVbs + 1)
           /\ InPdu(r) => idx[r] \in DOMAIN pdu[r]
           /\ ~InPdu(r) => \A i \in DOMAIN pdu[r] : i < idx[r]
<1>1. r \in Requests /\ pdu[r] \in Pdus /\ pdu[r] \in SetPdus /\ idx[r] \in 1..(MaxVbs + 1)
      /\ MaxVbs \in Nat
  BY ObjectsAssumption DEF TypeInv, ControlOK, Requests, ObjectsAssumption
<1>2. /\ Len(pdu[r]) \in 0..MaxVbs /\ DOMAIN pdu[r] = 1..Len(pdu[r])
      /\ \A i \in 1..Len(pdu[r]) : pdu[r][i] \in Vbs
  BY <1>1, PduProperties
<1>3. \A i \in DOMAIN pdu[r] : pdu[r][i].inst \in Instances
  BY <1>2, VbProperties
<1> QED
  BY <1>1, <1>2, <1>3 DEF InPdu

\* The status of an instance's row lies in the same entry.
LEMMA SameEntry ==
    ASSUME NEW x \in Instances, NEW y \in Instances, InRow(x, y)
    PROVE  EntryOf(x) = EntryOf(y) /\ (InTable(x) <=> InTable(y)) /\ StatusOf(x) = StatusOf(y)
BY DEF InRow, RowOf, EntryOf, InTable, StatusOf

LEMMA MissingStays ==
    ASSUME NEW x \in Instances, NEW v, NEW w,
           InTable(x) => w[StatusOf(x)] = v[StatusOf(x)]
    PROVE  RowMissing(x, v) <=> RowMissing(x, w)
BY DEF RowMissing, RowExists

LEMMA CoversStays ==
    ASSUME BaseInv, NEW s \in Setters, Same(s), Safe(s), NEW i, NEW j, Covers(s, i, j)
    PROVE  Covers(s, i, j)'
<1> DEFINE x == pdu[s][i].inst
<1>1. i \in DOMAIN pdu[s] /\ i \in 1..MaxVbs /\ x \in Instances
  BY Bindings DEF Covers, BaseInv
<1>2. Locks(s, EntryOf(x))
  BY <1>1 DEF Covers, BaseInv, LockInv, LocksNamed, Locks
<1>3. InTable(x) => StatusOf(x) \in Instances /\ EntryOf(StatusOf(x)) = EntryOf(x)
  BY <1>1, InstanceProperties DEF StatusOf, EntryOf
<1>4. RowMissing(x, value')
  BY <1>1, <1>2, <1>3, MissingStays DEF Safe, Covers
<1> QED
  BY <1>1, <1>4 DEF Covers, Same

LEMMA BindingFrame ==
    ASSUME BaseInv, NEW s \in Setters, Same(s), Safe(s), BindingOK(s)
    PROVE  BindingOK(s)'
<1> USE DEF BindingOK
<1>1. Fresh(s)' /\ Progress(s)' /\ DoneByRows(s)'
  BY DEF Fresh, Progress, DoneByRows, Same, Preparing
<1>2. ReadyCovered(s)'
  <2> SUFFICES ASSUME Preparing(s)', NEW j \in ready'[s], locks'[s][j] = NoEntry
               PROVE  \E i \in 1..MaxVbs : Covers(s, i, j)'
    BY DEF ReadyCovered
  <2>1. PICK i \in 1..MaxVbs : Covers(s, i, j)
    BY DEF ReadyCovered, Same, Preparing
  <2> QED
    BY <2>1, CoversStays
<1>3. CommitCovered(s)'
  <2> SUFFICES ASSUME StatusOnce, pc'[s] = "commit", NEW j \in DOMAIN pdu'[s],
                      idx'[s] <= j, locks'[s][j] = NoEntry, j \notin done'[s]
               PROVE  \E i \in 1..MaxVbs : Covers(s, i, j)' /\ idx'[s] <= i /\ i \notin done'[s]
    BY DEF CommitCovered
  <2>1. PICK i \in 1..MaxVbs : Covers(s, i, j) /\ idx[s] <= i /\ i \notin done[s]
    BY DEF CommitCovered, Same
  <2> QED
    BY <2>1, CoversStays DEF Same
<1> QED
  BY <1>1, <1>2, <1>3

\* prepare_set_request accepts a binding; check_creation covers others.
LEMMA AcceptBinding ==
    ASSUME BaseInv, NEW r \in Setters, BindingOK(r), Accept(r)
    PROVE  BindingOK(r)'
<1> DEFINE p == pdu[r]
           i == idx[r]
           x == p[i].inst
           C == Covered(p, i, value)
           D == Ignored(p, i, value)
<1> USE DEF BindingOK
<1>1. /\ r \in Requests /\ DOMAIN p = 1..Len(p) /\ DOMAIN p \subseteq 1..MaxVbs /\ Len(p) \in Nat
      /\ i \in DOMAIN p /\ i \in 1..MaxVbs /\ i \in Nat /\ x \in Instances
      /\ EntryOf(x) \in Entries /\ EntryOf(x) # NoEntry
  <2>1. InPdu(r) /\ r \in Requests
    BY DEF Accept, Locked, BaseInv, TypeInv, AtBinding, Requests
  <2> QED
    BY <2>1, Bindings, InstanceProperties, TransactionAssumption DEF BaseInv, TransactionAssumption
<1>2. /\ pc[r] = "lock" /\ pc'[r] = "prepare" /\ idx'[r] = i + 1 /\ pdu' = pdu /\ value' = value
      /\ locks'[r] = [locks[r] EXCEPT ![i] = EntryOf(x)]
      /\ ready'[r] = (ready[r] \union C) \ {i}
      /\ done'[r] = done[r] \union D
  BY <1>1 DEF Accept, Locked, NextVb, Current, BaseInv, TypeInv, ControlOK, SetOK
<1>3. /\ \A j \in 1..MaxVbs : locks'[r][j] = IF j = i THEN EntryOf(x) ELSE locks[r][j]
      /\ C \subseteq DOMAIN p /\ D \subseteq C
  BY <1>1, <1>2 DEF BaseInv, TypeInv, ControlOK, Covered, Ignored, NamingRow
<1>4. /\ \A j \in DOMAIN p : j < i => locks[r][j] # NoEntry \/ j \in ready[r]
      /\ \A j \in 1..MaxVbs : locks[r][j] # NoEntry => j < i
      /\ i \notin ready[r] /\ ready[r] \subseteq DOMAIN p
  BY <1>2 DEF Progress, Preparing
<1>5. Progress(r)'
  <2>1. \A j \in DOMAIN p : j < i + 1 => locks'[r][j] # NoEntry \/ j \in ready'[r]
    BY <1>1, <1>2, <1>3, <1>4
  <2>2. \A j \in 1..MaxVbs : locks'[r][j] # NoEntry => j < i + 1
    BY <1>1, <1>3, <1>4
  <2> QED
    BY <1>2, <1>3, <1>4, <2>1, <2>2 DEF Progress
<1>6. ReadyCovered(r)'
  <2> SUFFICES ASSUME NEW j \in ready'[r], locks'[r][j] = NoEntry
               PROVE  \E k \in 1..MaxVbs : Covers(r, k, j)'
    BY DEF ReadyCovered
  <2>1. j # i /\ j \in DOMAIN p /\ j \in 1..MaxVbs /\ locks[r][j] = NoEntry
        /\ (j \in ready[r] \/ j \in C)
    BY <1>1, <1>2, <1>3, <1>4
  <2>2. CASE j \in ready[r]
    <3>1. PICK k \in 1..MaxVbs : Covers(r, k, j)
      BY <2>1, <2>2, <1>2 DEF ReadyCovered, Preparing
    <3>2. locks'[r][k] # NoEntry
      BY <3>1, <1>1, <1>3 DEF Covers
    <3> QED
      BY <3>1, <3>2, <1>2 DEF Covers
  <2>3. CASE j \in C /\ j \notin ready[r]
    <3>1. i < j
      <4>1. ~(j < i)
        BY <1>4, <2>1, <2>3
      <4> QED
        BY <4>1, <1>1, <2>1
    <3>2. RowMissing(x, value)
      BY <2>3 DEF Covered
    <3>3. InRow(x, p[j].inst)
      BY <2>3, <3>2 DEF Covered, NamingRow, InRow
    <3>4. locks'[r][i] # NoEntry
      BY <1>1, <1>3
    <3>5. PICK k \in 1..MaxVbs : k = i
      BY <1>1
    <3>6. Covers(r, k, j)'
      BY <1>1, <1>2, <3>1, <3>2, <3>3, <3>4, <3>5 DEF Covers
    <3> QED
      BY <3>6
  <2> QED
    BY <2>1, <2>2, <2>3
<1>7. DoneByRows(r)'
  <2>1. D = {} \/ D = NamingRow(p, x)
    BY DEF Ignored, Covered
  <2>2. \A a \in D, b \in DOMAIN p : InRow(p[a].inst, p[b].inst) => b \in D
    BY <2>1 DEF NamingRow, InRow
  <2>3. \A a \in done[r], b \in DOMAIN p : InRow(p[a].inst, p[b].inst) => b \in done[r]
    BY <1>2 DEF DoneByRows, Preparing
  <2>4. done[r] \subseteq DOMAIN p
    BY <1>2 DEF DoneByRows, Preparing
  <2> QED
    BY <1>2, <1>3, <2>2, <2>3, <2>4 DEF DoneByRows
<1>8. Fresh(r)' /\ CommitCovered(r)'
  BY <1>2 DEF Fresh, CommitCovered
<1> QED
  BY <1>5, <1>6, <1>7, <1>8

\* A commit of a binding that succeeds.
LEMMA CommitBinding ==
    ASSUME BaseInv, NEW r \in Setters, BindingOK(r), Commit(r)
    PROVE  BindingOK(r)' /\ (StatusOnce => locks[r][idx[r]] # NoEntry)
<1> DEFINE p == pdu[r]
           i == idx[r]
           x == p[i].inst
<1> USE DEF BindingOK
<1>1. /\ r \in Requests /\ DOMAIN p = 1..Len(p) /\ DOMAIN p \subseteq 1..MaxVbs /\ Len(p) \in Nat
      /\ i \in DOMAIN p /\ x \in Instances /\ i \notin done[r] /\ pc[r] = "commit"
      /\ p \in Pdus /\ p \in SetPdus /\ \A j \in DOMAIN p : p[j].inst \in Instances
  BY Bindings DEF Commit, BaseInv
<1>2. ASSUME StatusOnce PROVE locks[r][i] # NoEntry
  <2> SUFFICES ASSUME locks[r][i] = NoEntry PROVE FALSE
    OBVIOUS
  <2>1. \E k \in 1..MaxVbs : Covers(r, k, i) /\ i <= k
    BY <1>1, <1>2 DEF CommitCovered
  <2> QED
    BY <2>1, <1>1 DEF Covers
<1>3. PICK o \in CommitOutcomes(r) :
         /\ value' = o.value /\ undo' = o.undo
         /\ done'[r] = done[r] \union o.finished
         /\ IF o.ok THEN idx'[r] = i + 1 /\ pc'[r] = "commit" ELSE pc'[r] = "undo"
  BY <1>1 DEF Commit, NextVb, Goto, BaseInv, TypeInv, ControlOK, SetOK
<1>4. ASSUME StatusOnce PROVE CommitScope(p, i, value, undo, o)
  BY <1>1, <1>2, <1>3, <1>4, CommitsScope DEF CommitOutcomes, BaseInv, TypeInv
<1>5. pdu' = pdu /\ locks' = locks
  BY DEF Commit
<1>6. CommitCovered(r)'
  <2> SUFFICES ASSUME StatusOnce, o.ok, NEW j \in DOMAIN p, i + 1 <= j, locks[r][j] = NoEntry, j \notin done'[r]
               PROVE  \E k \in 1..MaxVbs : Covers(r, k, j)' /\ i + 1 <= k /\ k \notin done'[r]
    BY <1>3, <1>5 DEF CommitCovered
  <2>1. PICK k \in 1..MaxVbs : Covers(r, k, j) /\ i <= k /\ k \notin done[r]
    BY <1>1, <1>3 DEF CommitCovered
  <2> DEFINE y == p[k].inst
             z == p[j].inst
  <2>2. /\ k \in DOMAIN p /\ y \in Instances /\ z \in Instances /\ InRow(y, z)
        /\ RowMissing(y, value) /\ k < j
    BY <2>1, <1>1 DEF Covers
  <2>3. ~InRow(x, y)
    <3> SUFFICES ASSUME InRow(x, y) PROVE FALSE
      OBVIOUS
    <3>1. RowMissing(x, value)
      BY <1>1, <2>2, SameEntry DEF RowMissing, RowExists
    <3>2. InRow(x, z)
      BY <2>2 DEF InRow
    <3>3. InRow(z, x)
      BY <3>2 DEF InRow
    <3>4. j \in NamingRow(p, x)
      BY <3>3 DEF NamingRow
    <3>5. j \in FinishedByAddRow(p, x)
      BY <1>1, <3>4, AllFinished
    <3> QED
      BY <1>3, <1>4, <3>1, <3>5 DEF CommitScope
  <2>4. k # i /\ k \notin o.finished
    BY <2>3, <1>4 DEF CommitScope, NamingRow, InRow
  <2>5. InTable(y) => ~InRow(x, StatusOf(y)) /\ StatusOf(y) \in Instances
    BY <2>2, <2>3, InstanceProperties DEF InRow, RowOf, StatusOf
  <2>6. RowMissing(y, value')
    BY <1>3, <1>4, <2>2, <2>5, MissingStays DEF CommitScope
  <2>7. Covers(r, k, j)'
    BY <2>1, <2>6, <1>5 DEF Covers
  <2>8. i + 1 <= k
    BY <1>1, <2>1, <2>2, <2>4
  <2>9. k \notin done'[r]
    BY <1>3, <2>1, <2>4
  <2> QED
    BY <2>7, <2>8, <2>9
<1>7. Fresh(r)' /\ Progress(r)' /\ ReadyCovered(r)' /\ DoneByRows(r)'
  BY <1>3 DEF Fresh, Progress, ReadyCovered, DoneByRows, Preparing
<1> QED
  BY <1>2, <1>6, <1>7

\* Every step of a SET.
LEMMA BindingStep ==
    ASSUME BaseInv, NEW r \in Setters, BindingOK(r), SetStep(r)
    PROVE  BindingOK(r)'
<1> USE DEF BindingOK
<1>0. /\ r \in Requests /\ DOMAIN pdu[r] = 1..Len(pdu[r]) /\ DOMAIN pdu[r] \subseteq 1..MaxVbs
      /\ Len(pdu[r]) \in Nat /\ idx[r] \in 1..(MaxVbs + 1) /\ MaxVbs \in Nat
  BY Bindings DEF BaseInv
<1>1. CASE StartSet(r)
  <2>1. /\ pc'[r] = "prepare" /\ idx'[r] = 1
        /\ UNCHANGED <<pdu, value, locks, ready, done>>
        /\ ready[r] = {} /\ done[r] = {} /\ \A j \in 1..MaxVbs : locks[r][j] = NoEntry
    BY <1>0, <1>1 DEF StartSet, Goto, setRequest, objects, BaseInv, TypeInv, ControlOK, Fresh
  <2> QED
    BY <1>0, <2>1 DEF Fresh, Progress, ReadyCovered, DoneByRows, CommitCovered, Preparing
<1>2. CASE SkipReady(r)
  <2>1. /\ pc[r] = "prepare" /\ pc'[r] = "prepare" /\ idx'[r] = idx[r] + 1 /\ idx[r] \in ready[r]
        /\ UNCHANGED <<pdu, value, locks, ready, done>>
    BY <1>0, <1>2 DEF SkipReady, NextVb, setRequest, objects, BaseInv, TypeInv, ControlOK
  <2>2. Progress(r)'
    <3>1. /\ \A j \in DOMAIN pdu[r] : j < idx[r] => locks[r][j] # NoEntry \/ j \in ready[r]
          /\ \A j \in 1..MaxVbs : locks[r][j] # NoEntry => j < idx[r]
          /\ ready[r] \subseteq DOMAIN pdu[r]
      BY <2>1 DEF Progress, Preparing
    <3>2. \A j \in 1..MaxVbs : j < idx[r] + 1 <=> j < idx[r] \/ j = idx[r]
      BY <1>0
    <3>3. \A j \in DOMAIN pdu[r] : j < idx[r] + 1 => locks[r][j] # NoEntry \/ j \in ready[r]
      BY <1>0, <2>1, <3>1, <3>2
    <3> QED
      BY <2>1, <3>1, <3>2, <3>3 DEF Progress
  <2>3. ReadyCovered(r)' /\ DoneByRows(r)'
    BY <2>1 DEF ReadyCovered, DoneByRows, Preparing, Covers
  <2> QED
    BY <2>1, <2>2, <2>3 DEF Fresh, CommitCovered
<1>3. CASE FindEntry(r) \/ Lock(r)
  <2>1. /\ Preparing(r) /\ pc'[r] = "lock" /\ idx'[r] = idx[r] /\ (pc[r] = "prepare" => idx[r] \notin ready[r])
        /\ UNCHANGED <<pdu, value, locks, ready, done>>
    BY <1>0, <1>3 DEF FindEntry, Lock, request, objects, BaseInv, TypeInv, ControlOK, Preparing
  <2>2. Progress(r)'
    BY <1>0, <2>1 DEF Progress, Preparing
  <2>3. ReadyCovered(r)' /\ DoneByRows(r)'
    BY <2>1 DEF ReadyCovered, DoneByRows, Preparing, Covers
  <2> QED
    BY <2>1, <2>2, <2>3 DEF Fresh, CommitCovered
<1>4. CASE Accept(r)
  BY <1>4, AcceptBinding
<1>5. CASE Prepared(r)
  <2>1. /\ pc[r] = "prepare" /\ pc'[r] = "commit" /\ idx'[r] = 1 /\ ~InPdu(r)
        /\ UNCHANGED <<pdu, value, locks, ready, done>>
    BY <1>0, <1>5 DEF Prepared, Goto, setRequest, objects, BaseInv, TypeInv, ControlOK
  <2>2. CommitCovered(r)'
    <3> SUFFICES ASSUME StatusOnce,
                        NEW j \in DOMAIN pdu[r], locks[r][j] = NoEntry, j \notin done[r]
                 PROVE  \E i \in 1..MaxVbs : Covers(r, i, j)' /\ 1 <= i /\ i \notin done[r]
      BY <2>1 DEF CommitCovered
    <3>1. j < idx[r]
      BY <2>1, Bindings DEF BaseInv
    <3>2. j \in ready[r]
      BY <2>1, <3>1 DEF Progress, Preparing
    <3>3. PICK i \in 1..MaxVbs : Covers(r, i, j)
      BY <2>1, <3>2 DEF ReadyCovered, Preparing
    <3>4. i \notin done[r]
      BY <2>1, <3>3 DEF DoneByRows, Preparing, Covers
    <3> QED
      BY <2>1, <3>3, <3>4 DEF Covers
  <2> QED
    BY <2>1, <2>2 DEF Fresh, Progress, ReadyCovered, DoneByRows, Preparing
<1>6. CASE SkipDone(r)
  <2>1. /\ pc[r] = "commit" /\ pc'[r] = "commit" /\ idx'[r] = idx[r] + 1 /\ idx[r] \in done[r]
        /\ UNCHANGED <<pdu, value, locks, ready, done>>
    BY <1>0, <1>6 DEF SkipDone, NextVb, setRequest, objects, BaseInv, TypeInv, ControlOK
  <2>2. CommitCovered(r)'
    <3> SUFFICES ASSUME StatusOnce, NEW j \in DOMAIN pdu[r], idx[r] + 1 <= j, locks[r][j] = NoEntry, j \notin done[r]
                 PROVE  \E i \in 1..MaxVbs : Covers(r, i, j)' /\ idx[r] + 1 <= i /\ i \notin done[r]
      BY <2>1 DEF CommitCovered
    <3>1. PICK i \in 1..MaxVbs : Covers(r, i, j) /\ idx[r] <= i /\ i \notin done[r]
      BY <1>0, <2>1 DEF CommitCovered
    <3> QED
      BY <1>0, <2>1, <3>1 DEF Covers
  <2> QED
    BY <2>1, <2>2 DEF Fresh, Progress, ReadyCovered, DoneByRows, Preparing
<1>7. CASE Commit(r)
  BY <1>7, CommitBinding
<1>8. CASE \/ Deny(r) \/ Reject(r) \/ Committed(r) \/ Undo(r) \/ Undone(r) \/ Cleanup(r) \/ CleanedUp(r)
           \/ Answer(r) \/ Release(r) \/ Delete(r)
  <2>1. pc'[r] \in {"cleanup", "undo", "answer", "delete", "done"}
    BY <1>0, <1>8 DEF Deny, Reject, Committed, Undo, Undone, Cleanup, CleanedUp, Answer, Release, Delete,
       Goto, BaseInv, TypeInv, ControlOK
  <2> QED
    BY <2>1 DEF Fresh, Progress, ReadyCovered, DoneByRows, CommitCovered, Preparing
<1> QED
  BY <1>1, <1>2, <1>3, <1>4, <1>5, <1>6, <1>7, <1>8 DEF SetStep

LEMMA BindingInit ==
    ASSUME Init
    PROVE  BindingInv
BY DEF Init, BindingInv, BindingOK, Fresh, Progress, ReadyCovered, DoneByRows, CommitCovered, Preparing, Requests

LEMMA BaseInit ==
    ASSUME Init
    PROVE  BaseInv
BY LockInit, TypeInit DEF BaseInv

LEMMA BaseNext ==
    ASSUME SeparateListeners, BaseInv, [Next]_vars
    PROVE  BaseInv'
BY LockNext, TypeNext DEF BaseInv

\* A step is one of a SET, or it leaves every SET and all objects alone.
LEMMA StepCases ==
    ASSUME BaseInv, [Next]_vars
    PROVE  \/ \E r \in Setters : /\ SetStep(r)
                                 /\ \A s \in Setters : s # r => Same(s) /\ Safe(s)
           \/ /\ UNCHANGED <<value, undo, deleteRows>>
              /\ \A s \in Setters : Same(s) /\ Safe(s)
<1>1. CASE \E r \in Setters : SetStep(r)
  BY <1>1, OthersSame, OthersSafe DEF BaseInv
<1>2. CASE \E g \in Getters : GetStep(g)
  BY <1>2, GetQuiet DEF BaseInv
<1>3. CASE UNCHANGED vars
  BY <1>3, StutterQuiet
<1> QED
  BY <1>1, <1>2, <1>3 DEF Next, Terminated

LEMMA BindingNext ==
    ASSUME BaseInv, BindingInv, [Next]_vars
    PROVE  BindingInv'
BY StepCases, BindingStep, BindingFrame DEF BindingInv

\* The commit phase finds a locked entry for every binding that is not done yet,
\* if PDUs name the status of a row once: what check_creation covered is done by
\* MibTable::set_value before its turn comes.
THEOREM CommitFindsEntries ==
    SeparateListeners /\ StatusOnce => (Spec => []CommitFindsEntry)
<1> SUFFICES ASSUME SeparateListeners, StatusOnce PROVE Spec => []CommitFindsEntry
  OBVIOUS
<1>1. Init => BaseInv /\ BindingInv
  BY BaseInit, BindingInit
<1>2. BaseInv /\ BindingInv /\ [Next]_vars => BaseInv' /\ BindingInv'
  BY BaseNext, BindingNext
<1>3. BaseInv /\ BindingInv => CommitFindsEntry
  <2> SUFFICES ASSUME BaseInv, BindingInv, NEW r \in Setters, pc[r] = "commit", InPdu(r),
                      idx[r] \notin done[r], locks[r][idx[r]] = NoEntry
               PROVE  FALSE
    BY DEF CommitFindsEntry
  <2>1. idx[r] \in DOMAIN pdu[r] /\ DOMAIN pdu[r] \subseteq 1..MaxVbs /\ idx[r] \in 1..(MaxVbs + 1)
        /\ MaxVbs \in Nat
    BY Bindings DEF BaseInv
  <2>2. idx[r] <= idx[r]
    BY <2>1
  <2>3. PICK i \in 1..MaxVbs : Covers(r, i, idx[r]) /\ idx[r] <= i
    BY <2>1, <2>2 DEF BindingInv, BindingOK, CommitCovered
  <2> QED
    BY <2>1, <2>3 DEF Covers
<1> QED
  BY <1>1, <1>2, <1>3, PTL DEF Spec

-----------------------------------------------------------------------------
(* The locks are given back before the answer.                             *)

\* What a step leaves of the locks of its request.
LEMMA PassFrame ==
    ASSUME NEW s \in Setters, Same(s), LocksFirst(s), LocksPassed(s)
    PROVE  LocksFirst(s)' /\ LocksPassed(s)'
BY DEF Same, LocksFirst, LocksPassed, Preparing

\* The first binding without a lock has none behind it that is locked.
LEMMA PreparedLocks ==
    ASSUME BaseInv, NEW r \in Setters, BindingOK(r), LocksFirst(r), Preparing(r),
           NEW j \in 1..MaxVbs, NEW k \in 1..MaxVbs, j < k, locks[r][j] = NoEntry, j # idx[r]
    PROVE  locks[r][k] = NoEntry /\ (pc[r] = "prepare" \/ k # idx[r] \/ idx[r] <= j)
<1>1. /\ DOMAIN pdu[r] = 1..Len(pdu[r]) /\ DOMAIN pdu[r] \subseteq 1..MaxVbs
      /\ Len(pdu[r]) \in Nat /\ idx[r] \in 1..(MaxVbs + 1) /\ MaxVbs \in Nat
  BY Bindings DEF BaseInv
<1>2. CASE j < idx[r] /\ j \in DOMAIN pdu[r]
  <2>1. j \in ready[r]
    BY <1>2 DEF BindingOK, Progress
  <2>2. CASE k \in DOMAIN pdu[r]
    <3>1. k \in ready[r] /\ locks[r][k] = NoEntry
      BY <2>1, <2>2 DEF LocksFirst
    <3>2. pc[r] = "lock" => k # idx[r]
      BY <3>1 DEF BindingOK, Progress
    <3> QED
      BY <3>1, <3>2 DEF Preparing
  <2>3. CASE k \notin DOMAIN pdu[r]
    <3>1. locks[r][k] = NoEntry
      BY <2>3 DEF BaseInv, LockInv, LocksNamed
    <3>2. pc[r] = "lock" => InPdu(r)
      BY <1>1 DEF BaseInv, TypeInv, AtBinding, Requests
    <3>3. pc[r] = "lock" => idx[r] \in DOMAIN pdu[r]
      BY <1>1, <3>2 DEF InPdu
    <3> QED
      BY <2>3, <3>1, <3>3 DEF Preparing
  <2> QED
    BY <2>2, <2>3
<1>3. CASE j >= idx[r]
  <2>1. ~(k < idx[r])
    BY <1>1, <1>3
  <2>2. locks[r][k] = NoEntry
    BY <2>1 DEF BindingOK, Progress
  <2> QED
    BY <1>1, <1>3, <2>2
<1>4. CASE j < idx[r] /\ j \notin DOMAIN pdu[r]
  <2>1. k \notin DOMAIN pdu[r] /\ ~InPdu(r)
    BY <1>1, <1>4 DEF InPdu
  <2>2. locks[r][k] = NoEntry
    BY <2>1 DEF BaseInv, LockInv, LocksNamed
  <2>3. pc[r] # "lock"
    BY <2>1 DEF BaseInv, TypeInv, AtBinding, Requests
  <2> QED
    BY <2>2, <2>3 DEF Preparing
<1> QED
  BY <1>1, <1>2, <1>3, <1>4

LEMMA AcceptPass ==
    ASSUME NoGaps, BaseInv, NEW r \in Setters, BindingOK(r), LocksFirst(r), Accept(r)
    PROVE  LocksFirst(r)' /\ LocksPassed(r)'
<1> DEFINE p == pdu[r]
           i == idx[r]
           x == p[i].inst
           C == Covered(p, i, value)
<1>1. /\ r \in Requests /\ DOMAIN p = 1..Len(p) /\ DOMAIN p \subseteq 1..MaxVbs /\ Len(p) \in Nat
      /\ i \in DOMAIN p /\ i \in Nat /\ p \in SetPdus /\ EntryOf(x) # NoEntry
  <2>1. InPdu(r) /\ r \in Requests
    BY DEF Accept, Locked, BaseInv, TypeInv, AtBinding, Requests
  <2> QED
    BY <2>1, Bindings, InstanceProperties, TransactionAssumption DEF BaseInv, TransactionAssumption
<1>2. /\ pc[r] = "lock" /\ pc'[r] = "prepare" /\ pdu' = pdu
      /\ locks'[r] = [locks[r] EXCEPT ![i] = EntryOf(x)]
      /\ ready'[r] = (ready[r] \union C) \ {i}
      /\ MayPrepare(p, i, value, deleteRows)
  BY <1>1 DEF Accept, Locked, Current, BaseInv, TypeInv, ControlOK, SetOK
<1>3. /\ \A j \in 1..MaxVbs : locks'[r][j] = IF j = i THEN EntryOf(x) ELSE locks[r][j]
      /\ C \subseteq DOMAIN p
  BY <1>1, <1>2 DEF BaseInv, TypeInv, ControlOK, Covered, NamingRow
<1>4. /\ \A j \in DOMAIN p : j < i => locks[r][j] # NoEntry \/ j \in ready[r]
      /\ \A j \in 1..MaxVbs : locks[r][j] # NoEntry => j < i
      /\ i \notin ready[r] /\ ready[r] \subseteq DOMAIN p
  BY <1>2 DEF BindingOK, Progress, Preparing
<1>5. LocksFirst(r)'
  <2> SUFFICES ASSUME NEW j \in ready'[r], NEW k \in DOMAIN p, j < k, locks'[r][j] = NoEntry
               PROVE  k \in ready'[r] /\ locks'[r][k] = NoEntry
    BY <1>2 DEF LocksFirst, Preparing
  <2>1. j # i /\ j \in DOMAIN p /\ locks[r][j] = NoEntry /\ (j \in ready[r] \/ j \in C)
        /\ j \in 1..MaxVbs /\ k \in 1..MaxVbs
    BY <1>1, <1>2, <1>3, <1>4
  <2>2. CASE j \in ready[r]
    <3>1. k \in ready[r] /\ locks[r][k] = NoEntry
      BY <1>2, <2>1, <2>2 DEF LocksFirst, Preparing
    <3> QED
      BY <1>2, <1>3, <1>4, <2>1, <3>1
  <2>3. CASE j \in C /\ j \notin ready[r]
    <3>1. i < j
      <4>1. ~(j < i)
        BY <1>4, <2>1, <2>3
      <4> QED
        BY <4>1, <1>1, <2>1
    <3>2. RowMissing(x, value)
      BY <2>3 DEF Covered
    <3>3. InRow(x, p[j].inst) /\ InRow(p[j].inst, x)
      BY <2>3, <3>2 DEF Covered, NamingRow, InRow
    <3>4. MayCreate(p, x)
      BY <1>2, <3>2 DEF MayPrepare, RowMissing
    <3>5. InRow(p[k].inst, p[j].inst)
      BY <1>1, <2>1, <3>1, <3>3, <3>4 DEF NoGaps
    <3>6. k \in C
      BY <3>2, <3>3, <3>5 DEF Covered, NamingRow, InRow
    <3>7. ~(k < i) /\ k # i
      BY <1>1, <2>1, <3>1
    <3>8. locks[r][k] = NoEntry
      BY <1>4, <2>1, <3>7
    <3> QED
      BY <1>2, <1>3, <2>1, <3>6, <3>7, <3>8
  <2> QED
    BY <2>1, <2>2, <2>3
<1>6. LocksPassed(r)'
  BY <1>2 DEF LocksPassed
<1> QED
  BY <1>5, <1>6

\* set_unlocked(i) forgets the lock of binding i and no other.
LEMMA UnlockForgets ==
    ASSUME BaseInv, NEW r \in Setters, NEW i \in 1..MaxVbs, Unlock(r, i)
    PROVE  \A j \in 1..MaxVbs : locks'[r][j] = IF j = i THEN NoEntry ELSE locks[r][j]
BY DEF Unlock, BaseInv, TypeInv, ControlOK

LEMMA PassStep ==
    ASSUME NoGaps, BaseInv, NEW r \in Setters, BindingOK(r), LocksFirst(r), LocksPassed(r), SetStep(r)
    PROVE  LocksFirst(r)' /\ LocksPassed(r)'
<1>0. /\ r \in Requests /\ DOMAIN pdu[r] = 1..Len(pdu[r]) /\ DOMAIN pdu[r] \subseteq 1..MaxVbs
      /\ Len(pdu[r]) \in Nat /\ idx[r] \in 1..(MaxVbs + 1) /\ MaxVbs \in Nat
      /\ (InPdu(r) => idx[r] \in DOMAIN pdu[r])
      /\ (~InPdu(r) => \A i \in DOMAIN pdu[r] : i < idx[r])
      /\ \A i \in 1..MaxVbs : i \notin DOMAIN pdu[r] => locks[r][i] = NoEntry
  BY Bindings DEF BaseInv, LockInv, LocksNamed
<1> USE DEF BaseInv, TypeInv, ControlOK, SetOK
<1>1. CASE StartSet(r)
  <2>1. pc'[r] = "prepare" /\ ready'[r] = {}
    BY <1>0, <1>1 DEF StartSet, Goto, setRequest, BindingOK, Fresh
  <2> QED
    BY <2>1 DEF LocksFirst, LocksPassed
<1>2. CASE SkipReady(r) \/ FindEntry(r) \/ Lock(r)
  <2>1. Preparing(r) /\ Preparing(r)' /\ pdu' = pdu /\ locks' = locks /\ ready' = ready
    BY <1>0, <1>2 DEF SkipReady, FindEntry, Lock, NextVb, setRequest, request, Preparing
  <2> QED
    BY <2>1 DEF LocksFirst, LocksPassed, Preparing
<1>3. CASE Accept(r)
  BY <1>3, AcceptPass
<1>4. CASE Deny(r)
  <2>1. pc[r] = "prepare" /\ pc'[r] = "cleanup" /\ idx'[r] = 1 /\ locks' = locks /\ Preparing(r)
    BY <1>0, <1>4 DEF Deny, Goto, Preparing
  <2>2. ASSUME NEW j \in 1..MaxVbs, NEW k \in 1..MaxVbs, j < k, locks[r][j] = NoEntry
        PROVE  locks[r][k] = NoEntry
    <3>1. CASE j # idx[r]
      BY <2>1, <2>2, <3>1, PreparedLocks
    <3>2. CASE j = idx[r]
      <4>1. ~(k < idx[r])
        BY <1>0, <2>2, <3>2
      <4> QED
        BY <2>1, <4>1 DEF BindingOK, Progress
    <3> QED
      BY <3>1, <3>2
  <2> QED
    BY <2>1, <2>2 DEF LocksFirst, LocksPassed, Preparing
<1>5. CASE Reject(r)
  <2>1. /\ pc[r] = "lock" /\ pc'[r] = "cleanup" /\ idx'[r] = 1 /\ Preparing(r) /\ InPdu(r)
        /\ locks'[r] = [locks[r] EXCEPT ![idx[r]] = EntryOf(Current(r))]
    BY <1>0, <1>5 DEF Reject, Locked, Goto, Preparing, AtBinding
  <2>2. EntryOf(Current(r)) # NoEntry /\ idx[r] \in 1..MaxVbs
    BY <1>0, <2>1, CurrentBinding, TransactionAssumption DEF TransactionAssumption
  <2>3. \A j \in 1..MaxVbs : locks'[r][j] = IF j = idx[r] THEN EntryOf(Current(r)) ELSE locks[r][j]
    BY <2>1, <2>2
  <2>4. ASSUME NEW j \in 1..MaxVbs, NEW k \in 1..MaxVbs, j < k, locks'[r][j] = NoEntry
        PROVE  locks'[r][k] = NoEntry
    <3>1. j # idx[r] /\ locks[r][j] = NoEntry
      BY <2>2, <2>3, <2>4
    <3>2. locks[r][k] = NoEntry /\ (k # idx[r] \/ idx[r] <= j)
      BY <2>1, <2>4, <3>1, PreparedLocks
    <3>3. k # idx[r]
      BY <1>0, <2>4, <3>1, <3>2
    <3> QED
      BY <2>3, <3>2, <3>3
  <2> QED
    BY <2>1, <2>4 DEF LocksFirst, LocksPassed, Preparing
<1>6. CASE Prepared(r)
  <2>1. pc[r] = "prepare" /\ pc'[r] = "commit" /\ locks' = locks /\ Preparing(r) /\ ~InPdu(r)
    BY <1>0, <1>6 DEF Prepared, Goto, setRequest, Preparing
  <2>2. ASSUME NEW j \in 1..MaxVbs, NEW k \in 1..MaxVbs, j < k, locks[r][j] = NoEntry
        PROVE  locks[r][k] = NoEntry
    <3>1. CASE j # idx[r]
      BY <2>1, <2>2, <3>1, PreparedLocks
    <3>2. CASE j = idx[r]
      <4>1. ~(k < idx[r])
        BY <1>0, <2>2, <3>2
      <4> QED
        BY <2>1, <4>1 DEF BindingOK, Progress
    <3> QED
      BY <3>1, <3>2
  <2> QED
    BY <2>1, <2>2 DEF LocksFirst, LocksPassed, Preparing
<1>7. CASE SkipDone(r)
  <2>1. pc[r] = "commit" /\ pc'[r] = "commit" /\ locks' = locks
    BY <1>0, <1>7 DEF SkipDone, setRequest
  <2> QED
    BY <2>1 DEF LocksFirst, LocksPassed, Preparing
<1>8. CASE Commit(r)
  <2>1. pc[r] = "commit" /\ locks' = locks
        /\ (pc'[r] = "commit" \/ (pc'[r] = "undo" /\ idx'[r] = 1))
    BY <1>0, <1>8 DEF Commit, Goto
  <2>2. CASE pc'[r] = "commit"
    BY <2>1, <2>2 DEF LocksFirst, LocksPassed, Preparing
  <2>3. CASE pc'[r] = "undo" /\ idx'[r] = 1
    <3>1. \A j \in 1..MaxVbs : ~(j < 1)
      BY <1>0
    <3> QED
      BY <2>3, <3>1 DEF LocksFirst, LocksPassed, Preparing
  <2> QED
    BY <2>1, <2>2, <2>3
<1>9. CASE Committed(r)
  <2>1. pc[r] = "commit" /\ pc'[r] = "cleanup" /\ idx'[r] = 1 /\ locks' = locks
    BY <1>0, <1>9 DEF Committed, Goto, setRequest
  <2>2. \A j \in 1..MaxVbs : ~(j < 1)
    BY <1>0
  <2>3. \A j, k \in 1..MaxVbs : j < k /\ locks[r][j] = NoEntry => locks[r][k] = NoEntry
    BY <2>1 DEF LocksFirst
  <2>4. LocksFirst(r)'
    BY <2>1, <2>3 DEF LocksFirst, Preparing
  <2>5. LocksPassed(r)'
    BY <2>1, <2>2 DEF LocksPassed
  <2> QED
    BY <2>4, <2>5
<1>10. CASE Undo(r)
  <2>1. pc[r] = "undo" /\ pc'[r] = "undo" /\ idx'[r] = idx[r] + 1 /\ idx[r] \in 1..MaxVbs
    BY <1>0, <1>10 DEF Undo, NextVb
  <2>2. \A j \in 1..MaxVbs : locks'[r][j] = IF j = idx[r] THEN NoEntry ELSE locks[r][j]
    <3>1. CASE locks[r][idx[r]] = NoEntry
      BY <1>10, <3>1 DEF Undo
    <3>2. CASE locks[r][idx[r]] # NoEntry
      BY <1>10, <2>1, <3>2, UnlockForgets DEF Undo
    <3> QED
      BY <3>1, <3>2
  <2>3. \A j \in 1..MaxVbs : j < idx[r] + 1 => j < idx[r] \/ j = idx[r]
    BY <1>0
  <2> QED
    BY <2>1, <2>2, <2>3 DEF LocksFirst, LocksPassed, Preparing
<1>11. CASE Cleanup(r)
  <2>1. pc[r] = "cleanup" /\ pc'[r] = "cleanup" /\ idx'[r] = idx[r] + 1 /\ idx[r] \in 1..MaxVbs
    BY <1>0, <1>11 DEF Cleanup, NextVb
  <2>2. \A j \in 1..MaxVbs : locks'[r][j] = IF j = idx[r] THEN NoEntry ELSE locks[r][j]
    BY <1>11, <2>1, UnlockForgets DEF Cleanup
  <2>3. \A j \in 1..MaxVbs : (j < idx[r] + 1 => j < idx[r] \/ j = idx[r])
                             /\ (idx[r] + 1 <= j => idx[r] <= j /\ j # idx[r])
    BY <1>0
  <2>4. LocksPassed(r)'
    BY <2>1, <2>2, <2>3 DEF LocksPassed
  <2>5. ASSUME NEW j \in 1..MaxVbs, NEW k \in 1..MaxVbs, idx[r] + 1 <= j, j < k, locks'[r][j] = NoEntry
        PROVE  locks'[r][k] = NoEntry
    <3>1. idx[r] <= j /\ locks[r][j] = NoEntry
      BY <2>2, <2>3, <2>5
    <3>2. locks[r][k] = NoEntry
      BY <2>1, <2>5, <3>1 DEF LocksFirst
    <3> QED
      BY <2>2, <3>2
  <2>6. LocksFirst(r)'
    BY <2>1, <2>5 DEF LocksFirst, Preparing
  <2> QED
    BY <2>4, <2>6
<1>12. CASE Undone(r) \/ CleanedUp(r)
  <2>1. pc'[r] = "answer" /\ locks' = locks
    BY <1>0, <1>12 DEF Undone, CleanedUp, Goto, setRequest
  <2>2. \A j \in 1..MaxVbs : locks[r][j] = NoEntry
    <3>1. CASE ~InPdu(r)
      BY <1>0, <1>12, <3>1 DEF Undone, CleanedUp, LocksPassed
    <3>2. CASE InPdu(r)
      <4>1. pc[r] = "cleanup" /\ locks[r][idx[r]] = NoEntry /\ idx[r] \in 1..MaxVbs
        BY <1>0, <1>12, <3>2 DEF Undone, CleanedUp
      <4>2. \A j \in 1..MaxVbs : j < idx[r] \/ j = idx[r] \/ idx[r] < j
        BY <1>0
      <4>3. idx[r] <= idx[r]
        BY <1>0
      <4> QED
        BY <4>1, <4>2, <4>3 DEF LocksPassed, LocksFirst
    <3> QED
      BY <3>1, <3>2
  <2> QED
    BY <2>1, <2>2 DEF LocksFirst, LocksPassed, Preparing
<1>13. CASE Answer(r) \/ Delete(r)
  <2>1. pc[r] \in {"answer", "delete"} /\ pc'[r] \in {"delete", "done"} /\ locks' = locks
    BY <1>0, <1>13 DEF Answer, Delete, Goto, setRequest
  <2> QED
    BY <2>1 DEF LocksFirst, LocksPassed, Preparing
<1>14. CASE Release(r)
  <2>1. pc[r] = "delete" /\ pc'[r] = "delete" /\ idx[r] \in 1..MaxVbs
    BY <1>0, <1>14 DEF Release
  <2>2. \A j \in 1..MaxVbs : locks'[r][j] = IF j = idx[r] THEN NoEntry ELSE locks[r][j]
    BY <1>14, <2>1, UnlockForgets DEF Release
  <2> QED
    BY <2>1, <2>2 DEF LocksFirst, LocksPassed, Preparing
<1> QED
  BY <1>1, <1>2, <1>3, <1>4, <1>5, <1>6, <1>7, <1>8, <1>9, <1>10, <1>11, <1>12, <1>13, <1>14 DEF SetStep

\* A SET goes through the phases of a SET.
PhaseInv == \A r \in Setters : pc[r] \in Phases

LEMMA PhaseStep ==
    ASSUME BaseInv, NEW r \in Setters, pc[r] \in Phases, SetStep(r)
    PROVE  pc'[r] \in Phases
<1>1. pc \in [Requests -> Phases \union ReadPhases] /\ r \in Requests
  BY DEF BaseInv, TypeInv, ControlOK, Requests
<1>2. CASE \E ph \in Phases : Goto(r, ph)
  BY <1>1, <1>2 DEF Goto
<1>3. CASE pc' = pc \/ pc' = [pc EXCEPT ![r] = "lock"] \/ pc' = [pc EXCEPT ![r] = "prepare"]
  BY <1>1, <1>3 DEF Phases
<1> QED
  BY <1>2, <1>3 DEF SetStep, StartSet, SkipReady, Deny, FindEntry, Lock, Accept, Reject, Prepared, SkipDone,
     Commit, Committed, Undo, Undone, Cleanup, CleanedUp, Answer, Release, Delete, Phases, request

\* The invariant of the theorems that follow.
SetInv == BaseInv /\ BindingInv /\ PassInv /\ PhaseInv

LEMMA SetInvInit ==
    ASSUME Init
    PROVE  SetInv
<1>1. PassInv
  BY DEF Init, PassInv, LocksFirst, LocksPassed, Preparing, Requests
<1>2. PhaseInv
  BY DEF Init, PhaseInv, Phases, Requests
<1> QED
  BY <1>1, <1>2, BaseInit, BindingInit DEF SetInv

LEMMA SetInvNext ==
    ASSUME SeparateListeners, NoGaps, SetInv, [Next]_vars
    PROVE  SetInv'
<1>1. PassInv'
  BY StepCases, PassStep, PassFrame DEF SetInv, PassInv, BindingInv
<1>2. PhaseInv'
  BY StepCases, PhaseStep DEF SetInv, PhaseInv, Same
<1> QED
  BY <1>1, <1>2, BaseNext, BindingNext DEF SetInv

LEMMA SetInvHolds == SeparateListeners /\ NoGaps => (Spec => []SetInv)
<1> SUFFICES ASSUME SeparateListeners, NoGaps PROVE Spec => []SetInv
  OBVIOUS
<1>1. Init => SetInv
  BY SetInvInit
<1>2. SetInv /\ [Next]_vars => SetInv'
  BY SetInvNext
<1> QED
  BY <1>1, <1>2, PTL DEF Spec

\* The cleanup and undo phases have given back every lock of a request before it
\* is answered, in spite of the cleanup that stops at the first binding without one.
THEOREM UnlockedBeforeAnswer ==
    SeparateListeners /\ NoGaps => (Spec => []UnlockedWhenAnswered)
<1>1. SetInv => UnlockedWhenAnswered
  BY DEF SetInv, PassInv, LocksPassed, UnlockedWhenAnswered
<1> QED
  BY <1>1, SetInvHolds, PTL

-----------------------------------------------------------------------------
(* Rows are marked for deletion while their table is locked.               *)

\* What accepting or rejecting a binding does to the locks.
LEMMA LockedBinding ==
    ASSUME BaseInv, NEW r \in Setters, BindingOK(r), Locked(r)
    PROVE  /\ r \in Requests /\ InPdu(r) /\ idx[r] \in DOMAIN pdu[r] /\ idx[r] \in 1..MaxVbs
           /\ Current(r) = pdu[r][idx[r]].inst /\ Current(r) \in Instances
           /\ locks[r][idx[r]] = NoEntry
           /\ \A j \in 1..MaxVbs : locks'[r][j] = IF j = idx[r] THEN EntryOf(Current(r)) ELSE locks[r][j]
           /\ \A s \in Setters : s # r => locks'[s] = locks[s]
<1>1. r \in Requests /\ InPdu(r) /\ pc[r] = "lock"
  BY DEF Locked, BaseInv, TypeInv, AtBinding, Requests
<1>2. idx[r] \in DOMAIN pdu[r] /\ idx[r] \in 1..MaxVbs /\ Current(r) \in Instances
  BY <1>1, CurrentBinding DEF BaseInv, TypeInv
<1>3. ~(idx[r] < idx[r])
  BY <1>2
<1>4. locks[r][idx[r]] = NoEntry
  BY <1>1, <1>2, <1>3 DEF BindingOK, Progress, Preparing
<1>5. /\ \A j \in 1..MaxVbs : locks'[r][j] = IF j = idx[r] THEN EntryOf(Current(r)) ELSE locks[r][j]
      /\ \A s \in Setters : s # r => locks'[s] = locks[s]
  BY <1>2 DEF Locked, BaseInv, TypeInv, ControlOK
<1> QED
  BY <1>1, <1>2, <1>4, <1>5 DEF Current

\* Recording the lock of a binding takes none away.
LEMMA LocksGrow ==
    ASSUME BaseInv, NEW r \in Setters, BindingOK(r), Locked(r), NEW s \in Setters,
           NEW e, e # NoEntry, Locks(s, e)
    PROVE  Locks(s, e)'
BY LockedBinding DEF Locks

\* Forgetting the lock of a binding leaves those of other entries, and of others.
LEMMA LocksShrink ==
    ASSUME BaseInv, NEW r \in Setters, NEW i \in 1..MaxVbs, Unlock(r, i), NEW s \in Setters,
           NEW e, Locks(s, e), s # r \/ e # locks[r][i]
    PROVE  Locks(s, e)'
<1>1. CASE s = r
  BY <1>1, UnlockForgets DEF Locks
<1>2. CASE s # r
  <2>1. locks'[s] = locks[s]
    BY <1>2 DEF Unlock, BaseInv, TypeInv, ControlOK
  <2> QED
    BY <2>1 DEF Locks
<1> QED
  BY <1>1, <1>2

LEMMA MarksStep ==
    ASSUME SetInv, NEW r \in Setters, SetStep(r), MarksLocked
    PROVE  MarksLocked'
<1> SUFFICES ASSUME NEW k \in deleteRows'
             PROVE  \E s \in Setters : Locks(s, k[1])'
  BY DEF MarksLocked
<1>0. BaseInv /\ BindingOK(r) /\ LocksPassed(r) /\ \A e \in deleteRows : e[1] \in Entries /\ e[1] # NoEntry
  BY TransactionAssumption DEF SetInv, BindingInv, PassInv, BaseInv, TypeInv, RowsOK, TransactionAssumption, Entries
<1>1. CASE Accept(r) \/ Reject(r)
  <2>1. Locked(r) /\ (k \in deleteRows \/ k = RowOf(Current(r)))
    BY <1>1 DEF Accept, Reject
  <2>2. CASE k \in deleteRows
    <3>1. PICK s \in Setters : Locks(s, k[1])
      BY <2>2 DEF MarksLocked
    <3> QED
      BY <1>0, <2>1, <2>2, <3>1, LocksGrow
  <2>3. CASE k = RowOf(Current(r))
    <3>1. k[1] = EntryOf(Current(r))
      BY <2>3 DEF RowOf, EntryOf
    <3> QED
      BY <1>0, <2>1, <3>1, LockedBinding DEF Locks
  <2> QED
    BY <2>1, <2>2, <2>3
<1>2. CASE Commit(r)
  <2>1. k \in deleteRows /\ locks' = locks
    BY <1>2 DEF Commit
  <2> QED
    BY <2>1 DEF MarksLocked, Locks
<1>3. CASE (Undo(r) \/ Cleanup(r)) /\ locks[r][idx[r]] # NoEntry
  <2>1. /\ idx[r] \in 1..MaxVbs /\ Unlock(r, idx[r]) /\ deleteRows' = Cleared(deleteRows, Current(r))
        /\ locks[r][idx[r]] = EntryOf(Current(r))
    BY <1>0, <1>3, CurrentLocked DEF Undo, Cleanup
  <2>2. k \in deleteRows /\ k[1] # locks[r][idx[r]]
    BY <2>1 DEF Cleared
  <2>3. PICK s \in Setters : Locks(s, k[1])
    BY <2>2 DEF MarksLocked
  <2> QED
    BY <1>0, <2>1, <2>2, <2>3, LocksShrink
<1>4. CASE Release(r)
  <2>1. pc[r] = "delete" /\ Unlock(r, idx[r]) /\ deleteRows' = deleteRows /\ idx[r] \in 1..MaxVbs
    <3>1. pc[r] = "delete" /\ InPdu(r) /\ Unlock(r, idx[r]) /\ deleteRows' = deleteRows
      BY <1>4 DEF Release, objects
    <3> QED
      BY <1>0, <3>1, Bindings DEF BaseInv
  <2>2. PICK s \in Setters : Locks(s, k[1])
    BY <2>1 DEF MarksLocked
  <2>3. s # r
    BY <1>0, <2>1, <2>2 DEF LocksPassed, Locks
  <2> QED
    BY <1>0, <2>1, <2>2, <2>3, LocksShrink
<1>5. CASE Undo(r) /\ locks[r][idx[r]] = NoEntry
  <2>1. deleteRows' = deleteRows /\ locks' = locks
    BY <1>5 DEF Undo, objects
  <2> QED
    BY <2>1 DEF MarksLocked, Locks
<1>6. CASE \/ StartSet(r) \/ SkipReady(r) \/ Deny(r) \/ FindEntry(r) \/ Lock(r) \/ Prepared(r) \/ SkipDone(r)
           \/ Committed(r) \/ Undone(r) \/ CleanedUp(r) \/ Answer(r) \/ Delete(r)
  <2>1. deleteRows' = deleteRows /\ locks' = locks
    BY <1>6 DEF StartSet, SkipReady, Deny, FindEntry, Lock, Prepared, SkipDone, Committed, Undone,
       CleanedUp, Answer, Delete, setRequest, objects
  <2> QED
    BY <2>1 DEF MarksLocked, Locks
<1>7. Cleanup(r) => locks[r][idx[r]] # NoEntry
  BY DEF Cleanup
<1> QED
  BY <1>1, <1>2, <1>3, <1>4, <1>5, <1>6, <1>7 DEF SetStep

\* An entry that a SET has recorded is its own until the answer.
LEMMA LocksOwned ==
    ASSUME SetInv, NEW s \in Setters, NEW e, e # NoEntry, Locks(s, e)
    PROVE  owner[e] = s /\ pc[s] \in {"prepare", "lock", "commit", "undo", "cleanup"}
<1>1. PICK i \in 1..MaxVbs : locks[s][i] = e
  BY DEF Locks
<1>2. owner[e] = s
  BY <1>1 DEF SetInv, BaseInv, LockInv, FamilyHeld, Family
<1>3. pc[s] \in Phases /\ pc[s] \notin {"start", "answer", "delete", "done"}
  BY <1>1 DEF SetInv, PassInv, PhaseInv, LocksPassed
<1> QED
  BY <1>2, <1>3 DEF Phases

\* A row stays on delete_rows no longer than the SET that destroys it has its
\* table locked, whether it is committed, undone, denied or rejected.
THEOREM MarkedRowsAreOwned ==
    SeparateListeners /\ NoGaps => (Spec => []MarkedRowsOwned)
<1> SUFFICES ASSUME SeparateListeners, NoGaps PROVE Spec => []MarkedRowsOwned
  OBVIOUS
<1>1. Init => SetInv /\ MarksLocked
  BY SetInvInit DEF Init, MarksLocked
<1>2. SetInv /\ MarksLocked /\ [Next]_vars => SetInv' /\ MarksLocked'
  <2> SUFFICES ASSUME SetInv, MarksLocked, [Next]_vars PROVE MarksLocked'
    BY SetInvNext
  <2>1. CASE \E r \in Setters : SetStep(r)
    BY <2>1, MarksStep
  <2>2. CASE UNCHANGED <<value, undo, deleteRows>> /\ \A s \in Setters : Same(s) /\ Safe(s)
    BY <2>2 DEF MarksLocked, Same, Locks
  <2> QED
    BY <2>1, <2>2, StepCases DEF SetInv
<1>3. SetInv /\ MarksLocked => MarkedRowsOwned
  <2> SUFFICES ASSUME SetInv, MarksLocked, NEW k \in deleteRows
               PROVE  \E r \in Setters : owner[k[1]] = r
                                         /\ pc[r] \in {"prepare", "lock", "commit", "undo", "cleanup"}
    BY DEF MarkedRowsOwned
  <2>1. PICK r \in Setters : Locks(r, k[1])
    BY DEF MarksLocked
  <2>2. k[1] # NoEntry
    BY TransactionAssumption DEF SetInv, BaseInv, TypeInv, RowsOK, TransactionAssumption, Entries
  <2> QED
    BY <2>1, <2>2, LocksOwned
<1> QED
  BY <1>1, <1>2, <1>3, PTL DEF Spec

-----------------------------------------------------------------------------
(* Undo copies are forgotten before the locks are given back.              *)

\* Copies of a commit for p[i]: each is of an instance that had one before or that
\* the PDU names, and rows with copies are there.
CommitCopies(p, i, v, u, o) ==
    \A y \in Instances : o.undo[y] # NoUndo =>
      /\ u[y] # NoUndo \/ Naming(p, y) # {}
      /\ InTable(y) /\ (RowExists(y, v) \/ InRow(p[i].inst, y)) => RowExists(y, o.value)

\* What the row of the binding may be upgraded from.
Quiet(p, v) == (\E x \in Instances : v[x] = "notReady") => StatusNamed \/ NoUpgrade

\* The status of a row that is there stays something when a value is written.
LEMMA LeafCopies ==
    ASSUME NEW p \in Pdus, NEW i \in 1..Len(p), NEW v, NEW u, DataOK(v, u),
           ~IsStatus(p[i].inst), ~RowMissing(p[i].inst, v), NEW o \in CommitLeaf(p, i, v, u)
    PROVE  /\ CommitCopies(p, i, v, u, o)
           /\ \A y \in Instances : IsStatus(y) => o.value[y] = v[y]
<1> DEFINE x == p[i].inst
<1>1. x \in Instances /\ i \in Naming(p, x)
  BY PduProperties, VbProperties DEF Naming
<1>2. /\ \A y \in Instances : y # x => o.value[y] = v[y]
      /\ \A y \in Instances : y # x => o.undo[y] = u[y]
  BY <1>1 DEF CommitLeaf, Outcome, DataOK
<1>3. \A y \in Instances : InTable(y) => StatusOf(y) \in Instances /\ StatusOf(y) # x
  BY InstanceProperties DEF StatusOf, IsStatus
<1>4. \A y \in Instances : RowExists(y, v) <=> RowExists(y, o.value)
  BY <1>2, <1>3 DEF RowExists
<1>5. \A y \in Instances : InRow(x, y) /\ InTable(y) => RowExists(y, v)
  BY <1>1, SameEntry DEF RowMissing, RowExists
<1> QED
  BY <1>1, <1>2, <1>4, <1>5 DEF CommitCopies

LEMMA StatusCopies ==
    ASSUME NEW p \in Pdus, NEW i \in 1..Len(p), NEW v, NEW u, DataOK(v, u),
           IsStatus(p[i].inst), RowExists(p[i].inst, v), NEW o \in CommitStatus(p, i, v, u)
    PROVE  /\ CommitCopies(p, i, v, u, o)
           /\ \A y \in Instances : y # p[i].inst => o.value[y] = v[y]
<1> DEFINE x == p[i].inst
<1>1. x \in Instances /\ i \in Naming(p, x) /\ StatusAfter(p[i].val) # Absent /\ v[x] # Absent
  <2>1. x \in Instances /\ i \in Naming(p, x) /\ p[i].val \in RowRequests
    BY PduProperties, VbProperties DEF Naming
  <2>2. StatusAfter(p[i].val) # Absent
    BY <2>1, StatusAfterType DEF RowStates, Absent
  <2> QED
    BY <2>1, <2>2, InstanceProperties DEF RowExists
<1>2. /\ \A y \in Instances : y # x => o.value[y] = v[y]
      /\ \A y \in Instances : y # x => o.undo[y] = u[y]
      /\ o.value[x] = StatusAfter(p[i].val)
  BY <1>1 DEF CommitStatus, Outcome, DataOK
<1>3. \A y \in Instances : InTable(y) => (RowExists(y, v) <=> RowExists(y, o.value))
  BY <1>1, <1>2, InstanceProperties DEF RowExists
<1>4. \A y \in Instances : InRow(x, y) /\ InTable(y) => RowExists(y, v)
  BY <1>1, SameEntry DEF RowExists
<1> QED
  BY <1>1, <1>2, <1>3, <1>4 DEF CommitCopies

LEMMA RemoveCopies ==
    ASSUME NEW p \in Pdus, NEW i \in 1..Len(p), NEW v, NEW u, NEW o \in RemoveRow(p, i, v, u)
    PROVE  CommitCopies(p, i, v, u, o)
<1> DEFINE x == p[i].inst
<1>1. o = Outcome(TRUE, [y \in Instances |-> IF InRow(x, y) THEN Absent ELSE v[y]],
                        [y \in Instances |-> IF InRow(x, y) THEN NoUndo ELSE u[y]], {})
  BY DEF RemoveRow
<1>2. \A y \in Instances : o.undo[y] # NoUndo => ~InRow(x, y) /\ o.undo[y] = u[y]
  BY <1>1 DEF Outcome
<1>3. \A y \in Instances : InTable(y) /\ ~InRow(x, y) => o.value[StatusOf(y)] = v[StatusOf(y)]
  BY <1>1, InstanceProperties DEF Outcome, InRow, RowOf, StatusOf
<1> QED
  BY <1>2, <1>3 DEF CommitCopies, RowExists

\* A row that is added is there; what has a copy was named.
LEMMA AddCopies ==
    ASSUME NEW p \in Pdus, NEW i \in 1..Len(p), NEW v, NEW u, DataOK(v, u),
           \A y \in Instances : u[y] # NoUndo /\ InTable(y) => RowExists(y, v),
           NEW o \in AddRow(p, i, v, u)
    PROVE  CommitCopies(p, i, v, u, o)
<1> DEFINE x == p[i].inst
<1>1. CASE o = Outcome(FALSE, v, u, {})
  BY <1>1 DEF CommitCopies, Outcome
<1>2. CASE o # Outcome(FALSE, v, u, {})
  <2>1. o = Outcome(TRUE, [y \in Instances |-> IF InRow(x, y) THEN NewValue(p, y) ELSE v[y]],
                          [y \in Instances |-> IF InRow(x, y) THEN NewUndo(p, y) ELSE u[y]],
                          FinishedByAddRow(p, x))
    BY <1>2 DEF AddRow
  <2>2. \A y \in Instances : InRow(x, y) => o.undo[y] = NewUndo(p, y) /\ o.value[y] = NewValue(p, y)
    BY <2>1 DEF Outcome
  <2>3. \A y \in Instances : ~InRow(x, y) => o.undo[y] = u[y] /\ o.value[y] = v[y]
    BY <2>1 DEF Outcome
  <2>4. \A y \in Instances : NewUndo(p, y) # NoUndo => Naming(p, y) # {}
    BY DEF NewUndo
  <2>5. \A y \in Instances : InTable(y) /\ InRow(x, y) => RowExists(y, o.value)
    <3> SUFFICES ASSUME NEW y \in Instances, InTable(y), InRow(x, y) PROVE RowExists(y, o.value)
      OBVIOUS
    <3>1. StatusOf(y) \in Instances /\ InRow(x, StatusOf(y))
      BY InstanceProperties DEF InRow, RowOf, StatusOf
    <3>2. o.value[StatusOf(y)] # Absent
      BY <2>2, <3>1, NewRowType
    <3> QED
      BY <3>2 DEF RowExists
  <2>6. \A y \in Instances : InTable(y) /\ ~InRow(x, y) =>
          StatusOf(y) \in Instances /\ o.value[StatusOf(y)] = v[StatusOf(y)]
    <3> SUFFICES ASSUME NEW y \in Instances, InTable(y), ~InRow(x, y)
                 PROVE  StatusOf(y) \in Instances /\ o.value[StatusOf(y)] = v[StatusOf(y)]
      OBVIOUS
    <3>1. StatusOf(y) \in Instances /\ ~InRow(x, StatusOf(y))
      BY InstanceProperties DEF InRow, RowOf, StatusOf
    <3> QED
      BY <2>3, <3>1
  <2>7. \A y \in Instances : InTable(y) /\ ~InRow(x, y) => (RowExists(y, v) <=> RowExists(y, o.value))
    BY <2>6 DEF RowExists
  <2> QED
    BY <2>2, <2>3, <2>4, <2>5, <2>7 DEF CommitCopies
<1> QED
  BY <1>1, <1>2

LEMMA UpgradeCopies ==
    ASSUME NEW p \in Pdus, NEW i \in 1..Len(p), NEW v, NEW u, NEW c, OutcomeOK(c),
           InTable(p[i].inst), CommitCopies(p, i, v, u, c),
           c.value[StatusOf(p[i].inst)] = "notReady" => StatusVbs(p, p[i].inst) # {} \/ NoUpgrade,
           NEW o \in Upgrades(c, p[i].inst)
    PROVE  CommitCopies(p, i, v, u, o)
<1> DEFINE x == p[i].inst
           s == StatusOf(x)
<1>1. CASE o = c
  BY <1>1
<1>2. CASE o # c
  <2>1. /\ o = [c EXCEPT !.value[s] = "notInService", !.undo[s] = "notReady"]
        /\ c.value[s] = "notReady" /\ TRUE \in ServiceAnswers
    BY <1>2 DEF Upgrades
  <2>2. o = Outcome(c.ok, [c.value EXCEPT ![s] = "notInService"],
                          [c.undo EXCEPT ![s] = "notReady"], c.finished)
    BY <2>1 DEF OutcomeOK, Outcome
  <2>3. Naming(p, s) # {}
    BY <2>1 DEF NoUpgrade, StatusVbs
  <2>4. \A y \in Instances : /\ y # s => o.undo[y] = c.undo[y] /\ o.value[y] = c.value[y]
                             /\ o.value[y] = Absent => c.value[y] = Absent
    BY <2>1, <2>2 DEF Outcome, OutcomeOK, DataOK, Absent
  <2>5. \A y \in Instances : RowExists(y, c.value) => RowExists(y, o.value)
    BY <2>4, InstanceProperties DEF RowExists
  <2>6. \A y \in Instances : y = s /\ InTable(y) => RowExists(y, o.value)
    BY <2>2, InstanceProperties DEF RowExists, Outcome, OutcomeOK, DataOK, StatusOf, Absent
  <2>7. s \in Instances /\ InTable(s)
    BY PduProperties, VbProperties, InstanceProperties DEF StatusOf, InTable, EntryOf
  <2> QED
    BY <2>3, <2>4, <2>5, <2>6, <2>7 DEF CommitCopies
<1> QED
  BY <1>1, <1>2

\* Every commit.  An upgrade copies the status of the row without being asked to,
\* which is why a PDU that makes one must name it.
LEMMA CommitsCopies ==
    ASSUME NEW p \in SetPdus, p \in Pdus, NEW i \in 1..Len(p), NEW v, NEW u, DataOK(v, u),
           \A y \in Instances : u[y] # NoUndo /\ InTable(y) => RowExists(y, v),
           Quiet(p, v), NEW o \in Commits(p, i, v, u)
    PROVE  CommitCopies(p, i, v, u, o)
<1> DEFINE x == p[i].inst
           s == StatusOf(x)
<1>1. x \in Instances /\ i \in DOMAIN p
  BY PduProperties, VbProperties
<1>2. CASE ~InTable(x)
  BY <1>1, <1>2, LeafCopies, InstanceProperties DEF Commits, RowMissing
<1>3. CASE InTable(x)
  <2>0. s \in Instances /\ StatusOf(s) = s /\ IsStatus(s) /\ InRow(x, s)
    BY <1>1, <1>3, InstanceProperties DEF StatusOf, IsStatus, InRow, RowOf
  <2>1. PICK c \in CommitTable(p, i, v, u) : o \in Upgrades(c, x)
    BY <1>3 DEF Commits
  <2>2. v[s] = "notReady" => StatusVbs(p, x) # {} \/ NoUpgrade
    BY <1>1, <1>3, <2>0 DEF Quiet, StatusNamed
  <2>3. CommitCopies(p, i, v, u, c) /\ OutcomeOK(c)
        /\ (c.value[s] = "notReady" => StatusVbs(p, x) # {} \/ NoUpgrade)
    <3>1. CASE ~RowExists(x, v)
      <4>1. c \in AddRow(p, i, v, u)
        BY <2>1, <3>1 DEF CommitTable
      <4>2. c.value[s] = "notReady" => Naming(p, s) # {}
        <5>1. c.value[s] \in {NewValue(p, s), v[s]}
          BY <2>0, <4>1 DEF AddRow, Outcome
        <5>2. v[s] = Absent
          BY <1>3, <3>1 DEF RowExists
        <5> QED
          BY <2>0, <5>1, <5>2 DEF NewValue, Absent
      <4> QED
        BY <1>3, <4>1, <4>2, AddRowType, AddCopies DEF StatusVbs
    <3>2. CASE RowExists(x, v) /\ ~IsStatus(x)
      <4>1. c \in CommitLeaf(p, i, v, u) /\ ~RowMissing(x, v)
        BY <2>1, <3>2 DEF CommitTable, RowMissing
      <4> QED
        BY <2>0, <2>2, <3>2, <4>1, CommitLeafType, LeafCopies
    <3>3. CASE RowExists(x, v) /\ IsStatus(x) /\ p[i].val = "destroy"
      <4>1. c \in RemoveRow(p, i, v, u)
        BY <2>1, <3>3 DEF CommitTable
      <4>2. c.value[s] = Absent
        BY <2>0, <4>1 DEF RemoveRow, Outcome
      <4> QED
        BY <1>3, <4>1, <4>2, RemoveRowType, RemoveCopies DEF Absent
    <3>4. CASE RowExists(x, v) /\ IsStatus(x) /\ p[i].val # "destroy"
      <4>1. c \in CommitStatus(p, i, v, u)
        BY <2>1, <3>4 DEF CommitTable
      <4>2. x = s /\ i \in StatusVbs(p, x)
        BY <1>1, <3>4, InstanceProperties DEF StatusVbs, Naming
      <4> QED
        BY <3>4, <4>1, <4>2, CommitStatusType, StatusCopies
    <3> QED
      BY <3>1, <3>2, <3>3, <3>4
  <2> QED
    BY <1>3, <2>1, <2>3, UpgradeCopies
<1> QED
  BY <1>2, <1>3

\* Undo and cleanup reach every instance of the entry that may have a copy.
LEMMA ReachedAll ==
    ASSUME NEW p \in Pdus, NEW i \in 1..Len(p), NEW v, NEW x \in Instances, Naming(p, x) # {},
           InTable(x) => RowExists(x, v), EntryOf(x) = EntryOf(p[i].inst)
    PROVE  x \in Reached(p, i, v)
<1>1. PICK j \in DOMAIN p : p[j].inst = x
  BY DEF Naming
<1>2. CASE InTable(x)
  BY <1>1, <1>2 DEF Reached, InTable
<1>3. CASE ~InTable(x)
  <2>1. p[i].inst \in Instances
    BY PduProperties, VbProperties
  <2>2. x = p[i].inst
    BY <1>3, <2>1 DEF Instances, InTable, IsTable, EntryOf
  <2> QED
    BY <1>3, <2>2 DEF Reached, InTable
<1> QED
  BY <1>2, <1>3

\* The undo copy of an instance stays with the SET that made it.
LEMMA UndoFrame ==
    ASSUME BaseInv, NEW s \in Setters, Same(s), Safe(s), NEW x \in Instances, MayRestore(s, x),
           InTable(x) => RowExists(x, value)
    PROVE  MayRestore(s, x)' /\ (InTable(x) => RowExists(x, value'))
<1>1. MayRestore(s, x)'
  BY DEF Same, MayRestore, Locks
<1>2. InTable(x) => StatusOf(x) \in Instances /\ EntryOf(StatusOf(x)) = EntryOf(x)
  BY InstanceProperties DEF StatusOf, EntryOf
<1>3. InTable(x) => value'[StatusOf(x)] = value[StatusOf(x)]
  BY <1>2 DEF Safe, MayRestore
<1> QED
  BY <1>1, <1>3 DEF RowExists

LEMMA CommitUndoLocked ==
    ASSUME BaseInv, NEW r \in Setters, Commit(r), UndoLocked, Quiet(pdu[r], value),
           NEW x \in Instances, undo'[x] # NoUndo, locks[r][idx[r]] # NoEntry,
           \A s \in Setters : s # r => Same(s) /\ Safe(s)
    PROVE  /\ \E s \in Setters : MayRestore(s, x)'
           /\ InTable(x) => RowExists(x, value')
<1> DEFINE p == pdu[r]
           i == idx[r]
<1>1. /\ p \in Pdus /\ p \in SetPdus /\ i \in 1..Len(p) /\ Current(r) = p[i].inst
      /\ Locks(r, EntryOf(Current(r))) /\ InPdu(r) /\ r \in Requests /\ Current(r) \in Instances
  BY CurrentLocked, Bindings DEF Commit, BaseInv
<1>2. PICK o \in Commits(p, i, value, undo) : value' = o.value /\ undo' = o.undo
  BY DEF Commit, CommitOutcomes
<1>3. CommitCopies(p, i, value, undo, o) /\ CommitScope(p, i, value, undo, o)
  <2>1. \A y \in Instances : undo[y] # NoUndo /\ InTable(y) => RowExists(y, value)
    BY DEF UndoLocked
  <2> QED
    BY <1>1, <1>2, <2>1, CommitsCopies, CommitsScope DEF BaseInv, TypeInv
<1>4. /\ pdu' = pdu /\ locks' = locks /\ pc[r] = "commit"
      /\ pc'[r] \in {"commit", "undo"}
  BY <1>1 DEF Commit, Goto, BaseInv, TypeInv, ControlOK
<1>5. MayRestore(r, x) => MayRestore(r, x)'
  BY <1>4 DEF MayRestore, Locks
<1>6. CASE InRow(Current(r), x)
  <2>1. EntryOf(x) = EntryOf(Current(r)) /\ Locks(r, EntryOf(x))
    BY <1>1, <1>6 DEF InRow, RowOf, EntryOf
  <2>2. CASE undo[x] # NoUndo
    <3>1. PICK s \in Setters : MayRestore(s, x)
      BY <2>2 DEF UndoLocked
    <3>2. s = r
      BY <2>1, <3>1, LocksApart, InstanceProperties DEF MayRestore, BaseInv
    <3> QED
      BY <1>1, <1>2, <1>3, <1>5, <1>6, <2>2, <3>1, <3>2 DEF CommitCopies
  <2>3. CASE undo[x] = NoUndo
    <3>1. Naming(p, x) # {} /\ (InTable(x) => RowExists(x, value'))
      BY <1>1, <1>2, <1>3, <1>6, <2>3 DEF CommitCopies
    <3>2. MayRestore(r, x)
      BY <1>4, <2>1, <3>1 DEF MayRestore
    <3> QED
      BY <1>5, <3>1, <3>2
  <2> QED
    BY <2>2, <2>3
<1>7. CASE ~InRow(Current(r), x)
  <2>1. undo[x] # NoUndo
    BY <1>1, <1>2, <1>3, <1>7 DEF CommitScope
  <2>2. PICK s \in Setters : MayRestore(s, x)
    BY <2>1 DEF UndoLocked
  <2>3. InTable(x) => RowExists(x, value)
    BY <2>1 DEF UndoLocked
  <2>4. CASE s = r
    BY <1>2, <1>3, <1>5, <2>1, <2>2, <2>3, <2>4 DEF CommitCopies
  <2>5. CASE s # r
    BY <2>2, <2>3, <2>5, UndoFrame
  <2> QED
    BY <2>4, <2>5
<1> QED
  BY <1>6, <1>7

\* undo_set_request and cleanup_set_request with a lock forget the copies of the entry.
LEMMA ForgetUndoLocked ==
    ASSUME BaseInv, NEW r \in Setters, Undo(r) \/ Cleanup(r), UndoLocked,
           NEW x \in Instances, undo'[x] # NoUndo, locks[r][idx[r]] # NoEntry,
           \A s \in Setters : s # r => Same(s) /\ Safe(s)
    PROVE  /\ \E s \in Setters : MayRestore(s, x)'
           /\ InTable(x) => RowExists(x, value')
<1> DEFINE p == pdu[r]
           i == idx[r]
           S == Reached(p, i, value)
<1>1. /\ p \in Pdus /\ i \in 1..Len(p) /\ i \in 1..MaxVbs /\ Current(r) = p[i].inst
      /\ InPdu(r) /\ r \in Requests /\ locks[r][i] = EntryOf(Current(r))
  BY CurrentLocked DEF Undo, Cleanup, BaseInv
<1>2. /\ undo' = Forget(S, undo) /\ Unlock(r, i) /\ pdu' = pdu /\ pc' = pc
      /\ value' = value \/ value' = Unset(S, value, undo)
  BY DEF Undo, Cleanup
<1>3. undo[x] # NoUndo /\ x \notin S
  BY <1>2 DEF Forget
<1>4. PICK s \in Setters : MayRestore(s, x)
  BY <1>3 DEF UndoLocked
<1>5. InTable(x) => RowExists(x, value)
  BY <1>3 DEF UndoLocked
<1>6. CASE s # r
  BY <1>4, <1>5, <1>6, UndoFrame
<1>7. CASE s = r
  <2>1. EntryOf(x) # EntryOf(Current(r))
    BY <1>1, <1>3, <1>4, <1>5, <1>7, ReachedAll DEF MayRestore
  <2>2. Locks(r, EntryOf(x))'
    BY <1>1, <1>2, <1>4, <1>7, <2>1, LocksShrink DEF MayRestore
  <2>3. MayRestore(r, x)'
    BY <1>2, <1>4, <1>7, <2>2 DEF MayRestore
  <2>4. InTable(x) => value'[StatusOf(x)] = value[StatusOf(x)]
    <3>1. InTable(x) => StatusOf(x) \in Instances /\ EntryOf(StatusOf(x)) = EntryOf(x)
      BY InstanceProperties DEF StatusOf, EntryOf
    <3>2. InTable(x) => StatusOf(x) \notin S
      BY <1>1, <2>1, <3>1, ReachedEntry
    <3> QED
      BY <1>2, <3>1, <3>2 DEF Unset
  <2> QED
    BY <1>5, <2>3, <2>4 DEF RowExists
<1> QED
  BY <1>6, <1>7

LEMMA UndoStep ==
    ASSUME SetInv, NEW r \in Setters, SetStep(r), UndoLocked, Calm,
           \A s \in Setters : s # r => Same(s) /\ Safe(s)
    PROVE  UndoLocked'
<1> SUFFICES ASSUME NEW x \in Instances, undo'[x] # NoUndo
             PROVE  /\ \E s \in Setters : MayRestore(s, x)'
                    /\ InTable(x) => RowExists(x, value')
  BY DEF UndoLocked
<1>0. /\ BaseInv /\ BindingOK(r) /\ LocksFirst(r) /\ LocksPassed(r) /\ r \in Requests
      /\ pc \in [Requests -> Phases \union ReadPhases]
  BY DEF SetInv, BindingInv, PassInv, BaseInv, TypeInv, ControlOK, Requests
<1>1. CASE Commit(r)
  <2>1. CASE locks[r][idx[r]] # NoEntry
    BY <1>0, <1>1, <2>1, CommitUndoLocked DEF Calm, Quiet
  <2>2. CASE locks[r][idx[r]] = NoEntry
    <3>1. value' = value /\ undo' = undo
      BY <1>1, <2>2 DEF Commit, CommitOutcomes, Outcome
    <3>2. pdu' = pdu /\ locks' = locks /\ pc[r] = "commit" /\ pc'[r] \in {"commit", "undo"}
      BY <1>0, <1>1 DEF Commit, Goto
    <3>3. PICK s \in Setters : MayRestore(s, x)
      BY <3>1 DEF UndoLocked
    <3>4. MayRestore(s, x)'
      BY <3>2, <3>3 DEF MayRestore, Locks, Same
    <3> QED
      BY <3>1, <3>4 DEF UndoLocked, RowExists
  <2> QED
    BY <2>1, <2>2
<1>2. CASE (Undo(r) \/ Cleanup(r)) /\ locks[r][idx[r]] # NoEntry
  BY <1>0, <1>2, ForgetUndoLocked
<1>3. CASE \/ StartSet(r) \/ SkipReady(r) \/ Deny(r) \/ FindEntry(r) \/ Lock(r) \/ Accept(r) \/ Reject(r)
           \/ Prepared(r) \/ Undone(r) \/ CleanedUp(r) \/ Answer(r) \/ Release(r) \/ Delete(r)
  <2>1. value' = value /\ undo' = undo
    BY <1>3 DEF StartSet, SkipReady, Deny, FindEntry, Lock, Accept, Reject, Prepared,
       Undone, CleanedUp, Answer, Release, Delete, objects
  <2>2. PICK s \in Setters : MayRestore(s, x)
    BY <2>1 DEF UndoLocked
  <2>3. InTable(x) => RowExists(x, value)
    BY <2>1 DEF UndoLocked
  <2>4. s # r
    <3>1. CASE Undone(r) \/ CleanedUp(r)
      <4>1. \A j \in 1..MaxVbs : locks[r][j] = NoEntry
        <5>1. CASE ~InPdu(r)
          <6>1. \A j \in 1..MaxVbs : j \notin DOMAIN pdu[r] => locks[r][j] = NoEntry
            BY <1>0 DEF BaseInv, LockInv, LocksNamed
          <6>2. \A j \in DOMAIN pdu[r] : j < idx[r]
            BY <1>0, <5>1, Bindings DEF BaseInv
          <6>3. pc[r] \in {"undo", "cleanup"}
            BY <3>1 DEF Undone, CleanedUp
          <6> QED
            BY <1>0, <6>1, <6>2, <6>3 DEF LocksPassed
        <5>2. CASE InPdu(r)
          <6>1. pc[r] = "cleanup" /\ locks[r][idx[r]] = NoEntry
            BY <3>1, <5>2 DEF Undone, CleanedUp
          <6>2. idx[r] \in 1..MaxVbs
            BY <1>0, <5>2, CurrentBinding DEF BaseInv, TypeInv
          <6>3. \A j \in 1..MaxVbs : j < idx[r] \/ j = idx[r] \/ (idx[r] <= idx[r] /\ idx[r] < j)
            BY <6>2
          <6> QED
            BY <1>0, <6>1, <6>2, <6>3 DEF LocksPassed, LocksFirst
        <5> QED
          BY <5>1, <5>2
      <4> QED
        BY <2>2, <4>1, InstanceProperties, TransactionAssumption
           DEF MayRestore, Locks, TransactionAssumption
    <3>2. CASE \/ StartSet(r) \/ SkipReady(r) \/ Deny(r) \/ FindEntry(r) \/ Lock(r) \/ Accept(r) \/ Reject(r)
               \/ Prepared(r) \/ Answer(r) \/ Release(r) \/ Delete(r)
      <4>1. pc[r] \notin {"commit", "undo", "cleanup"}
        BY <3>2 DEF StartSet, SkipReady, Deny, FindEntry, Lock, Accept, Reject, Prepared,
           Answer, Release, Delete, Locked
      <4> QED
        BY <2>2, <4>1 DEF MayRestore
    <3> QED
      BY <1>3, <3>1, <3>2
  <2> QED
    BY <1>0, <2>2, <2>3, <2>4, UndoFrame
<1>4. CASE \/ SkipDone(r) \/ Committed(r) \/ (Undo(r) /\ locks[r][idx[r]] = NoEntry)
  <2>1. /\ value' = value /\ undo' = undo /\ pdu' = pdu /\ locks' = locks
        /\ pc[r] \in {"commit", "undo"} /\ pc'[r] \in {"commit", "undo", "cleanup"}
    BY <1>0, <1>4 DEF SkipDone, Committed, Undo, Goto, setRequest, objects
  <2>2. PICK s \in Setters : MayRestore(s, x)
    BY <2>1 DEF UndoLocked
  <2>3. InTable(x) => RowExists(x, value)
    BY <2>1 DEF UndoLocked
  <2>4. CASE s = r
    BY <2>1, <2>2, <2>3, <2>4 DEF MayRestore, Locks
  <2>5. CASE s # r
    BY <1>0, <2>2, <2>3, <2>5, UndoFrame
  <2> QED
    BY <2>4, <2>5
<1>5. Cleanup(r) => locks[r][idx[r]] # NoEntry
  BY DEF Cleanup
<1> QED
  BY <1>1, <1>2, <1>3, <1>4, <1>5 DEF SetStep

LEMMA UndoNext ==
    ASSUME SetInv, UndoLocked, Calm, [Next]_vars
    PROVE  UndoLocked'
<1>1. CASE \E r \in Setters : SetStep(r) /\ \A s \in Setters : s # r => Same(s) /\ Safe(s)
  BY <1>1, UndoStep
<1>2. CASE UNCHANGED <<value, undo, deleteRows>> /\ \A s \in Setters : Same(s) /\ Safe(s)
  <2> SUFFICES ASSUME NEW x \in Instances, undo'[x] # NoUndo
               PROVE  /\ \E s \in Setters : MayRestore(s, x)'
                      /\ InTable(x) => RowExists(x, value')
    BY DEF UndoLocked
  <2>1. PICK s \in Setters : MayRestore(s, x)
    BY <1>2 DEF UndoLocked
  <2>2. InTable(x) => RowExists(x, value)
    BY <1>2 DEF UndoLocked
  <2> QED
    BY <1>2, <2>1, <2>2, UndoFrame DEF SetInv
<1> QED
  BY <1>1, <1>2, StepCases DEF SetInv

LEMMA UndoInit ==
    ASSUME Init
    PROVE  UndoLocked
BY DEF Init, UndoLocked

LEMMA UndoOwned ==
    ASSUME SetInv, UndoLocked
    PROVE  UndoCopiesOwned
<1> SUFFICES ASSUME NEW x \in Instances, undo[x] # NoUndo
             PROVE  \E r \in Setters : owner[EntryOf(x)] = r /\ pc[r] \in {"commit", "undo", "cleanup"}
  BY DEF UndoCopiesOwned
<1>1. PICK r \in Setters : MayRestore(r, x)
  BY DEF UndoLocked
<1>2. EntryOf(x) # NoEntry
  BY InstanceProperties, TransactionAssumption DEF TransactionAssumption
<1> QED
  BY <1>1, <1>2, LocksOwned DEF MayRestore

\* Without createAndWait no row is ever notReady.
NoWaiting == \A p \in SetPdus : \A i \in DOMAIN p : p[i].val # "createAndWait"

NeverReady(v, u) == \A x \in Instances : v[x] # "notReady" /\ u[x] # "notReady"

\* A stored status is notReady only when createAndWait was asked for.
LEMMA AfterNotReady ==
    ASSUME NEW b \in Vbs, b.val # "createAndWait"
    PROVE  b.val # "notReady" /\ StatusAfter(b.val) # "notReady"
<1>1. b.val \in Values \/ b.val \in RowRequests
  BY VbProperties
<1>2. "notReady" \in RowStates /\ "notReady" \notin RowRequests
  BY DEF RowStates, RowRequests
<1>3. b.val # "notReady"
  BY <1>1, <1>2, ObjectsAssumption DEF ObjectsAssumption
<1> QED
  BY <1>3 DEF StatusAfter

LEMMA NewNotReady ==
    ASSUME NEW p \in Pdus, \A i \in DOMAIN p : p[i].val # "createAndWait", NEW y \in Instances
    PROVE  NewValue(p, y) # "notReady" /\ NewUndo(p, y) # "notReady"
<1>1. Default # "notReady"
  BY ObjectsAssumption DEF ObjectsAssumption, RowStates
<1>2. \A j \in Naming(p, y) : p[j].val # "notReady" /\ StatusAfter(p[j].val) # "notReady"
  BY PduProperties, AfterNotReady DEF Naming
<1>3. CASE Naming(p, y) = {}
  BY <1>1, <1>3 DEF NewValue, NewUndo, NoUndo
<1>4. CASE Naming(p, y) # {}
  <2> DEFINE last == Greatest(Naming(p, y))
  <2>1. last \in Naming(p, y)
    BY <1>4, GreatestIn
  <2>2. NewValue(p, y) # "notReady"
    BY <1>2, <1>4, <2>1 DEF NewValue
  <2>3. Naming(p, y) # {last} => Greatest(Naming(p, y) \ {last}) \in Naming(p, y)
    BY <2>1, GreatestIn
  <2>4. NewUndo(p, y) # "notReady"
    BY <1>1, <1>2, <1>4, <2>1, <2>3 DEF NewUndo, NoUndo
  <2> QED
    BY <2>2, <2>4
<1> QED
  BY <1>3, <1>4

LEMMA CommitsReady ==
    ASSUME NEW p \in Pdus, \A j \in DOMAIN p : p[j].val # "createAndWait",
           NEW i \in 1..Len(p), NEW v, NEW u, DataOK(v, u), NeverReady(v, u),
           NEW o \in Commits(p, i, v, u)
    PROVE  NeverReady(o.value, o.undo)
<1> DEFINE x == p[i].inst
           s == StatusOf(x)
<1>1. x \in Instances /\ i \in DOMAIN p /\ p[i].val # "notReady" /\ StatusAfter(p[i].val) # "notReady"
  BY PduProperties, VbProperties, AfterNotReady
<1>2. ASSUME NEW c \in CommitLeaf(p, i, v, u) PROVE NeverReady(c.value, c.undo)
  BY <1>1 DEF CommitLeaf, Outcome, NeverReady, DataOK
<1>3. ASSUME NEW c \in CommitStatus(p, i, v, u) PROVE NeverReady(c.value, c.undo)
  BY <1>1 DEF CommitStatus, Outcome, NeverReady, DataOK
<1>4. ASSUME NEW c \in RemoveRow(p, i, v, u) PROVE NeverReady(c.value, c.undo)
  BY DEF RemoveRow, Outcome, NeverReady, Absent, NoUndo
<1>5. ASSUME NEW c \in AddRow(p, i, v, u) PROVE NeverReady(c.value, c.undo)
  BY NewNotReady DEF AddRow, Outcome, NeverReady
<1>6. CASE ~InTable(x)
  BY <1>2, <1>6 DEF Commits
<1>7. CASE InTable(x)
  <2>1. PICK c \in CommitTable(p, i, v, u) : o \in Upgrades(c, x)
    BY <1>7 DEF Commits
  <2>2. NeverReady(c.value, c.undo)
    BY <1>2, <1>3, <1>4, <1>5, <2>1 DEF CommitTable
  <2>3. s \in Instances
    BY <1>1, <1>7, InstanceProperties
  <2>4. o = c
    BY <2>1, <2>2, <2>3 DEF Upgrades, NeverReady
  <2> QED
    BY <2>2, <2>4
<1> QED
  BY <1>6, <1>7

LEMMA ReadyInit ==
    ASSUME Init
    PROVE  NeverReady(value, undo)
<1>1. Default # "notReady"
  BY ObjectsAssumption DEF ObjectsAssumption, RowStates
<1>2. value \in [Instances -> {Default, "active", "notInService", Absent}] /\ undo = [x \in Instances |-> NoUndo]
  BY DEF Init, InitialValues
<1>3. \A x \in Instances : value[x] \in {Default, "active", "notInService", Absent}
  BY <1>2
<1> QED
  BY <1>1, <1>2, <1>3 DEF NeverReady, Absent, NoUndo

LEMMA ReadyNext ==
    ASSUME NoWaiting, BaseInv, BindingInv, NeverReady(value, undo), [Next]_vars
    PROVE  NeverReady(value', undo')
<1>1. CASE \E r \in Setters : Commit(r)
  <2>1. PICK r \in Setters : Commit(r)
    BY <1>1
  <2>2. CASE locks[r][idx[r]] = NoEntry
    BY <2>1, <2>2 DEF Commit, CommitOutcomes, Outcome
  <2>3. CASE locks[r][idx[r]] # NoEntry
    <3>1. pdu[r] \in Pdus /\ pdu[r] \in SetPdus /\ idx[r] \in 1..Len(pdu[r])
      BY <2>1, <2>3, CurrentLocked, Bindings DEF Commit, BaseInv
    <3>2. PICK o \in Commits(pdu[r], idx[r], value, undo) : value' = o.value /\ undo' = o.undo
      BY <2>1, <2>3 DEF Commit, CommitOutcomes
    <3> QED
      BY <3>1, <3>2, CommitsReady DEF NoWaiting, BaseInv, TypeInv
  <2> QED
    BY <2>2, <2>3
<1>2. CASE \E r \in Setters : Undo(r) \/ Cleanup(r)
  BY <1>2 DEF Undo, Cleanup, Unset, Forget, NeverReady, NoUndo, objects
<1>3. CASE UNCHANGED <<value, undo>>
  BY <1>3 DEF NeverReady
<1>4. \/ \E r \in Setters : Commit(r) \/ Undo(r) \/ Cleanup(r)
      \/ UNCHANGED <<value, undo>>
  <2>1. CASE \E r \in Setters : SetStep(r)
    BY <2>1 DEF SetStep, StartSet, SkipReady, Deny, FindEntry, Lock, Accept, Reject, Prepared, SkipDone,
       Committed, Undone, CleanedUp, Answer, Release, Delete, objects
  <2>2. CASE ~ \E r \in Setters : SetStep(r)
    <3>1. (\E g \in Getters : GetStep(g)) \/ UNCHANGED vars
      BY <2>2 DEF Next, Terminated
    <3> QED
      BY <3>1, GetQuiet, StutterQuiet DEF BaseInv
  <2> QED
    BY <2>1, <2>2
<1> QED
  BY <1>1, <1>2, <1>3, <1>4

\* When nobody sets an entry it has no undo copies, so none is restored later or
\* by another SET.  That needs PDUs without gaps, and that a commit upgrades only
\* a row whose status the PDU names: undo and cleanup reach no other copy.
THEOREM UndoCopiesAreOwned ==
    SeparateListeners /\ NoGaps /\ (StatusNamed \/ NoUpgrade \/ NoWaiting)
      => (Spec => []UndoCopiesOwned)
<1> SUFFICES ASSUME SeparateListeners, NoGaps, StatusNamed \/ NoUpgrade \/ NoWaiting
             PROVE  Spec => []UndoCopiesOwned
  OBVIOUS
<1> DEFINE I == SetInv /\ UndoLocked /\ (NoWaiting => NeverReady(value, undo))
<1>1. Init => I
  BY SetInvInit, UndoInit, ReadyInit
<1>2. I /\ [Next]_vars => I'
  <2> SUFFICES ASSUME I, [Next]_vars PROVE I'
    OBVIOUS
  <2>1. Calm
    BY DEF Calm, NeverReady
  <2>2. NoWaiting => NeverReady(value', undo')
    BY ReadyNext DEF SetInv
  <2> QED
    BY <2>1, <2>2, SetInvNext, UndoNext
<1>3. I => UndoCopiesOwned
  BY UndoOwned
<1> QED
  BY <1>1, <1>2, <1>3, PTL DEF Spec

-----------------------------------------------------------------------------
(* SETs are atomic.  PDUs as most managers send them: no instance is named *)
(* twice, and one that creates or destroys a row does so with its last     *)
(* bindings.                                                               *)

\* The PDU creates or destroys the row of x.
Life(p, x) == \E i \in StatusVbs(p, x) : p[i].val \in {"createAndGo", "createAndWait", "destroy"}

DistinctVbs == \A p \in SetPdus : \A i, j \in DOMAIN p : p[i].inst = p[j].inst => i = j
LifeLast ==
    \A p \in SetPdus : \A i, k \in DOMAIN p :
      i < k /\ Life(p, p[i].inst) => InRow(p[k].inst, p[i].inst)
DestroyLast == \A p \in SetPdus : \A i \in DOMAIN p : p[i].val = "destroy" => i = Len(p)

\* Whether a new row becomes notInService by itself is not left open.
Settles == ServiceAnswers # BOOLEAN \/ NoWaiting

PlainSets == SeparateListeners /\ DistinctVbs /\ LifeLast /\ DestroyLast /\ Settles

-----------------------------------------------------------------------------
(* The values of a SET's entries, compared with those it found there.      *)

\* The PDU destroys the row of x.
Destroys(p, x) == \E i \in StatusVbs(p, x) : p[i].val = "destroy"

\* The row of x was not there when the SET began to commit.
Gone(x) == RowMissing(x, before)

\* The outcome is known from the phase.
StatusKnown(r) ==
    /\ pc[r] \in {"start", "prepare", "lock", "commit"} => status[r] = "noError"
    /\ pc[r] = "undo" => status[r] # "noError"

\* What prepare_set_request has found out about binding j, when the values are v.
Found(r, j, v) ==
    LET p == pdu[r]
        x == p[j].inst
    IN /\ RowMissing(x, v) => /\ MayCreate(p, x)
                              /\ RowRequest(p, x) = "destroy" => NamingRow(p, x) \subseteq done[r]
       /\ RowExists(x, v) /\ IsStatus(x) => p[j].val \in {"active", "notInService", "destroy"}

PrepareFound(r) ==
    /\ Preparing(r) => \A j \in 1..MaxVbs : locks[r][j] # NoEntry => Found(r, j, value)
    /\ pc[r] = "commit" => \A j \in 1..MaxVbs : locks[r][j] # NoEntry => Found(r, j, before)

\* Before the commit phase only the destruction of a row that is not there is done.
DoneEarly(r) ==
    Preparing(r) =>
      \A j \in done[r] : /\ Locks(r, EntryOf(pdu[r][j].inst))
                         /\ RowMissing(pdu[r][j].inst, value)
                         /\ RowRequest(pdu[r], pdu[r][j].inst) = "destroy"

\* A SET that commits holds all entries it names; only rows it creates, or need
\* not destroy, are done ahead, and those it has passed are.
CommitHolds(r) ==
    pc[r] = "commit" =>
      /\ \A j \in DOMAIN pdu[r] : Locks(r, EntryOf(pdu[r][j].inst))
      /\ \A j \in done[r] : j \in DOMAIN pdu[r] /\ (j < idx[r] \/ Gone(pdu[r][j].inst))
      /\ \A j \in DOMAIN pdu[r] : j < idx[r] => j \in done[r] \/ ~Gone(pdu[r][j].inst)

Untouched(x) == value[x] = before[x] /\ undo[x] = NoUndo

\* A row that was not there: nothing to destroy, not yet created, or created with
\* the last bindings of the PDU.
NewRowState(r, x) ==
    LET p == pdu[r] IN
    IF Destroys(p, x) THEN Untouched(x) /\ NamingRow(p, x) \subseteq done[r]
    ELSE \/ Untouched(x) /\ NamingRow(p, x) \intersect done[r] = {}
         \/ /\ NamingRow(p, x) \subseteq done[r]
            /\ \A k \in DOMAIN p : idx[r] <= k => k \in done[r]
            /\ \/ value[x] = NewValue(p, x)
               \/ IsStatus(x) /\ NewValue(p, x) = "notReady" /\ value[x] = "notInService"
            /\ value[x] = "notReady" => NoUpgrade

\* An instance that was there: destroyed by the last binding, set, or not yet.
OldState(r, x) ==
    LET p == pdu[r] IN
    IF InTable(x) /\ Destroys(p, x) /\ idx[r] > Len(p) THEN value[x] = Absent /\ undo[x] = NoUndo
    ELSE IF \E j \in Naming(p, x) : j < idx[r]
      THEN value[x] = NewValue(p, x) /\ undo[x] = before[x]
    ELSE Untouched(x)

CommitState(r) ==
    pc[r] = "commit" =>
      \A x \in Instances : owner[EntryOf(x)] = r =>
        IF NamingRow(pdu[r], x) = {} THEN Untouched(x)
        ELSE IF Gone(x) THEN NewRowState(r, x)
        ELSE OldState(r, x)

\* What a SET has to undo has an undo copy.
UndoState(r) ==
    pc[r] = "undo" =>
      \A x \in Instances : owner[EntryOf(x)] = r => Untouched(x) \/ undo[x] = before[x]

\* Values that instances may have: no status stays empty.
ValuesOK(v) ==
    /\ v \in [Instances -> Stored]
    /\ \A x \in Instances : v[x] = Absent <=> RowMissing(x, v)
    /\ \A x \in Instances : IsStatus(x) => v[x] \in (RowStates \ {"empty"}) \union {Absent}
    /\ \A x \in Instances : v[x] = "notReady" => NoUpgrade

\* A GET has read the values of the bindings behind it.
ReadSoFar == \A g \in Getters : Len(got[g]) = idx[g] - 1

RequestState(r) ==
    /\ StatusKnown(r) /\ PrepareFound(r) /\ DoneEarly(r) /\ CommitHolds(r)
    /\ CommitState(r) /\ UndoState(r)

ValueInv == ValuesOK(value) /\ ValuesOK(before)
AtomicInv == ValueInv /\ ReadSoFar /\ \A r \in Setters : RequestState(r)

-----------------------------------------------------------------------------
(* Commits of such PDUs.                                                   *)

LEMMA LeastIn ==
    ASSUME NEW S, S # {}
    PROVE  Least(S) \in S
<1>1. CASE \E m \in S : \A j \in S : m <= j
  BY <1>1 DEF Least
<1>2. CASE ~ \E m \in S : \A j \in S : m <= j
  BY <1>2 DEF Least
<1> QED
  BY <1>1, <1>2

\* A row that may be created is one the PDU creates or destroys.
LEMMA CreatedLife ==
    ASSUME NEW p, NEW x, MayCreate(p, x)
    PROVE  Life(p, x) /\ StatusVbs(p, x) # {} /\ (RowRequest(p, x) = "destroy" => Destroys(p, x))
<1>1. StatusVbs(p, x) # {} /\ RowRequest(p, x) \in {"createAndGo", "createAndWait", "destroy"}
  BY DEF MayCreate
<1>2. Least(StatusVbs(p, x)) \in StatusVbs(p, x)
  BY <1>1, LeastIn
<1> QED
  BY <1>1, <1>2 DEF Life, Destroys, RowRequest

LEMMA PlainGaps ==
    ASSUME PlainSets
    PROVE  NoGaps
<1> SUFFICES ASSUME NEW p \in SetPdus, NEW i \in DOMAIN p, NEW j \in DOMAIN p, NEW k \in DOMAIN p,
                    i < j, j < k, InRow(p[i].inst, p[j].inst), MayCreate(p, p[i].inst)
             PROVE  InRow(p[k].inst, p[j].inst)
  BY DEF NoGaps
<1>1. p \in Pdus
  BY TransactionAssumption DEF TransactionAssumption
<1>2. i \in Nat /\ j \in Nat /\ k \in Nat
  BY <1>1, PduProperties
<1>3. InRow(p[k].inst, p[i].inst)
  BY <1>2, CreatedLife DEF PlainSets, LifeLast
<1> QED
  BY <1>3 DEF InRow

\* An instance is named once.
LEMMA NamedOnce ==
    ASSUME DistinctVbs, NEW p \in SetPdus, NEW i \in DOMAIN p
    PROVE  Naming(p, p[i].inst) = {i} /\ Greatest(Naming(p, p[i].inst)) = i
<1>1. Naming(p, p[i].inst) = {i}
  BY DEF Naming, DistinctVbs
<1> QED
  BY <1>1, GreatestIn

\* What the commit of p[i] does to instances that are there.
SetsInstance(p, i, v, u, o) ==
    LET x == p[i].inst IN
    /\ \A y \in Instances : y # x => o.value[y] = v[y] /\ o.undo[y] = u[y]
    /\ o.undo[x] = v[x]
    /\ \/ o.ok /\ o.finished = {i} /\ o.value[x] = NewValue(p, x)
       \/ ~o.ok /\ o.finished = {} /\ o.value[x] = v[x]

\* PDUs without repetitions name a status once.
LEMMA DistinctOnce ==
    ASSUME DistinctVbs
    PROVE  StatusOnce
BY DEF DistinctVbs, StatusOnce

\* ... and to a row it destroys, or creates.
RemovesRow(p, i, v, u, o) ==
    /\ o.ok /\ o.finished = {}
    /\ \A y \in Instances :
         IF InRow(p[i].inst, y) THEN o.value[y] = Absent /\ o.undo[y] = NoUndo
         ELSE o.value[y] = v[y] /\ o.undo[y] = u[y]

CreatesRow(p, i, v, u, o) ==
    \/ ~o.ok /\ o.finished = {} /\ \A y \in Instances : o.value[y] = v[y] /\ o.undo[y] = u[y]
    \/ /\ o.ok /\ o.finished = NamingRow(p, p[i].inst)
       /\ \A y \in Instances :
            IF InRow(p[i].inst, y)
              THEN /\ \/ o.value[y] = NewValue(p, y)
                      \/ IsStatus(y) /\ NewValue(p, y) = "notReady" /\ o.value[y] = "notInService"
                   /\ o.value[y] = "notReady" => NoUpgrade
              ELSE o.value[y] = v[y] /\ o.undo[y] = u[y]

LEMMA LeafSets ==
    ASSUME DistinctVbs, NEW p \in SetPdus, p \in Pdus, NEW i \in 1..Len(p), NEW v, NEW u, DataOK(v, u),
           ~IsStatus(p[i].inst), NEW o \in CommitLeaf(p, i, v, u)
    PROVE  SetsInstance(p, i, v, u, o)
<1> DEFINE x == p[i].inst
<1>1. x \in Instances /\ i \in DOMAIN p
  BY PduProperties, VbProperties
<1>2. NewValue(p, x) = p[i].val
  BY <1>1, NamedOnce DEF NewValue
<1>3. \/ o = Outcome(TRUE, [v EXCEPT ![x] = p[i].val], [u EXCEPT ![x] = v[x]], {i})
      \/ o = Outcome(FALSE, v, [u EXCEPT ![x] = v[x]], {})
  BY DEF CommitLeaf
<1> QED
  BY <1>1, <1>2, <1>3 DEF SetsInstance, Outcome, DataOK

LEMMA StatusSets ==
    ASSUME DistinctVbs, NEW p \in SetPdus, p \in Pdus, NEW i \in 1..Len(p), NEW v, NEW u, DataOK(v, u),
           IsStatus(p[i].inst), NEW o \in CommitStatus(p, i, v, u)
    PROVE  SetsInstance(p, i, v, u, o)
<1> DEFINE x == p[i].inst
<1>1. x \in Instances /\ i \in DOMAIN p
  BY PduProperties, VbProperties
<1>2. NewValue(p, x) = StatusAfter(p[i].val)
  BY <1>1, NamedOnce DEF NewValue
<1>3. o = Outcome(TRUE, [v EXCEPT ![x] = StatusAfter(p[i].val)], [u EXCEPT ![x] = v[x]], {i})
  BY DEF CommitStatus
<1> QED
  BY <1>1, <1>2, <1>3 DEF SetsInstance, Outcome, DataOK

LEMMA RemoveRemoves ==
    ASSUME NEW p, NEW i, NEW v, NEW u, NEW o \in RemoveRow(p, i, v, u)
    PROVE  RemovesRow(p, i, v, u, o)
BY DEF RemovesRow, RemoveRow, Outcome

\* A new row may be notReady only if createAndWait was asked for.
LEMMA NewNotReadyWaits ==
    ASSUME Settles, NEW p \in SetPdus, p \in Pdus, NEW y \in Instances, NewValue(p, y) = "notReady",
           FALSE \in ServiceAnswers
    PROVE  NoUpgrade
<1>1. ~ \A i \in DOMAIN p : p[i].val # "createAndWait"
  BY NewNotReady
<1>2. ServiceAnswers # BOOLEAN
  BY <1>1 DEF Settles, NoWaiting
<1> QED
  BY <1>2, ObjectsAssumption DEF NoUpgrade, ObjectsAssumption

LEMMA NewPlainValue ==
    ASSUME NEW p \in Pdus, NEW y \in Instances, ~IsStatus(y)
    PROVE  NewValue(p, y) \in Values /\ NewValue(p, y) # "notReady"
<1>1. Default \in Values /\ "notReady" \notin Values
  BY ObjectsAssumption DEF ObjectsAssumption, RowStates
<1>2. \A j \in Naming(p, y) : p[j].val \in Values
  BY PduProperties, VbProperties DEF Naming
<1>3. Naming(p, y) # {} => Greatest(Naming(p, y)) \in Naming(p, y)
  BY GreatestIn
<1> QED
  BY <1>1, <1>2, <1>3 DEF NewValue

LEMMA AddCreates ==
    ASSUME DistinctVbs, Settles, NEW p \in SetPdus, p \in Pdus, NEW i \in 1..Len(p), NEW v, NEW u,
           DataOK(v, u), InTable(p[i].inst), NEW c \in AddRow(p, i, v, u), NEW o \in Upgrades(c, p[i].inst)
    PROVE  CreatesRow(p, i, v, u, o)
<1> DEFINE x == p[i].inst
           s == StatusOf(x)
<1>0. x \in Instances /\ s \in Instances /\ InRow(x, s) /\ IsStatus(s)
      /\ \A y \in Instances : InRow(x, y) /\ IsStatus(y) => y = s
  <2>1. x \in Instances /\ s \in Instances
    BY PduProperties, VbProperties, InstanceProperties
  <2>2. \A y \in Instances : InRow(x, y) /\ IsStatus(y) => y = s
    BY InstanceProperties DEF InRow, RowOf, StatusOf
  <2> QED
    BY <2>1, <2>2 DEF StatusOf, InRow, RowOf, IsStatus
<1>1. CASE c = Outcome(FALSE, v, u, {})
  BY <1>1 DEF Upgrades, CreatesRow, Outcome
<1>2. CASE c # Outcome(FALSE, v, u, {})
  <2>1. c = Outcome(TRUE, [y \in Instances |-> IF InRow(x, y) THEN NewValue(p, y) ELSE v[y]],
                          [y \in Instances |-> IF InRow(x, y) THEN NewUndo(p, y) ELSE u[y]],
                          NamingRow(p, x))
    BY <1>2, AllFinished, DistinctOnce DEF AddRow
  <2>2. /\ c.ok /\ c.finished = NamingRow(p, x)
        /\ \A y \in Instances : IF InRow(x, y) THEN c.value[y] = NewValue(p, y)
                                ELSE c.value[y] = v[y] /\ c.undo[y] = u[y]
    BY <2>1 DEF Outcome
  <2>3. CASE o = c
    <3>1. c.value[s] = "notReady" => FALSE \in ServiceAnswers
      <4> SUFFICES ASSUME c.value[s] = "notReady", FALSE \notin ServiceAnswers PROVE FALSE
        OBVIOUS
      <4>1. ServiceAnswers = {TRUE}
        BY ObjectsAssumption DEF ObjectsAssumption
      <4>2. o = [c EXCEPT !.value[s] = "notInService", !.undo[s] = "notReady"]
        BY <2>2, <4>1 DEF Upgrades
      <4>3. o.value = [c.value EXCEPT ![s] = "notInService"]
        BY <2>1, <4>2 DEF Outcome
      <4>4. o.value[s] = "notInService"
        BY <1>0, <2>1, <4>3 DEF Outcome
      <4> QED
        BY <2>3, <4>4
    <3>2. \A y \in Instances : InRow(x, y) /\ c.value[y] = "notReady" => NoUpgrade
      BY <1>0, <2>2, <3>1, NewPlainValue, NewNotReadyWaits
    <3> QED
      BY <2>2, <2>3, <3>2 DEF CreatesRow
  <2>4. CASE o # c
    <3>1. /\ o = [c EXCEPT !.value[s] = "notInService", !.undo[s] = "notReady"]
          /\ c.value[s] = "notReady"
      BY <2>4 DEF Upgrades
    <3>2. o = Outcome(c.ok, [c.value EXCEPT ![s] = "notInService"],
                            [c.undo EXCEPT ![s] = "notReady"], c.finished)
      BY <2>1, <3>1 DEF Outcome
    <3>3. \A y \in Instances : /\ y # s => o.value[y] = c.value[y] /\ o.undo[y] = c.undo[y]
                               /\ o.value[s] = "notInService"
      BY <1>0, <2>1, <3>2 DEF Outcome
    <3>4. o.ok /\ o.finished = NamingRow(p, x)
      BY <2>2, <3>2 DEF Outcome
    <3>5. ASSUME NEW y \in Instances
          PROVE  IF InRow(x, y)
                   THEN /\ \/ o.value[y] = NewValue(p, y)
                           \/ IsStatus(y) /\ NewValue(p, y) = "notReady" /\ o.value[y] = "notInService"
                        /\ o.value[y] = "notReady" => NoUpgrade
                   ELSE o.value[y] = v[y] /\ o.undo[y] = u[y]
      <4>1. CASE y = s
        BY <1>0, <2>2, <3>1, <3>3, <4>1
      <4>2. CASE y # s
        <5>1. InRow(x, y) => ~IsStatus(y)
          BY <1>0, <4>2
        <5>2. InRow(x, y) => o.value[y] = NewValue(p, y) /\ o.value[y] # "notReady"
          BY <2>2, <3>3, <4>2, <5>1, NewPlainValue
        <5> QED
          BY <2>2, <3>3, <4>2, <5>2
      <4> QED
        BY <4>1, <4>2
    <3> QED
      BY <3>4, <3>5 DEF CreatesRow
  <2> QED
    BY <2>3, <2>4
<1> QED
  BY <1>1, <1>2

\* Every commit of a plain PDU, which never upgrades a row that was there.
LEMMA CommitsExact ==
    ASSUME DistinctVbs, Settles, NEW p \in SetPdus, p \in Pdus, NEW i \in 1..Len(p), NEW v, NEW u,
           DataOK(v, u), \A y \in Instances : v[y] = "notReady" => NoUpgrade,
           RowExists(p[i].inst, v) /\ IsStatus(p[i].inst) =>
             p[i].val \in {"active", "notInService", "destroy"},
           NEW o \in Commits(p, i, v, u)
    PROVE  IF RowMissing(p[i].inst, v) THEN CreatesRow(p, i, v, u, o)
           ELSE IF IsStatus(p[i].inst) /\ p[i].val = "destroy" THEN RemovesRow(p, i, v, u, o)
           ELSE SetsInstance(p, i, v, u, o)
<1> DEFINE x == p[i].inst
           s == StatusOf(x)
<1>1. x \in Instances /\ (InTable(x) => s \in Instances) /\ (IsStatus(x) => x = s /\ InTable(x))
  BY PduProperties, VbProperties, InstanceProperties
<1>2. CASE ~InTable(x)
  <2>1. o \in CommitLeaf(p, i, v, u) /\ ~IsStatus(x)
    BY <1>1, <1>2 DEF Commits
  <2> QED
    BY <1>2, <2>1, LeafSets DEF RowMissing
<1>3. CASE InTable(x)
  <2>1. PICK c \in CommitTable(p, i, v, u) : o \in Upgrades(c, x)
    BY <1>3 DEF Commits
  <2>2. CASE RowMissing(x, v)
    BY <1>3, <2>1, <2>2, AddCreates DEF CommitTable, RowMissing
  <2>3. CASE RowExists(x, v) /\ IsStatus(x) /\ p[i].val = "destroy"
    <3>1. c \in RemoveRow(p, i, v, u)
      BY <2>1, <2>3 DEF CommitTable
    <3>2. c.value[s] = Absent
      BY <1>1, <2>3, <3>1 DEF RemoveRow, Outcome, InRow
    <3>3. o = c
      BY <2>1, <3>2 DEF Upgrades, Absent
    <3> QED
      BY <2>3, <3>1, <3>3, RemoveRemoves DEF RowMissing
  <2>4. CASE RowExists(x, v) /\ IsStatus(x) /\ p[i].val # "destroy"
    <3>1. c \in CommitStatus(p, i, v, u) /\ p[i].val \in {"active", "notInService"}
      BY <2>1, <2>4 DEF CommitTable
    <3>2. c.value[s] = StatusAfter(p[i].val)
      BY <1>1, <2>4, <3>1 DEF CommitStatus, Outcome, DataOK
    <3>3. o = c
      BY <2>1, <3>1, <3>2 DEF Upgrades, StatusAfter
    <3> QED
      BY <2>4, <3>1, <3>3, StatusSets DEF RowMissing
  <2>5. CASE RowExists(x, v) /\ ~IsStatus(x)
    <3>1. c \in CommitLeaf(p, i, v, u)
      BY <2>1, <2>5 DEF CommitTable
    <3>2. c.value[s] = v[s]
      <4>1. x # s
        BY <2>5 DEF StatusOf, IsStatus
      <4> QED
        BY <1>1, <1>3, <3>1, <4>1 DEF CommitLeaf, Outcome, DataOK
    <3>3. o = c
      BY <1>1, <1>3, <2>1, <3>2 DEF Upgrades, NoUpgrade
    <3> QED
      BY <2>5, <3>1, <3>3, LeafSets DEF RowMissing
  <2> QED
    BY <1>3, <2>2, <2>3, <2>4, <2>5 DEF RowMissing
<1> QED
  BY <1>2, <1>3

-----------------------------------------------------------------------------
(* The steps of others.                                                    *)

Begins(r) == pc[r] = "prepare" /\ pc'[r] = "commit"

\* Nothing changes in the entries that s owns, nor which these are.
Kept(s) ==
    \A x \in Instances :
      /\ owner'[EntryOf(x)] = s <=> owner[EntryOf(x)] = s
      /\ owner[EntryOf(x)] = s =>
           value'[x] = value[x] /\ undo'[x] = undo[x] /\ before'[x] = before[x]

\* A lock that a SET has recorded is its own.
LEMMA LockOwner ==
    ASSUME BaseInv, NEW s \in Setters, NEW x \in Instances, Locks(s, EntryOf(x))
    PROVE  owner[EntryOf(x)] = s
<1>1. EntryOf(x) # NoEntry
  BY InstanceProperties, TransactionAssumption DEF TransactionAssumption
<1> QED
  BY <1>1 DEF BaseInv, LockInv, FamilyHeld, Family, Locks

\* set_unlocked releases nothing of others.
LEMMA UnlockOwners ==
    ASSUME BaseInv, NEW r \in Setters, NEW i \in 1..MaxVbs, Unlock(r, i), NEW e \in Entries
    PROVE  \/ owner'[e] = owner[e]
           \/ owner[e] = r /\ owner'[e] = NoRequest /\ locks[r][i] # NoEntry
              /\ e \in Family(locks[r][i])
<1>1. CASE e \in ToRelease(locks[r], i)
  <2>1. locks[r][i] # NoEntry /\ e \in Family(locks[r][i])
    BY <1>1 DEF ToRelease, Family
  <2>2. owner[e] = r
    BY <2>1 DEF BaseInv, LockInv, FamilyHeld
  <2> QED
    BY <1>1, <2>1, <2>2 DEF Unlock
<1>2. CASE e \notin ToRelease(locks[r], i)
  BY <1>2 DEF Unlock
<1> QED
  BY <1>1, <1>2

\* A step of a SET takes free locks and releases its own.
LEMMA SetOwners ==
    ASSUME BaseInv, NEW r \in Setters, SetStep(r), NEW e \in Entries
    PROVE  \/ owner'[e] = owner[e]
           \/ owner[e] = NoRequest /\ owner'[e] = r /\ Lock(r)
           \/ owner[e] = r /\ owner'[e] = NoRequest /\ (Undo(r) \/ Cleanup(r) \/ Release(r))
<1>0. owner \in [Entries -> Requests \union {NoRequest}]
  BY DEF BaseInv, TypeInv, ControlOK
<1>1. CASE Lock(r)
  BY <1>0, <1>1 DEF Lock
<1>2. CASE Undo(r) \/ Cleanup(r) \/ Release(r)
  <2>1. owner' = owner \/ (Unlock(r, idx[r]) /\ InPdu(r))
    BY <1>2 DEF Undo, Cleanup, Release
  <2>2. InPdu(r) => idx[r] \in 1..MaxVbs
    BY Bindings DEF BaseInv
  <2> QED
    BY <1>2, <2>1, <2>2, UnlockOwners
<1>3. CASE ~(Lock(r) \/ Undo(r) \/ Cleanup(r) \/ Release(r))
  BY <1>3 DEF SetStep, StartSet, SkipReady, Deny, FindEntry, Accept, Reject, Prepared, SkipDone,
     Commit, Committed, Undone, CleanedUp, Answer, Delete
<1> QED
  BY <1>1, <1>2, <1>3

\* ... and so does one of a GET.
LEMMA GetOwners ==
    ASSUME BaseInv, NEW g \in Getters, GetStep(g), NEW e \in Entries
    PROVE  \/ owner'[e] = owner[e]
           \/ owner[e] = NoRequest /\ owner'[e] = g
           \/ owner[e] = g /\ owner'[e] = NoRequest
<1>0. owner \in [Entries -> Requests \union {NoRequest}]
  BY DEF BaseInv, TypeInv, ControlOK
<1>1. CASE LockEntry(g)
  BY <1>0, <1>1 DEF LockEntry
<1>2. CASE Read(g)
  BY <1>0, <1>2 DEF Read, BaseInv, LockInv, ReaderHolds
<1>3. CASE StartGet(g) \/ EndGet(g)
  BY <1>3 DEF StartGet, EndGet
<1> QED
  BY <1>1, <1>2, <1>3 DEF GetStep

\* What becomes of the history variable.
LEMMA BeforeStep ==
    ASSUME ValuesOK(before), [HNext]_hvars
    PROVE  /\ [Next]_vars
           /\ DOMAIN before' = Instances
           /\ \A x \in Instances :
                before'[x] = IF \E r \in Setters : Begins(r) /\ owner[EntryOf(x)] = r
                               THEN value[x] ELSE before[x]
           /\ before' = [x \in Instances |-> before'[x]]
<1>0. DOMAIN before = Instances /\ before = [x \in Instances |-> before[x]]
  BY DEF ValuesOK
<1>1. CASE HNext
  BY <1>1 DEF HNext, Begins
<1>2. CASE UNCHANGED hvars
  <2>1. UNCHANGED vars /\ before' = before /\ pc' = pc
    BY <1>2 DEF hvars, vars, request
  <2>2. \A r \in Setters : ~Begins(r)
    BY <2>1 DEF Begins
  <2> QED
    BY <1>0, <2>1, <2>2
<1> QED
  BY <1>1, <1>2

\* Every step is one of a SET or leaves all SETs alone.
LEMMA KeptCases ==
    ASSUME BaseInv, ValuesOK(before), [HNext]_hvars
    PROVE  \/ \E r \in Setters :
                /\ SetStep(r)
                /\ \A s \in Setters : s # r => Same(s) /\ Kept(s)
                /\ \A x \in Instances :
                     before'[x] = IF Begins(r) /\ owner[EntryOf(x)] = r THEN value[x] ELSE before[x]
           \/ /\ (\E g \in Getters : GetStep(g)) \/ UNCHANGED vars
              /\ UNCHANGED <<value, undo, pdu>>
              /\ \A x \in Instances : before'[x] = before[x]
              /\ \A s \in Setters : Same(s) /\ Kept(s)
<1>0. [Next]_vars
  BY BeforeStep
<1>1. \A x \in Instances : EntryOf(x) \in Entries
  BY InstanceProperties
<1>2. NoRequest \notin Setters /\ \A g \in Getters : g \notin Setters
  BY TransactionAssumption DEF TransactionAssumption, Requests
<1>3. CASE \E r \in Setters : SetStep(r)
  <2>1. PICK r \in Setters : SetStep(r)
    BY <1>3
  <2>2. \A s \in Setters : s # r => Same(s)
    BY <2>1, OthersSame DEF BaseInv
  <2>3. \A s \in Setters : s # r => ~Begins(s)
    BY <2>2 DEF Same, Begins
  <2>4. \A x \in Instances :
          before'[x] = IF Begins(r) /\ owner[EntryOf(x)] = r THEN value[x] ELSE before[x]
    BY <2>3, BeforeStep
  <2>5. ASSUME NEW s \in Setters, s # r, NEW x \in Instances
        PROVE  /\ owner'[EntryOf(x)] = s <=> owner[EntryOf(x)] = s
               /\ owner[EntryOf(x)] = s =>
                    value'[x] = value[x] /\ undo'[x] = undo[x] /\ before'[x] = before[x]
    <3>1. owner'[EntryOf(x)] = s <=> owner[EntryOf(x)] = s
      BY <1>1, <1>2, <2>1, <2>5, SetOwners
    <3>2. owner[EntryOf(x)] = s => ~Locks(r, EntryOf(x))
      BY <2>5, LockOwner
    <3> QED
      BY <2>1, <2>4, <2>5, <3>1, <3>2, WritesLocked
  <2>6. \A s \in Setters : s # r => Kept(s)
    BY <2>5 DEF Kept
  <2> QED
    BY <2>1, <2>2, <2>4, <2>6
<1>4. CASE (\E g \in Getters : GetStep(g)) \/ UNCHANGED vars
  <2>1. UNCHANGED <<value, undo, pdu>> /\ \A s \in Setters : Same(s)
    <3>1. CASE \E g \in Getters : GetStep(g)
      <4>1. PICK g \in Getters : GetStep(g)
        BY <3>1
      <4>2. UNCHANGED <<value, undo>> /\ \A s \in Setters : Same(s)
        BY <4>1, GetQuiet DEF BaseInv
      <4>3. pdu' = pdu
        BY <4>1 DEF GetStep, StartGet, LockEntry, Read, EndGet
      <4> QED
        BY <4>2, <4>3
    <3>2. CASE UNCHANGED vars
      BY <3>2, StutterQuiet DEF vars, request
    <3> QED
      BY <1>4, <3>1, <3>2
  <2>2. \A s \in Setters : ~Begins(s)
    BY <2>1 DEF Same, Begins
  <2>3. \A x \in Instances : before'[x] = before[x]
    BY <2>2, BeforeStep
  <2>4. \A s \in Setters, e \in Entries : owner'[e] = s <=> owner[e] = s
    <3>1. CASE \E g \in Getters : GetStep(g)
      BY <1>2, <3>1, GetOwners
    <3>2. CASE UNCHANGED vars
      BY <3>2 DEF vars
    <3> QED
      BY <1>4, <3>1, <3>2
  <2>5. \A s \in Setters : Kept(s)
    BY <1>1, <2>1, <2>3, <2>4 DEF Kept
  <2> QED
    BY <1>4, <2>1, <2>3, <2>5
<1> QED
  BY <1>0, <1>3, <1>4 DEF Next, Terminated

\* Whether a row of s is there is not changed by others.
LEMMA MissingKept ==
    ASSUME NEW s, Kept(s), NEW x \in Instances, owner[EntryOf(x)] = s
    PROVE  /\ RowMissing(x, value') <=> RowMissing(x, value)
           /\ RowMissing(x, before') <=> RowMissing(x, before)
           /\ RowExists(x, value') <=> RowExists(x, value)
           /\ RowExists(x, before') <=> RowExists(x, before)
<1>1. InTable(x) => StatusOf(x) \in Instances /\ EntryOf(StatusOf(x)) = EntryOf(x)
  BY InstanceProperties DEF StatusOf, EntryOf
<1>2. InTable(x) => value'[StatusOf(x)] = value[StatusOf(x)] /\ before'[StatusOf(x)] = before[StatusOf(x)]
  BY <1>1 DEF Kept
<1> QED
  BY <1>2 DEF RowMissing, RowExists

\* The entry of a locked binding.
LEMMA BindingOwner ==
    ASSUME BaseInv, NEW s \in Setters, NEW j \in 1..MaxVbs, locks[s][j] # NoEntry
    PROVE  /\ j \in DOMAIN pdu[s] /\ pdu[s][j].inst \in Instances
           /\ locks[s][j] = EntryOf(pdu[s][j].inst)
           /\ Locks(s, EntryOf(pdu[s][j].inst))
           /\ owner[EntryOf(pdu[s][j].inst)] = s
<1>1. j \in DOMAIN pdu[s] /\ locks[s][j] = EntryOf(pdu[s][j].inst)
  BY DEF BaseInv, LockInv, LocksNamed
<1>2. pdu[s][j].inst \in Instances
  BY <1>1, Bindings DEF BaseInv
<1>3. Locks(s, EntryOf(pdu[s][j].inst))
  BY <1>1 DEF Locks
<1> QED
  BY <1>1, <1>2, <1>3, LockOwner

\* The state of a SET that does nothing stays.
LEMMA RequestFrame ==
    ASSUME BaseInv, NEW s \in Setters, Same(s), Kept(s), RequestState(s), BindingOK(s)
    PROVE  RequestState(s)'
<1> USE DEF RequestState
<1>0. \A j \in DOMAIN pdu[s] : pdu[s][j].inst \in Instances
  BY Bindings DEF BaseInv
<1>1. StatusKnown(s)'
  BY DEF StatusKnown, Same
<1>2. PrepareFound(s)'
  <2>1. ASSUME NEW j \in 1..MaxVbs, locks[s][j] # NoEntry
        PROVE  /\ Found(s, j, value) => Found(s, j, value)'
               /\ Found(s, j, before) => Found(s, j, before)'
    <3> DEFINE x == pdu[s][j].inst
    <3>1. /\ RowMissing(x, value') <=> RowMissing(x, value)
          /\ RowMissing(x, before') <=> RowMissing(x, before)
          /\ RowExists(x, value') <=> RowExists(x, value)
          /\ RowExists(x, before') <=> RowExists(x, before)
      BY <2>1, BindingOwner, MissingKept
    <3> QED
      BY <3>1 DEF Found, Same
  <2> QED
    BY <2>1 DEF PrepareFound, Same, Preparing
<1>3. DoneEarly(s)'
  <2> SUFFICES ASSUME Preparing(s), NEW j \in done[s]
               PROVE  /\ Locks(s, EntryOf(pdu[s][j].inst))'
                      /\ RowMissing(pdu[s][j].inst, value)'
                      /\ RowRequest(pdu[s], pdu[s][j].inst) = "destroy"
    BY DEF DoneEarly, Same, Preparing
  <2>1. /\ Locks(s, EntryOf(pdu[s][j].inst))
        /\ RowMissing(pdu[s][j].inst, value)
        /\ RowRequest(pdu[s], pdu[s][j].inst) = "destroy"
    BY DEF DoneEarly
  <2>2. pdu[s][j].inst \in Instances
    BY <1>0 DEF BindingOK, DoneByRows
  <2>3. RowMissing(pdu[s][j].inst, value')
    BY <2>1, <2>2, LockOwner, MissingKept
  <2> QED
    BY <2>1, <2>3 DEF Same, Locks
<1>4. CommitHolds(s)'
  <2> SUFFICES ASSUME pc[s] = "commit"
               PROVE  /\ \A j \in DOMAIN pdu[s] : Locks(s, EntryOf(pdu[s][j].inst))'
                      /\ \A j \in done[s] : j \in DOMAIN pdu[s] /\ (j < idx[s] \/ Gone(pdu[s][j].inst)')
                      /\ \A j \in DOMAIN pdu[s] : j < idx[s] => j \in done[s] \/ ~Gone(pdu[s][j].inst)'
    BY DEF CommitHolds, Same
  <2>1. \A j \in DOMAIN pdu[s] : Locks(s, EntryOf(pdu[s][j].inst))'
    BY DEF CommitHolds, Same, Locks
  <2>2. \A j \in DOMAIN pdu[s] : Gone(pdu[s][j].inst)' <=> Gone(pdu[s][j].inst)
    BY <1>0, LockOwner, MissingKept DEF CommitHolds, Gone, Same
  <2> QED
    BY <2>1, <2>2 DEF CommitHolds
<1>5. CommitState(s)'
  <2> SUFFICES ASSUME pc[s] = "commit", NEW x \in Instances, owner'[EntryOf(x)] = s
               PROVE  IF NamingRow(pdu[s], x) = {} THEN Untouched(x)'
                      ELSE IF Gone(x)' THEN NewRowState(s, x)' ELSE OldState(s, x)'
    BY DEF CommitState, Same
  <2>1. owner[EntryOf(x)] = s /\ value'[x] = value[x] /\ undo'[x] = undo[x] /\ before'[x] = before[x]
    BY DEF Kept
  <2>2. Gone(x)' <=> Gone(x)
    BY <2>1, MissingKept DEF Gone
  <2>3. (Untouched(x)' <=> Untouched(x)) /\ (NewRowState(s, x)' <=> NewRowState(s, x))
        /\ (OldState(s, x)' <=> OldState(s, x))
    BY <2>1 DEF Untouched, NewRowState, OldState, Same
  <2> QED
    BY <2>1, <2>2, <2>3 DEF CommitState
<1>6. UndoState(s)'
  BY DEF UndoState, Same, Kept, Untouched
<1> QED
  BY <1>1, <1>2, <1>3, <1>4, <1>5, <1>6

-----------------------------------------------------------------------------
(* The steps of a SET itself.                                              *)

\* What is asked of a row does not depend on the instance that stands for it.
LEMMA RowSame ==
    ASSUME NEW x \in Instances, NEW y \in Instances, InRow(x, y)
    PROVE  /\ \A p : /\ StatusVbs(p, x) = StatusVbs(p, y) /\ RowRequest(p, x) = RowRequest(p, y)
                     /\ NamingRow(p, x) = NamingRow(p, y) /\ (Destroys(p, x) <=> Destroys(p, y))
                     /\ (Life(p, x) <=> Life(p, y)) /\ (MayCreate(p, x) <=> MayCreate(p, y))
           /\ \A v : (RowMissing(x, v) <=> RowMissing(y, v)) /\ (RowExists(x, v) <=> RowExists(y, v))
<1>1. StatusOf(x) = StatusOf(y) /\ EntryOf(x) = EntryOf(y) /\ RowOf(x) = RowOf(y)
  BY DEF InRow, RowOf, EntryOf, StatusOf
<1>2. \A p : StatusVbs(p, x) = StatusVbs(p, y) /\ NamingRow(p, x) = NamingRow(p, y)
  BY <1>1 DEF StatusVbs, NamingRow, InRow
<1>3. \A p : RowRequest(p, x) = RowRequest(p, y)
  BY <1>2 DEF RowRequest
<1>4. \A v : (RowMissing(x, v) <=> RowMissing(y, v)) /\ (RowExists(x, v) <=> RowExists(y, v))
  BY <1>1 DEF RowMissing, RowExists, InTable
<1> QED
  BY <1>2, <1>3, <1>4 DEF Destroys, Life, MayCreate

\* The status of a row is named once, so check_creation obeys that binding.
LEMMA DestroyRequest ==
    ASSUME DistinctVbs, NEW p \in SetPdus, NEW x
    PROVE  Destroys(p, x) <=> StatusVbs(p, x) # {} /\ RowRequest(p, x) = "destroy"
<1>1. \A i, j \in StatusVbs(p, x) : i = j
  BY DEF DistinctVbs, StatusVbs, Naming
<1>2. StatusVbs(p, x) # {} => Least(StatusVbs(p, x)) \in StatusVbs(p, x)
  BY LeastIn
<1> QED
  BY <1>1, <1>2 DEF Destroys, RowRequest

\* The bindings of a row are there in the PDU.
LEMMA OwnRow ==
    ASSUME NEW p \in Pdus, NEW i \in DOMAIN p
    PROVE  p[i].inst \in Instances /\ i \in NamingRow(p, p[i].inst)
BY PduProperties, VbProperties DEF NamingRow, InRow

LEMMA OwnPreparing ==
    ASSUME BaseInv, BindingInv, PassInv, NEW r \in Setters, RequestState(r),
           StartSet(r) \/ SkipReady(r) \/ FindEntry(r) \/ Lock(r)
    PROVE  RequestState(r)'
<1> USE DEF RequestState
<1>1. /\ UNCHANGED <<value, pdu, locks, done, status>> /\ Preparing(r)'
      /\ Preparing(r) \/ pc[r] = "start"
      /\ pc'[r] \notin {"commit", "undo"} /\ pc[r] \in {"start", "prepare", "lock"}
  BY DEF BaseInv, TypeInv, ControlOK, Requests, StartSet, SkipReady, FindEntry, Lock, Goto, NextVb, request,
     setRequest, objects, Preparing
<1>2. pc[r] = "start" => done[r] = {} /\ \A j \in 1..MaxVbs : locks[r][j] = NoEntry
  BY DEF BindingInv, BindingOK, Fresh
<1>3. StatusKnown(r)'
  BY <1>1 DEF StatusKnown
<1>4. PrepareFound(r)'
  BY <1>1, <1>2 DEF PrepareFound, Found
<1>5. DoneEarly(r)'
  BY <1>1, <1>2 DEF DoneEarly, Locks
<1> QED
  BY <1>1, <1>3, <1>4, <1>5 DEF CommitHolds, CommitState, UndoState

\* A SET that has nothing more to do than clean up or end.
LEMMA OwnEnding ==
    ASSUME BaseInv, NEW r \in Setters,
           \/ Deny(r) \/ Reject(r) \/ Committed(r) \/ Undone(r) \/ Cleanup(r) \/ CleanedUp(r)
           \/ Answer(r) \/ Release(r) \/ Delete(r)
    PROVE  RequestState(r)' /\ pc'[r] \in {"cleanup", "answer", "delete", "done"}
<1>1. pc'[r] \in {"cleanup", "answer", "delete", "done"}
  BY DEF BaseInv, TypeInv, ControlOK, Requests, Deny, Reject, Committed, Undone, Cleanup, CleanedUp, Answer,
     Release, Delete, Goto
<1> QED
  BY <1>1 DEF RequestState, StatusKnown, PrepareFound, DoneEarly, CommitHolds, CommitState, UndoState, Preparing

\* prepare_set_request finds out what it records about the binding.
LEMMA OwnAccept ==
    ASSUME BaseInv, ValuesOK(value), NEW r \in Setters, BindingOK(r), RequestState(r), Accept(r)
    PROVE  RequestState(r)'
<1> USE DEF RequestState
<1> DEFINE p == pdu[r]
           i == idx[r]
           x == p[i].inst
<1>1. /\ r \in Requests /\ InPdu(r) /\ i \in DOMAIN p /\ i \in 1..MaxVbs /\ x \in Instances /\ Current(r) = x
      /\ \A j \in 1..MaxVbs : locks'[r][j] = IF j = i THEN EntryOf(x) ELSE locks[r][j]
      /\ p \in Pdus /\ \A j \in DOMAIN p : p[j].inst \in Instances
  BY LockedBinding, Bindings DEF Accept, BaseInv
<1>2. /\ pc[r] = "lock" /\ pc'[r] = "prepare" /\ pdu' = pdu /\ value' = value /\ status' = status
      /\ done'[r] = done[r] \union Ignored(p, i, value)
      /\ MayPrepare(p, i, value, deleteRows)
  BY <1>1 DEF Accept, Locked, BaseInv, TypeInv, ControlOK, SetOK
<1>3. StatusKnown(r)' /\ CommitHolds(r)' /\ CommitState(r)' /\ UndoState(r)'
  BY <1>2 DEF StatusKnown, CommitHolds, CommitState, UndoState
<1>4. RowMissing(x, value) => /\ MayCreate(p, x)
                              /\ RowRequest(p, x) = "destroy" => NamingRow(p, x) \subseteq done'[r]
  <2> SUFFICES ASSUME RowMissing(x, value)
               PROVE  /\ MayCreate(p, x)
                      /\ RowRequest(p, x) = "destroy" => NamingRow(p, x) \subseteq done'[r]
    OBVIOUS
  <2>1. MayCreate(p, x)
    BY <1>2 DEF MayPrepare, RowMissing
  <2>2. Covered(p, i, value) = NamingRow(p, x) /\ i \in NamingRow(p, x)
    BY <1>1, OwnRow DEF Covered
  <2>3. RowRequest(p, x) = "destroy" => Ignored(p, i, value) = NamingRow(p, x)
    BY <2>2 DEF Ignored
  <2> QED
    BY <1>2, <2>1, <2>3
<1>5. RowExists(x, value) /\ IsStatus(x) => p[i].val \in {"active", "notInService", "destroy"}
  <2> SUFFICES ASSUME RowExists(x, value), IsStatus(x)
               PROVE  p[i].val \in {"active", "notInService", "destroy"}
    OBVIOUS
  <2>1. TransitionOk(value[x], p[i].val)
    BY <1>2 DEF MayPrepare, RowMissing, RowExists
  <2>2. value[x] \in {"notReady", "notInService", "active", "destroy"}
    BY <1>1, InstanceProperties DEF ValuesOK, RowExists, RowStates
  <2> QED
    BY <2>1, <2>2 DEF TransitionOk, Transitions
<1>6. PrepareFound(r)'
  <2> SUFFICES ASSUME NEW j \in 1..MaxVbs, locks'[r][j] # NoEntry
               PROVE  Found(r, j, value)'
    BY <1>2 DEF PrepareFound
  <2>1. CASE j = i
    BY <1>2, <1>4, <1>5, <2>1 DEF Found
  <2>2. CASE j # i
    <3>1. Found(r, j, value)
      BY <1>1, <1>2, <2>2 DEF PrepareFound, Preparing
    <3> QED
      BY <1>2, <3>1 DEF Found
  <2> QED
    BY <2>1, <2>2
<1>7. DoneEarly(r)'
  <2> SUFFICES ASSUME NEW j \in done'[r]
               PROVE  /\ Locks(r, EntryOf(p[j].inst))'
                      /\ RowMissing(p[j].inst, value)
                      /\ RowRequest(p, p[j].inst) = "destroy"
    BY <1>2 DEF DoneEarly
  <2>1. CASE j \in done[r]
    <3>1. /\ Locks(r, EntryOf(p[j].inst))
          /\ RowMissing(p[j].inst, value)
          /\ RowRequest(p, p[j].inst) = "destroy"
      BY <1>2, <2>1 DEF DoneEarly, Preparing
    <3>2. p[j].inst \in Instances
      BY <1>1, <1>2, <2>1 DEF BindingOK, DoneByRows, Preparing
    <3>3. EntryOf(p[j].inst) # NoEntry
      BY <3>2, InstanceProperties, TransactionAssumption DEF TransactionAssumption
    <3>4. PICK e \in Entries : e = EntryOf(p[j].inst)
      BY <3>2, InstanceProperties
    <3>5. Locks(r, e)'
      BY <3>1, <3>3, <3>4, LocksGrow DEF Accept
    <3> QED
      BY <1>2, <3>1, <3>4, <3>5
  <2>2. CASE j \in Ignored(p, i, value)
    <3>1. RowMissing(x, value) /\ RowRequest(p, x) = "destroy" /\ j \in NamingRow(p, x)
      BY <2>2 DEF Ignored, Covered
    <3>2. p[j].inst \in Instances /\ InRow(p[j].inst, x)
      BY <1>1, <3>1 DEF NamingRow
    <3>3. RowMissing(p[j].inst, value) /\ RowRequest(p, p[j].inst) = "destroy"
      BY <1>1, <3>1, <3>2, RowSame
    <3>4. EntryOf(p[j].inst) = EntryOf(x)
      BY <1>1, <3>2, SameEntry
    <3> QED
      BY <1>1, <1>2, <3>3, <3>4 DEF Locks
  <2> QED
    BY <1>2, <2>1, <2>2
<1> QED
  BY <1>3, <1>6, <1>7

\* The commit phase begins: what the SET finds in its entries is before.
LEMMA OwnPrepared ==
    ASSUME DistinctVbs, BaseInv, UndoLocked, ValuesOK(value), NEW r \in Setters, BindingOK(r), RequestState(r), Prepared(r),
           \A x \in Instances :
             before'[x] = IF Begins(r) /\ owner[EntryOf(x)] = r THEN value[x] ELSE before[x]
    PROVE  RequestState(r)'
<1> USE DEF RequestState
<1> DEFINE p == pdu[r]
<1>1. /\ r \in Requests /\ p \in Pdus /\ p \in SetPdus
      /\ DOMAIN p \subseteq 1..MaxVbs /\ DOMAIN p = 1..Len(p) /\ Len(p) \in Nat
      /\ \A j \in DOMAIN p : p[j].inst \in Instances
      /\ \A j \in DOMAIN p : j < idx[r]
  BY Bindings DEF Prepared, BaseInv
<1>2. /\ UNCHANGED <<value, undo, pdu, owner, locks, done, status>>
      /\ pc[r] = "prepare" /\ pc'[r] = "commit" /\ idx'[r] = 1 /\ Preparing(r)
  BY <1>1 DEF Prepared, Goto, setRequest, objects, BaseInv, TypeInv, ControlOK, Preparing
<1>3. \A x \in Instances : owner[EntryOf(x)] = r => before'[x] = value[x]
  BY <1>2 DEF Begins
<1>4. \A x \in Instances : owner[EntryOf(x)] = r =>
        (RowMissing(x, before') <=> RowMissing(x, value)) /\ (RowExists(x, before') <=> RowExists(x, value))
  <2> SUFFICES ASSUME NEW x \in Instances, owner[EntryOf(x)] = r
               PROVE  InTable(x) => before'[StatusOf(x)] = value[StatusOf(x)]
    BY DEF RowMissing, RowExists
  <2>1. InTable(x) => StatusOf(x) \in Instances /\ EntryOf(StatusOf(x)) = EntryOf(x)
    BY InstanceProperties DEF StatusOf, EntryOf
  <2> QED
    BY <1>3, <2>1
<1>5. StatusKnown(r)' /\ DoneEarly(r)' /\ UndoState(r)'
  BY <1>2 DEF StatusKnown, DoneEarly, UndoState, Preparing
<1>6. PrepareFound(r)'
  <2> SUFFICES ASSUME NEW j \in 1..MaxVbs, locks[r][j] # NoEntry
               PROVE  Found(r, j, before)'
    BY <1>2 DEF PrepareFound, Preparing
  <2>1. Found(r, j, value)
    BY <1>2 DEF PrepareFound
  <2>2. /\ RowMissing(p[j].inst, before') <=> RowMissing(p[j].inst, value)
        /\ RowExists(p[j].inst, before') <=> RowExists(p[j].inst, value)
    BY <1>4, BindingOwner
  <2> QED
    BY <1>2, <2>1, <2>2 DEF Found
\* Every row the PDU names has a locked binding.
<1>7. ASSUME NEW j \in DOMAIN p
      PROVE  \E i \in 1..MaxVbs : locks[r][i] # NoEntry /\ i \in DOMAIN p /\ InRow(p[i].inst, p[j].inst)
  <2>1. CASE locks[r][j] # NoEntry
    BY <1>1, <2>1 DEF InRow
  <2>2. CASE locks[r][j] = NoEntry
    <3>1. j \in ready[r]
      BY <1>1, <1>2, <2>2 DEF BindingOK, Progress
    <3> QED
      BY <1>2, <2>2, <3>1 DEF BindingOK, ReadyCovered, Covers
  <2> QED
    BY <2>1, <2>2
<1>8. \A j \in DOMAIN p : Locks(r, EntryOf(p[j].inst))
  <2> SUFFICES ASSUME NEW j \in DOMAIN p PROVE Locks(r, EntryOf(p[j].inst))
    OBVIOUS
  <2>1. PICK i \in 1..MaxVbs : locks[r][i] # NoEntry /\ i \in DOMAIN p /\ InRow(p[i].inst, p[j].inst)
    BY <1>7
  <2>2. EntryOf(p[i].inst) = EntryOf(p[j].inst)
    BY <1>1, <2>1, SameEntry
  <2> QED
    BY <2>1, <2>2, BindingOwner
<1>9. \A j \in done[r] : /\ j \in DOMAIN p /\ RowMissing(p[j].inst, value)
                         /\ RowRequest(p, p[j].inst) = "destroy" /\ owner[EntryOf(p[j].inst)] = r
  <2>1. \A j \in done[r] : j \in DOMAIN p
    BY <1>2 DEF BindingOK, DoneByRows
  <2> QED
    BY <1>1, <1>2, <2>1, LockOwner DEF DoneEarly
<1>10. CommitHolds(r)'
  BY <1>1, <1>2, <1>4, <1>8, <1>9 DEF CommitHolds, Gone, Locks
<1>11. CommitState(r)'
  <2> SUFFICES ASSUME NEW x \in Instances, owner[EntryOf(x)] = r
               PROVE  IF NamingRow(p, x) = {} THEN Untouched(x)'
                      ELSE IF Gone(x)' THEN NewRowState(r, x)' ELSE OldState(r, x)'
    BY <1>2 DEF CommitState
  <2>1. undo[x] = NoUndo
    <3> SUFFICES ASSUME undo[x] # NoUndo PROVE FALSE
      OBVIOUS
    <3>1. PICK s \in Setters : MayRestore(s, x)
      BY DEF UndoLocked
    <3>2. s = r
      BY <3>1, LockOwner DEF MayRestore
    <3> QED
      BY <1>2, <3>1, <3>2 DEF MayRestore
  <2>2. Untouched(x)'
    BY <1>2, <1>3, <2>1 DEF Untouched
  <2>3. ASSUME NamingRow(p, x) # {}, Gone(x)' PROVE NewRowState(r, x)'
    <3>1. RowMissing(x, value)
      BY <1>4, <2>3 DEF Gone
    <3>2. PICK j \in DOMAIN p : InRow(p[j].inst, x)
      BY <2>3 DEF NamingRow
    <3>3. PICK i \in 1..MaxVbs : locks[r][i] # NoEntry /\ i \in DOMAIN p /\ InRow(p[i].inst, p[j].inst)
      BY <1>7
    <3>4. p[i].inst \in Instances /\ InRow(p[i].inst, x)
      BY <1>1, <3>2, <3>3 DEF InRow
    <3>5. Found(r, i, value)
      BY <1>2, <3>3 DEF PrepareFound
    <3>6. MayCreate(p, x) /\ (RowRequest(p, x) = "destroy" => NamingRow(p, x) \subseteq done[r])
      BY <3>1, <3>4, <3>5, RowSame DEF Found
    <3>7. CASE RowRequest(p, x) = "destroy"
      BY <1>2, <2>2, <3>6, <3>7, CreatedLife DEF NewRowState
    <3>8. CASE RowRequest(p, x) # "destroy"
      <4>1. NamingRow(p, x) \intersect done[r] = {}
        <5> SUFFICES ASSUME NEW k \in NamingRow(p, x), k \in done[r] PROVE FALSE
          OBVIOUS
        <5>1. p[k].inst \in Instances /\ InRow(p[k].inst, x)
          BY <1>1 DEF NamingRow
        <5> QED
          BY <1>9, <3>8, <5>1, RowSame
      <4>2. ~Destroys(p, x)
        BY <1>1, <3>8, DestroyRequest
      <4> QED
        BY <1>2, <2>2, <4>1, <4>2 DEF NewRowState
    <3> QED
      BY <3>7, <3>8
  <2>4. ASSUME NamingRow(p, x) # {} PROVE OldState(r, x)'
    <3>1. Len(p) >= 1
      <4>1. PICK j : j \in DOMAIN p
        BY <2>4 DEF NamingRow
      <4> QED
        BY <1>1, <4>1
    <3>2. ~(1 > Len(p)) /\ \A j \in Naming(p, x) : ~(j < 1)
      BY <1>1, <3>1 DEF Naming
    <3> QED
      BY <1>2, <2>2, <3>2 DEF OldState
  <2> QED
    BY <2>2, <2>3, <2>4
<1> QED
  BY <1>5, <1>6, <1>10, <1>11

\* A binding that is done ahead is for a row that was not there.
LEMMA OwnSkipDone ==
    ASSUME DestroyLast, BaseInv, NEW r \in Setters, RequestState(r), SkipDone(r), before' = before
    PROVE  RequestState(r)'
<1> USE DEF RequestState
<1> DEFINE p == pdu[r]
           i == idx[r]
<1>1. /\ r \in Requests /\ p \in Pdus /\ p \in SetPdus /\ DOMAIN p = 1..Len(p) /\ Len(p) \in Nat
      /\ \A j \in DOMAIN p : p[j].inst \in Instances
      /\ i \in DOMAIN p /\ i \in 1..Len(p)
  BY Bindings DEF SkipDone, BaseInv
<1>2. /\ UNCHANGED <<value, undo, pdu, owner, locks, done, status>>
      /\ pc[r] = "commit" /\ pc'[r] = "commit" /\ idx'[r] = i + 1 /\ i \in done[r]
  BY <1>1 DEF SkipDone, NextVb, setRequest, objects, BaseInv, TypeInv, ControlOK
<1>3. Gone(p[i].inst)
  BY <1>1, <1>2 DEF CommitHolds
<1>4. StatusKnown(r)' /\ DoneEarly(r)' /\ UndoState(r)'
  BY <1>2 DEF StatusKnown, DoneEarly, UndoState, Preparing
<1>5. PrepareFound(r)'
  BY <1>2 DEF PrepareFound, Found, Preparing
<1>6. CommitHolds(r)'
  <2>1. \A j \in DOMAIN p : (j < i => j < i + 1) /\ (j < i + 1 => j < i \/ j = i)
    BY <1>1
  <2>2. /\ \A j \in DOMAIN p : Locks(r, EntryOf(p[j].inst))
        /\ \A j \in done[r] : j \in DOMAIN p /\ (j < i + 1 \/ Gone(p[j].inst))
        /\ \A j \in DOMAIN p : j < i + 1 => j \in done[r] \/ ~Gone(p[j].inst)
    BY <1>2, <2>1 DEF CommitHolds
  <2> QED
    BY <1>2, <2>2 DEF CommitHolds, Gone, Locks
<1>7. CommitState(r)'
  <2> SUFFICES ASSUME NEW x \in Instances, owner[EntryOf(x)] = r
               PROVE  IF NamingRow(p, x) = {} THEN Untouched(x)'
                      ELSE IF Gone(x)' THEN NewRowState(r, x)' ELSE OldState(r, x)'
    BY <1>2 DEF CommitState
  <2>1. (Untouched(x)' <=> Untouched(x)) /\ (Gone(x)' <=> Gone(x))
    BY <1>2 DEF Untouched, Gone
  <2>2. CASE NamingRow(p, x) = {}
    BY <1>2, <2>1, <2>2 DEF CommitState
  <2>3. CASE NamingRow(p, x) # {} /\ Gone(x)
    <3>1. NewRowState(r, x)
      BY <1>2, <2>3 DEF CommitState
    <3>2. \A k \in DOMAIN p : i + 1 <= k => i <= k
      BY <1>1
    <3>3. NewRowState(r, x)'
      BY <1>2, <2>1, <3>1, <3>2 DEF NewRowState
    <3> QED
      BY <2>1, <2>3, <3>3
  <2>4. CASE NamingRow(p, x) # {} /\ ~Gone(x)
    <3>1. OldState(r, x)
      BY <1>2, <2>4 DEF CommitState
    <3>2. ~InRow(p[i].inst, x)
      BY <1>1, <1>3, <2>4, RowSame DEF Gone
    <3>3. \A j \in Naming(p, x) : j \in DOMAIN p /\ j # i
      BY <3>2 DEF Naming, InRow
    <3>4. \A j \in Naming(p, x) : j < i + 1 <=> j < i
      BY <1>1, <3>3
    <3>5. Destroys(p, x) => Len(p) # i
      <4> SUFFICES ASSUME Destroys(p, x), Len(p) = i PROVE FALSE
        OBVIOUS
      <4>1. PICK a \in StatusVbs(p, x) : p[a].val = "destroy"
        BY DEF Destroys
      <4>2. a = i /\ p[a].inst = StatusOf(x)
        BY <1>1, <4>1 DEF DestroyLast, StatusVbs, Naming
      <4> QED
        BY <3>2, <4>2 DEF InRow, RowOf, StatusOf
    <3>6. ~(i > Len(p)) /\ (i + 1 > Len(p) => Len(p) = i)
      BY <1>1
    <3>7. OldState(r, x)'
      BY <1>2, <2>1, <3>1, <3>4, <3>5, <3>6 DEF OldState
    <3> QED
      BY <2>1, <2>4, <3>7
  <2> QED
    BY <2>2, <2>3, <2>4
<1> QED
  BY <1>4, <1>5, <1>6, <1>7

\* What a SET knows of the row of the binding it commits.
LEMMA CurrentRow ==
    ASSUME DistinctVbs, BaseInv, BindingInv, ValuesOK(before), NEW r \in Setters, RequestState(r),
           Commit(r)
    PROVE  /\ r \in Requests /\ pdu[r] \in Pdus /\ pdu[r] \in SetPdus /\ idx[r] \in 1..Len(pdu[r])
           /\ pdu[r][idx[r]].inst \in Instances /\ Len(pdu[r]) \in Nat
           /\ DOMAIN pdu[r] = 1..Len(pdu[r])
           /\ locks[r][idx[r]] # NoEntry /\ owner[EntryOf(pdu[r][idx[r]].inst)] = r
           /\ Found(r, idx[r], before)
           /\ RowMissing(pdu[r][idx[r]].inst, value) <=> Gone(pdu[r][idx[r]].inst)
           /\ \A y \in Instances : owner[EntryOf(y)] = r =>
                IF NamingRow(pdu[r], y) = {} THEN Untouched(y)
                ELSE IF Gone(y)
                  THEN /\ Untouched(y)
                       /\ IF Destroys(pdu[r], y) THEN NamingRow(pdu[r], y) \subseteq done[r]
                          ELSE NamingRow(pdu[r], y) \intersect done[r] = {}
                ELSE IF \E j \in Naming(pdu[r], y) : j < idx[r]
                  THEN value[y] = NewValue(pdu[r], y) /\ undo[y] = before[y]
                ELSE Untouched(y)
<1> USE DEF RequestState
<1> DEFINE p == pdu[r]
           i == idx[r]
           x == p[i].inst
           s == StatusOf(x)
<1>1. /\ r \in Requests /\ p \in Pdus /\ p \in SetPdus /\ DOMAIN p = 1..Len(p) /\ Len(p) \in Nat
      /\ DOMAIN p \subseteq 1..MaxVbs /\ i \in DOMAIN p /\ i \in 1..Len(p) /\ x \in Instances
      /\ pc[r] = "commit" /\ i \notin done[r]
  BY Bindings DEF Commit, BaseInv
<1>2. locks[r][i] # NoEntry
  BY CommitBinding, DistinctOnce DEF BindingInv
<1>3. owner[EntryOf(x)] = r /\ Found(r, i, before)
  BY <1>1, <1>2, BindingOwner DEF PrepareFound
<1>4. ASSUME NEW y \in Instances, owner[EntryOf(y)] = r
      PROVE  IF NamingRow(p, y) = {} THEN Untouched(y)
             ELSE IF Gone(y)
               THEN /\ Untouched(y)
                    /\ IF Destroys(p, y) THEN NamingRow(p, y) \subseteq done[r]
                       ELSE NamingRow(p, y) \intersect done[r] = {}
             ELSE IF \E j \in Naming(p, y) : j < i
               THEN value[y] = NewValue(p, y) /\ undo[y] = before[y]
             ELSE Untouched(y)
  <2>1. IF NamingRow(p, y) = {} THEN Untouched(y)
        ELSE IF Gone(y) THEN NewRowState(r, y) ELSE OldState(r, y)
    BY <1>1, <1>4 DEF CommitState
  <2>2. i <= i /\ ~(i > Len(p))
    BY <1>1
  <2>3. NewRowState(r, y) =>
          /\ Untouched(y)
          /\ IF Destroys(p, y) THEN NamingRow(p, y) \subseteq done[r]
             ELSE NamingRow(p, y) \intersect done[r] = {}
    BY <1>1, <2>2 DEF NewRowState
  <2>4. OldState(r, y) => IF \E j \in Naming(p, y) : j < i
                            THEN value[y] = NewValue(p, y) /\ undo[y] = before[y]
                          ELSE Untouched(y)
    BY <2>2 DEF OldState
  <2> QED
    BY <2>1, <2>3, <2>4
<1>5. RowMissing(x, value) <=> Gone(x)
  <2>1. CASE ~InTable(x)
    BY <2>1 DEF Gone, RowMissing
  <2>2. CASE InTable(x)
    <3>1. s \in Instances /\ owner[EntryOf(s)] = r /\ InRow(x, s)
      BY <1>1, <1>3, <2>2, InstanceProperties DEF StatusOf, EntryOf, InRow, RowOf
    <3>2. NamingRow(p, s) # {} /\ (Gone(s) <=> Gone(x)) /\ (RowMissing(s, value) <=> RowMissing(x, value))
      BY <1>1, <3>1, OwnRow, RowSame DEF Gone
    <3>3. Gone(s) => value[s] = before[s]
      BY <1>4, <3>1, <3>2 DEF Untouched
    <3>4. ~Gone(s) => value[s] # Absent
      BY <1>1, <1>4, <3>1, <3>2, NewRowType DEF Untouched, ValuesOK, Gone
    <3>5. Gone(s) <=> before[s] = Absent
      BY <3>1 DEF ValuesOK, Gone
    <3>6. RowMissing(s, value) <=> value[s] = Absent
      BY <3>1 DEF BaseInv, TypeInv, DataOK
    <3> QED
      BY <3>2, <3>3, <3>4, <3>5, <3>6
  <2> QED
    BY <2>1, <2>2
<1> QED
  BY <1>1, <1>2, <1>3, <1>4, <1>5

\* A commit of a plain PDU, with its outcome.
CommitsWith(r, o) ==
    LET p == pdu[r]
        i == idx[r]
        x == p[i].inst
    IN /\ value' = o.value /\ undo' = o.undo
       /\ UNCHANGED <<pdu, owner, locks>>
       /\ done'[r] = done[r] \union o.finished
       /\ o.ok => idx'[r] = i + 1 /\ pc'[r] = "commit" /\ status'[r] = status[r]
       /\ ~o.ok => pc'[r] = "undo" /\ status'[r] = "commitFailed"
       /\ IF Gone(x) THEN CreatesRow(p, i, value, undo, o)
          ELSE IF IsStatus(x) /\ p[i].val = "destroy" THEN RemovesRow(p, i, value, undo, o)
          ELSE SetsInstance(p, i, value, undo, o)

LEMMA CommitOutcome ==
    ASSUME PlainSets, BaseInv, BindingInv, ValuesOK(value), ValuesOK(before),
           NEW r \in Setters, RequestState(r), Commit(r)
    PROVE  \E o : CommitsWith(r, o)
<1> DEFINE p == pdu[r]
           i == idx[r]
           x == p[i].inst
<1>1. /\ r \in Requests /\ p \in Pdus /\ p \in SetPdus /\ i \in 1..Len(p) /\ x \in Instances
      /\ locks[r][i] # NoEntry /\ owner[EntryOf(x)] = r /\ Found(r, i, before)
      /\ (RowMissing(x, value) <=> Gone(x))
  BY CurrentRow DEF PlainSets
<1>2. PICK o \in Commits(p, i, value, undo) :
        /\ value' = o.value /\ undo' = o.undo
        /\ done' = [done EXCEPT ![r] = @ \union o.finished]
        /\ IF o.ok
             THEN NextVb(r) /\ UNCHANGED <<pc, status>>
             ELSE Goto(r, "undo") /\ status' = [status EXCEPT ![r] = "commitFailed"]
  BY <1>1 DEF Commit, CommitOutcomes
<1>3. DataOK(value, undo)
  BY DEF BaseInv, TypeInv
<1>4. RowExists(x, value) /\ IsStatus(x) => p[i].val \in {"active", "notInService", "destroy"}
  <2>1. RowExists(x, value) => RowExists(x, before)
    BY <1>1 DEF Gone, RowMissing, RowExists
  <2> QED
    BY <1>1, <2>1 DEF Found
<1>5. IF RowMissing(x, value) THEN CreatesRow(p, i, value, undo, o)
      ELSE IF IsStatus(x) /\ p[i].val = "destroy" THEN RemovesRow(p, i, value, undo, o)
      ELSE SetsInstance(p, i, value, undo, o)
  <2>1. DistinctVbs /\ Settles /\ \A y \in Instances : value[y] = "notReady" => NoUpgrade
    BY DEF PlainSets, ValuesOK
  <2> QED
    BY <1>1, <1>3, <1>4, <2>1, CommitsExact
<1>6. UNCHANGED <<pdu, owner, locks>> /\ pc[r] = "commit"
  BY DEF Commit
<1>7. done'[r] = done[r] \union o.finished
  BY <1>2 DEF BaseInv, TypeInv, ControlOK, SetOK
<1>8. /\ o.ok => idx'[r] = i + 1 /\ pc'[r] = "commit" /\ status'[r] = status[r]
      /\ ~o.ok => pc'[r] = "undo" /\ status'[r] = "commitFailed"
  BY <1>1, <1>2, <1>6 DEF NextVb, Goto, BaseInv, TypeInv, ControlOK, SetOK
<1> QED
  BY <1>1, <1>2, <1>5, <1>6, <1>7, <1>8 DEF CommitsWith

LEMMA OwnCommit ==
    ASSUME PlainSets, BaseInv, BindingInv, ValuesOK(value), ValuesOK(before),
           NEW r \in Setters, RequestState(r), Commit(r), before' = before
    PROVE  RequestState(r)'
<1> DEFINE p == pdu[r]
           i == idx[r]
           x == p[i].inst
<1>1. /\ r \in Requests /\ p \in Pdus /\ p \in SetPdus /\ i \in 1..Len(p)
      /\ x \in Instances /\ Len(p) \in Nat /\ DOMAIN p = 1..Len(p)
      /\ owner[EntryOf(x)] = r /\ Found(r, i, before)
      /\ \A y \in Instances : owner[EntryOf(y)] = r =>
            IF NamingRow(p, y) = {} THEN Untouched(y)
            ELSE IF Gone(y)
              THEN /\ Untouched(y)
                   /\ IF Destroys(p, y) THEN NamingRow(p, y) \subseteq done[r]
                      ELSE NamingRow(p, y) \intersect done[r] = {}
            ELSE IF \E j \in Naming(p, y) : j < i
              THEN value[y] = NewValue(p, y) /\ undo[y] = before[y]
            ELSE Untouched(y)
  BY CurrentRow DEF PlainSets
<1>2. PICK o : CommitsWith(r, o)
  BY CommitOutcome
<1>3. /\ value' = o.value /\ undo' = o.undo /\ UNCHANGED <<pdu, owner, locks>>
      /\ done'[r] = done[r] \union o.finished
      /\ o.ok => idx'[r] = i + 1 /\ pc'[r] = "commit" /\ status'[r] = status[r]
      /\ ~o.ok => pc'[r] = "undo" /\ status'[r] = "commitFailed"
      /\ IF Gone(x) THEN CreatesRow(p, i, value, undo, o)
         ELSE IF IsStatus(x) /\ p[i].val = "destroy" THEN RemovesRow(p, i, value, undo, o)
         ELSE SetsInstance(p, i, value, undo, o)
  BY <1>2 DEF CommitsWith
<1>4. pc[r] = "commit" /\ i \notin done[r]
  BY DEF Commit
<1>5. \A j \in DOMAIN p : p[j].inst \in Instances
  BY Bindings DEF BaseInv
<1>6. \A y \in Instances : Gone(y)' <=> Gone(y)
  BY DEF Gone
\* The binding names its instance for the first time.
<1>12. Untouched(x) /\ Naming(p, x) = {i} /\ i \in NamingRow(p, x)
  <2>1. Naming(p, x) = {i} /\ i \in NamingRow(p, x)
    BY <1>1, NamedOnce, OwnRow DEF PlainSets
  <2>2. ~\E j \in Naming(p, x) : j < i
    BY <1>1, <2>1
  <2> QED
    BY <1>1, <2>1, <2>2
<1>13. (IsStatus(x) => InTable(x) /\ x = StatusOf(x)) /\ (InTable(x) => StatusOf(x) \in Instances)
  BY <1>1, InstanceProperties
\* What is destroyed is destroyed by the last binding.
<1>14. ASSUME NEW y \in Instances, Destroys(p, y), i = Len(p)
       PROVE  InRow(x, y) /\ IsStatus(x) /\ p[i].val = "destroy"
  <2>1. PICK a \in StatusVbs(p, y) : p[a].val = "destroy"
    BY <1>14 DEF Destroys
  <2>2. a = i /\ p[a].inst = StatusOf(y)
    BY <1>1, <1>14, <2>1 DEF PlainSets, DestroyLast, StatusVbs, Naming
  <2> QED
    BY <2>1, <2>2 DEF InRow, RowOf, StatusOf, IsStatus
<1>15. i + 1 > Len(p) <=> i = Len(p)
  BY <1>1
<1>7. StatusKnown(r)' /\ DoneEarly(r)'
  BY <1>3, <1>4 DEF RequestState, StatusKnown, DoneEarly, Preparing
<1>8. PrepareFound(r)'
  <2>1. \A j \in 1..MaxVbs : locks[r][j] # NoEntry => Found(r, j, before)
    BY <1>4 DEF RequestState, PrepareFound
  <2>2. \A j \in 1..MaxVbs : locks'[r][j] # NoEntry => Found(r, j, before)'
    BY <1>3, <2>1 DEF Found
  <2> QED
    BY <1>3, <2>2 DEF PrepareFound, Preparing
\* What is finished is the current binding, or a row that was not there.
<1>9. CommitHolds(r)'
  <2> SUFFICES ASSUME pc'[r] = "commit"
               PROVE  /\ \A j \in DOMAIN p : Locks(r, EntryOf(p[j].inst))
                      /\ \A j \in done'[r] : j \in DOMAIN p /\ (j < i + 1 \/ Gone(p[j].inst))
                      /\ \A j \in DOMAIN p : j < i + 1 => j \in done'[r] \/ ~Gone(p[j].inst)
    BY <1>3, <1>5, <1>6 DEF CommitHolds, Locks
  <2>1. /\ \A j \in DOMAIN p : Locks(r, EntryOf(p[j].inst))
        /\ \A j \in done[r] : j \in DOMAIN p /\ (j < i \/ Gone(p[j].inst))
        /\ \A j \in DOMAIN p : j < i => j \in done[r] \/ ~Gone(p[j].inst)
    BY <1>4 DEF RequestState, CommitHolds
  <2>2. \A j \in o.finished : j \in DOMAIN p /\ (j < i + 1 \/ Gone(p[j].inst))
    <3>1. CASE Gone(x)
      <4>1. o.finished \subseteq NamingRow(p, x)
        BY <1>3, <3>1 DEF CreatesRow
      <4>2. \A j \in NamingRow(p, x) : j \in DOMAIN p /\ Gone(p[j].inst)
        <5> SUFFICES ASSUME NEW j \in DOMAIN p, InRow(p[j].inst, x) PROVE Gone(p[j].inst)
          BY DEF NamingRow
        <5> QED
          BY <1>1, <1>5, <3>1, RowSame DEF Gone
      <4> QED
        BY <4>1, <4>2
    <3>2. CASE ~Gone(x)
      BY <1>1, <1>3, <3>2 DEF RemovesRow, SetsInstance
    <3> QED
      BY <3>1, <3>2
  <2>3. \A j \in DOMAIN p : (j < i => j < i + 1) /\ (j < i + 1 => j < i \/ j = i)
    BY <1>1
  <2>4. Gone(x) => i \in o.finished
    BY <1>3, <1>12 DEF CreatesRow
  <2> QED
    BY <1>3, <2>1, <2>2, <2>3, <2>4
<1>10. UndoState(r)'
  <2> SUFFICES ASSUME ~o.ok, NEW y \in Instances, owner[EntryOf(y)] = r
               PROVE  Untouched(y)' \/ undo'[y] = before[y]
    BY <1>3 DEF UndoState
  <2>1. Untouched(y) \/ undo[y] = before[y]
    BY <1>1 DEF Untouched
  <2>2. CASE Gone(x)
    BY <1>3, <2>1, <2>2 DEF CreatesRow, Untouched
  <2>3. CASE ~Gone(x)
    <3>1. SetsInstance(p, i, value, undo, o)
      BY <1>3, <2>3 DEF RemovesRow
    <3>2. CASE y # x
      BY <1>3, <2>1, <3>1, <3>2 DEF SetsInstance, Untouched
    <3>3. CASE y = x
      BY <1>3, <1>12, <3>1, <3>3 DEF SetsInstance, Untouched
    <3> QED
      BY <3>2, <3>3
  <2> QED
    BY <2>2, <2>3
<1>11. CommitState(r)'
  <2> SUFFICES ASSUME o.ok, NEW y \in Instances, owner[EntryOf(y)] = r
               PROVE  IF NamingRow(p, y) = {} THEN Untouched(y)'
                      ELSE IF Gone(y)' THEN NewRowState(r, y)' ELSE OldState(r, y)'
    BY <1>3 DEF CommitState
  <2>1. CASE ~InRow(x, y)
    <3>1. value'[y] = value[y] /\ undo'[y] = undo[y] /\ y # x
      BY <1>3, <2>1 DEF CreatesRow, RemovesRow, SetsInstance, InRow
    <3>2. o.finished \subseteq NamingRow(p, x)
      BY <1>3, <1>12 DEF CreatesRow, RemovesRow, SetsInstance
    <3>3. NamingRow(p, y) \intersect NamingRow(p, x) = {}
      BY <2>1 DEF NamingRow, InRow
    <3>4. CASE NamingRow(p, y) = {}
      BY <1>1, <3>1, <3>4 DEF Untouched
    <3>5. CASE NamingRow(p, y) # {} /\ Gone(y)
      <4>1. /\ Untouched(y)
            /\ IF Destroys(p, y) THEN NamingRow(p, y) \subseteq done'[r]
               ELSE NamingRow(p, y) \intersect done'[r] = {}
        BY <1>1, <1>3, <3>2, <3>3, <3>5
      <4>2. NewRowState(r, y)'
        BY <1>3, <3>1, <4>1 DEF NewRowState, Untouched
      <4> QED
        BY <1>6, <3>5, <4>2
    <3>6. CASE NamingRow(p, y) # {} /\ ~Gone(y)
      <4>1. IF \E j \in Naming(p, y) : j < i
              THEN value[y] = NewValue(p, y) /\ undo[y] = before[y]
            ELSE Untouched(y)
        BY <1>1, <3>6
      <4>2. i \notin Naming(p, y) /\ Naming(p, y) \subseteq 1..Len(p)
        BY <1>1, <3>1 DEF Naming
      <4>3. \A j \in Naming(p, y) : j < i + 1 <=> j < i
        BY <1>1, <4>2
      <4>4. ~(Destroys(p, y) /\ i + 1 > Len(p))
        BY <1>14, <1>15, <2>1
      <4>5. OldState(r, y)'
        BY <1>3, <3>1, <4>1, <4>3, <4>4 DEF OldState, Untouched
      <4> QED
        BY <1>6, <3>6, <4>5
    <3> QED
      BY <3>4, <3>5, <3>6
  <2>2. CASE InRow(x, y)
    <3>1. /\ NamingRow(p, y) = NamingRow(p, x) /\ (Gone(y) <=> Gone(x))
          /\ (Destroys(p, y) <=> Destroys(p, x))
      BY <1>1, <2>2, RowSame DEF Gone
    <3>2. CASE Gone(x)
      <4>1. /\ o.finished = NamingRow(p, x)
            /\ \/ value'[y] = NewValue(p, y)
               \/ IsStatus(y) /\ NewValue(p, y) = "notReady" /\ value'[y] = "notInService"
            /\ value'[y] = "notReady" => NoUpgrade
        BY <1>3, <2>2, <3>2 DEF CreatesRow
      <4>2. ~Destroys(p, x)
        BY <1>1, <1>4, <1>12, <3>2
      <4>3. Life(p, x)
        BY <1>1, <3>2, CreatedLife DEF Found, Gone
      <4>4. \A k \in DOMAIN p : i < k => k \in NamingRow(p, x)
        BY <1>1, <4>3 DEF PlainSets, LifeLast, NamingRow
      <4>5. \A k \in DOMAIN p : i + 1 <= k => k \in done'[r]
        BY <1>1, <1>3, <4>1, <4>4
      <4>6. NewRowState(r, y)'
        BY <1>3, <3>1, <4>1, <4>2, <4>5 DEF NewRowState
      <4> QED
        BY <1>6, <1>12, <3>1, <3>2, <4>6
    <3>3. CASE ~Gone(x) /\ IsStatus(x) /\ p[i].val = "destroy"
      <4>1. value'[y] = Absent /\ undo'[y] = NoUndo
        BY <1>3, <2>2, <3>3 DEF RemovesRow
      <4>2. i = Len(p) /\ Destroys(p, y)
        BY <1>1, <1>12, <1>13, <3>1, <3>3 DEF PlainSets, DestroyLast, Destroys, StatusVbs
      <4>3. InTable(y)
        BY <1>1, <1>13, <2>2, <3>3, SameEntry
      <4>4. OldState(r, y)'
        BY <1>3, <1>15, <4>1, <4>2, <4>3 DEF OldState
      <4> QED
        BY <1>6, <1>12, <3>1, <3>3, <4>4
    <3>4. CASE ~Gone(x) /\ ~(IsStatus(x) /\ p[i].val = "destroy")
      <4>1. /\ \A z \in Instances : z # x => value'[z] = value[z] /\ undo'[z] = undo[z]
            /\ value'[x] = NewValue(p, x) /\ undo'[x] = value[x]
        BY <1>3, <3>4 DEF SetsInstance
      <4>2. ~(Destroys(p, y) /\ i + 1 > Len(p))
        BY <1>14, <1>15, <3>4
      <4>3. CASE y = x
        <5>1. \E j \in Naming(p, y) : j < i + 1
          <6>1. i \in Naming(p, y) /\ i < i + 1
            BY <1>1, <1>12, <4>3
          <6> QED
            BY <6>1
        <5>2. OldState(r, y)'
          BY <1>3, <1>12, <4>1, <4>2, <4>3, <5>1 DEF OldState, Untouched
        <5> QED
          BY <1>6, <1>12, <3>1, <3>4, <5>2
      <4>4. CASE y # x
        <5>1. IF \E j \in Naming(p, y) : j < i
                THEN value[y] = NewValue(p, y) /\ undo[y] = before[y]
              ELSE Untouched(y)
          BY <1>1, <1>12, <3>1, <3>4
        <5>2. i \notin Naming(p, y) /\ Naming(p, y) \subseteq 1..Len(p)
          BY <1>1, <4>4 DEF Naming
        <5>3. \A j \in Naming(p, y) : j < i + 1 <=> j < i
          BY <1>1, <5>2
        <5>4. OldState(r, y)'
          BY <1>3, <4>1, <4>2, <4>4, <5>1, <5>3 DEF OldState, Untouched
        <5> QED
          BY <1>6, <1>12, <3>1, <3>4, <5>4
      <4> QED
        BY <4>3, <4>4
    <3> QED
      BY <3>2, <3>3, <3>4
  <2> QED
    BY <2>1, <2>2
<1> QED
  BY <1>7, <1>8, <1>9, <1>10, <1>11 DEF RequestState

\* The undo phase restores what was there from the undo copies.
LEMMA OwnUndo ==
    ASSUME BaseInv, ValuesOK(before), NEW r \in Setters, RequestState(r), Undo(r), before' = before
    PROVE  RequestState(r)'
<1>1. /\ r \in Requests /\ (InPdu(r) => idx[r] \in 1..MaxVbs)
      /\ pc[r] = "undo" /\ pc'[r] = "undo" /\ status'[r] = status[r]
  BY Bindings DEF Undo, BaseInv
<1>2. StatusKnown(r)' /\ DoneEarly(r)' /\ PrepareFound(r)' /\ CommitHolds(r)' /\ CommitState(r)'
  BY <1>1 DEF RequestState, StatusKnown, DoneEarly, PrepareFound, CommitHolds, CommitState, Preparing
<1>3. UndoState(r)'
  <2> SUFFICES ASSUME NEW y \in Instances, owner'[EntryOf(y)] = r
               PROVE  Untouched(y)' \/ undo'[y] = before[y]
    BY DEF UndoState
  <2>1. EntryOf(y) \in Entries /\ r # NoRequest
    BY <1>1, InstanceProperties, TransactionAssumption DEF TransactionAssumption
  <2>2. owner[EntryOf(y)] = r
    <3>1. CASE owner' = owner
      BY <3>1
    <3>2. CASE Unlock(r, idx[r]) /\ InPdu(r)
      BY <1>1, <2>1, <3>2, UnlockOwners
    <3> QED
      BY <3>1, <3>2 DEF Undo
  <2>3. Untouched(y) \/ undo[y] = before[y]
    BY <1>1, <2>2 DEF RequestState, UndoState
  <2>4. before[y] # NoUndo
    BY ObjectsAssumption DEF ValuesOK, Stored, NoUndo, Absent, RowStates, ObjectsAssumption
  <2>5. CASE UNCHANGED objects
    BY <2>3, <2>5 DEF objects, Untouched
  <2>6. CASE value' = Unset(Reached(pdu[r], idx[r], value), value, undo)
             /\ undo' = Forget(Reached(pdu[r], idx[r], value), undo)
    BY <2>3, <2>4, <2>6 DEF Unset, Forget, Untouched
  <2> QED
    BY <2>5, <2>6 DEF Undo
<1> QED
  BY <1>2, <1>3 DEF RequestState

-----------------------------------------------------------------------------
(* The values stay proper ones.                                            *)

\* StatusAfter stores a state of a row that is there.
LEMMA AfterState ==
    ASSUME NEW b \in Vbs, IsStatus(b.inst)
    PROVE  /\ StatusAfter(b.val) \in RowStates \ {"empty"}
           /\ b.val \in {"active", "notInService", "destroy"} => StatusAfter(b.val) # "notReady"
<1>1. b.val \in RowRequests
  BY DEF Vbs, IsStatus
<1> QED
  BY <1>1 DEF RowRequests, StatusAfter, RowStates

\* A new row whose status the PDU names does not stay empty.
LEMMA NewState ==
    ASSUME NEW p \in Pdus, NEW y \in Instances, IsStatus(y), Naming(p, y) # {}
    PROVE  NewValue(p, y) \in RowStates \ {"empty"}
<1>1. Greatest(Naming(p, y)) \in Naming(p, y)
  BY PduProperties, GreatestIn DEF Naming
<1>2. p[Greatest(Naming(p, y))] \in Vbs /\ p[Greatest(Naming(p, y))].inst = y
  BY <1>1, PduProperties DEF Naming
<1> QED
  BY <1>2, AfterState DEF NewValue

LEMMA CommitValues ==
    ASSUME PlainSets, BaseInv, BindingInv, ValuesOK(value), ValuesOK(before),
           NEW r \in Setters, RequestState(r), Commit(r), NEW y \in Instances
    PROVE  /\ IsStatus(y) => value'[y] \in (RowStates \ {"empty"}) \union {Absent}
           /\ value'[y] = "notReady" => NoUpgrade
<1> DEFINE p == pdu[r]
           i == idx[r]
           x == p[i].inst
<1>1. /\ r \in Requests /\ p \in Pdus /\ p \in SetPdus /\ i \in 1..Len(p)
      /\ x \in Instances /\ Len(p) \in Nat /\ DOMAIN p = 1..Len(p) /\ Found(r, i, before)
  BY CurrentRow DEF PlainSets
<1>2. PICK o : CommitsWith(r, o)
  BY CommitOutcome
<1>3. /\ IsStatus(y) => value[y] \in (RowStates \ {"empty"}) \union {Absent}
      /\ value[y] = "notReady" => NoUpgrade
  BY DEF ValuesOK
<1>4. CASE Gone(x)
  <2>1. CreatesRow(p, i, value, undo, o) /\ value' = o.value
    BY <1>2, <1>4 DEF CommitsWith
  <2>2. MayCreate(p, x)
    BY <1>1, <1>4 DEF Found, Gone
  <2>3. InRow(x, y) /\ IsStatus(y) => Naming(p, y) # {}
    <3> SUFFICES ASSUME InRow(x, y), IsStatus(y) PROVE Naming(p, y) # {}
      OBVIOUS
    <3>1. y = StatusOf(x)
      BY InstanceProperties DEF InRow, RowOf, StatusOf
    <3> QED
      BY <2>2, <3>1, CreatedLife DEF StatusVbs
  <2> QED
    BY <1>1, <1>3, <2>1, <2>3, NewState DEF CreatesRow, RowStates
<1>5. CASE ~Gone(x) /\ IsStatus(x) /\ p[i].val = "destroy"
  <2>1. RemovesRow(p, i, value, undo, o) /\ value' = o.value
    BY <1>2, <1>5 DEF CommitsWith
  <2> QED
    BY <1>3, <2>1 DEF RemovesRow, Absent
<1>6. CASE ~Gone(x) /\ ~(IsStatus(x) /\ p[i].val = "destroy")
  <2>1. SetsInstance(p, i, value, undo, o) /\ value' = o.value
    BY <1>2, <1>6 DEF CommitsWith
  <2>2. CASE y # x \/ ~o.ok
    BY <1>3, <2>1, <2>2 DEF SetsInstance
  <2>3. CASE y = x /\ o.ok
    <3>1. value'[y] = NewValue(p, x)
      BY <2>1, <2>3 DEF SetsInstance
    <3>2. CASE ~IsStatus(x)
      BY <1>1, <2>3, <3>1, <3>2, NewPlainValue
    <3>3. CASE IsStatus(x)
      <4>1. Naming(p, x) # {} /\ NewValue(p, x) = StatusAfter(p[i].val)
        BY <1>1, <3>3, NamedOnce DEF NewValue, PlainSets
      <4>2. RowExists(x, before)
        BY <1>1, <1>6, <3>3, InstanceProperties DEF Gone, RowMissing
      <4>3. p[i] \in Vbs /\ p[i].val \in {"active", "notInService", "destroy"}
        BY <1>1, <3>3, <4>2, PduProperties DEF Found
      <4> QED
        BY <2>3, <3>1, <3>3, <4>1, <4>3, AfterState
    <3> QED
      BY <3>2, <3>3
  <2> QED
    BY <2>2, <2>3
<1> QED
  BY <1>4, <1>5, <1>6

LEMMA UndoValues ==
    ASSUME BaseInv, ValuesOK(value), ValuesOK(before), NEW r \in Setters, RequestState(r), Undo(r),
           NEW y \in Instances
    PROVE  /\ IsStatus(y) => value'[y] \in (RowStates \ {"empty"}) \union {Absent}
           /\ value'[y] = "notReady" => NoUpgrade
<1>1. \A v \in {value, before} :
        /\ IsStatus(y) => v[y] \in (RowStates \ {"empty"}) \union {Absent}
        /\ v[y] = "notReady" => NoUpgrade
  BY DEF ValuesOK
<1>2. value'[y] = value[y] \/ value'[y] = before[y]
  <2>1. CASE UNCHANGED objects
    BY <2>1 DEF objects
  <2>2. CASE /\ locks[r][idx[r]] # NoEntry
             /\ value' = Unset(Reached(pdu[r], idx[r], value), value, undo)
    <3>1. locks[r][idx[r]] = EntryOf(Current(r)) /\ Current(r) \in Instances
          /\ Current(r) = pdu[r][idx[r]].inst /\ Locks(r, EntryOf(Current(r)))
      BY <2>2, CurrentLocked DEF Undo
    <3>2. CASE y \in Reached(pdu[r], idx[r], value) /\ undo[y] # NoUndo
      <4>1. owner[EntryOf(y)] = r
        BY <3>1, <3>2, ReachedEntry, LockOwner
      <4>2. undo[y] = before[y]
        BY <3>2, <4>1 DEF RequestState, UndoState, Undo, Untouched
      <4> QED
        BY <2>2, <3>2, <4>2 DEF Unset
    <3>3. CASE ~(y \in Reached(pdu[r], idx[r], value) /\ undo[y] # NoUndo)
      BY <2>2, <3>3 DEF Unset
    <3> QED
      BY <3>2, <3>3
  <2> QED
    BY <2>1, <2>2 DEF Undo
<1> QED
  BY <1>1, <1>2

\* Only commits and undos write values.
LEMMA QuietValues ==
    ASSUME NEW r \in Setters, SetStep(r), ~Commit(r), ~Undo(r)
    PROVE  value' = value
BY DEF SetStep, StartSet, SkipReady, Deny, FindEntry, Lock, Accept, Reject, Prepared, SkipDone, Committed,
   Undone, Cleanup, CleanedUp, Answer, Release, Delete, objects

LEMMA ValuesNext ==
    ASSUME PlainSets, BaseInv, BaseInv', BindingInv, ValueInv, \A r \in Setters : RequestState(r),
           [HNext]_hvars
    PROVE  ValuesOK(value)'
<1>1. value' \in [Instances -> Stored] /\ \A x \in Instances : value'[x] = Absent <=> RowMissing(x, value')
  BY DEF BaseInv, TypeInv, DataOK
<1>2. ASSUME NEW y \in Instances
      PROVE  /\ IsStatus(y) => value'[y] \in (RowStates \ {"empty"}) \union {Absent}
             /\ value'[y] = "notReady" => NoUpgrade
  <2>1. /\ IsStatus(y) => value[y] \in (RowStates \ {"empty"}) \union {Absent}
        /\ value[y] = "notReady" => NoUpgrade
    BY DEF ValueInv, ValuesOK
  <2>2. CASE \E r \in Setters : SetStep(r)
    BY <2>1, <2>2, CommitValues, UndoValues, QuietValues DEF ValueInv
  <2>3. CASE value' = value
    BY <2>1, <2>3
  <2> QED
    BY <2>2, <2>3, KeptCases DEF ValueInv
<1> QED
  BY <1>1, <1>2 DEF ValuesOK

\* The history variable takes over a locked entry as a whole.
LEMMA BeforeNext ==
    ASSUME BaseInv, ValueInv, [HNext]_hvars
    PROVE  ValuesOK(before)'
<1> DEFINE Taken(x) == \E r \in Setters : Begins(r) /\ owner[EntryOf(x)] = r
<1>1. /\ \A x \in Instances : before'[x] = IF Taken(x) THEN value[x] ELSE before[x]
      /\ before' = [x \in Instances |-> before'[x]]
  BY BeforeStep DEF ValueInv
<1>2. ASSUME NEW x \in Instances
      PROVE  /\ before'[x] \in Stored
             /\ before'[x] = Absent <=> RowMissing(x, before')
             /\ IsStatus(x) => before'[x] \in (RowStates \ {"empty"}) \union {Absent}
             /\ before'[x] = "notReady" => NoUpgrade
  <2>1. InTable(x) => StatusOf(x) \in Instances /\ EntryOf(StatusOf(x)) = EntryOf(x)
    BY InstanceProperties DEF StatusOf, EntryOf
  <2>2. InTable(x) => (Taken(StatusOf(x)) <=> Taken(x))
    BY <2>1
  <2>3. CASE Taken(x)
    <3>1. before'[x] = value[x] /\ (InTable(x) => before'[StatusOf(x)] = value[StatusOf(x)])
      BY <1>1, <2>1, <2>2, <2>3
    <3>2. RowMissing(x, before') <=> RowMissing(x, value)
      BY <3>1 DEF RowMissing, RowExists
    <3> QED
      BY <3>1, <3>2 DEF ValueInv, ValuesOK
  <2>4. CASE ~Taken(x)
    <3>1. before'[x] = before[x] /\ (InTable(x) => before'[StatusOf(x)] = before[StatusOf(x)])
      BY <1>1, <2>1, <2>2, <2>4
    <3>2. RowMissing(x, before') <=> RowMissing(x, before)
      BY <3>1 DEF RowMissing, RowExists
    <3> QED
      BY <3>1, <3>2 DEF ValueInv, ValuesOK
  <2> QED
    BY <2>3, <2>4
<1> QED
  BY <1>1, <1>2 DEF ValuesOK

\* A GET reads one binding after the other.
LEMMA ReadNext ==
    ASSUME BaseInv, ReadSoFar, [Next]_vars
    PROVE  ReadSoFar'
<1> SUFFICES ASSUME NEW g \in Getters PROVE Len(got'[g]) = idx'[g] - 1
  BY DEF ReadSoFar
<1>1. /\ got \in [Getters -> Seq(Stored)] /\ idx \in [Requests -> 1..(MaxVbs + 1)] /\ MaxVbs \in Nat
      /\ g \in Requests /\ g \notin Setters /\ Setters \subseteq Requests
  BY TransactionAssumption, ObjectsAssumption
  DEF BaseInv, TypeInv, GotOK, ControlOK, Requests, TransactionAssumption, ObjectsAssumption
<1>2. Len(got[g]) = idx[g] - 1
  BY DEF ReadSoFar
<1>3. CASE \E r \in Setters : SetStep(r)
  <2>1. PICK r \in Setters : SetStep(r)
    BY <1>3
  <2>2. got' = got
    BY <2>1 DEF SetStep, StartSet, SkipReady, Deny, FindEntry, Lock, Accept, Reject, Prepared, SkipDone,
       Commit, Committed, Undo, Undone, Cleanup, CleanedUp, Answer, Release, Delete
  <2>3. \/ idx' = idx
        \/ idx' = [idx EXCEPT ![r] = 1]
        \/ idx' = [idx EXCEPT ![r] = @ + 1]
    BY <2>1 DEF SetStep, StartSet, SkipReady, Deny, FindEntry, Lock, Accept, Reject, Prepared, SkipDone,
       Commit, Committed, Undo, Undone, Cleanup, CleanedUp, Answer, Release, Delete, Goto, NextVb, request
  <2>4. idx'[g] = idx[g]
    BY <1>1, <2>1, <2>3
  <2> QED
    BY <1>2, <2>2, <2>4
<1>4. ASSUME NEW h \in Getters, GetStep(h) PROVE Len(got'[g]) = idx'[g] - 1
  <2>1. CASE Read(h) /\ h = g
    <3>1. PICK v : got' = [got EXCEPT ![g] = Append(@, v)] /\ idx' = [idx EXCEPT ![g] = @ + 1]
      BY <2>1 DEF Read, NextVb
    <3>2. got'[g] = Append(got[g], v) /\ idx'[g] = idx[g] + 1
      BY <1>1, <3>1
    <3>3. Len(got'[g]) = Len(got[g]) + 1
      BY <1>1, <3>2
    <3> QED
      BY <1>1, <1>2, <3>2, <3>3
  <2>2. CASE Read(h) /\ h # g
    BY <1>1, <1>2, <2>2 DEF Read, NextVb
  <2>3. CASE ~Read(h)
    BY <1>2, <1>4, <2>3 DEF GetStep, StartGet, LockEntry, EndGet
  <2> QED
    BY <2>1, <2>2, <2>3
<1>5. CASE UNCHANGED vars
  BY <1>2, <1>5 DEF vars, request
<1> QED
  BY <1>3, <1>4, <1>5 DEF Next, Terminated

-----------------------------------------------------------------------------
(* All of it is an invariant.                                              *)

HInv == SetInv /\ UndoLocked /\ AtomicInv

LEMMA OwnStep ==
    ASSUME PlainSets, SetInv, UndoLocked, ValuesOK(value), ValuesOK(before), NEW r \in Setters,
           RequestState(r), SetStep(r), DOMAIN before' = Instances, before' = [x \in Instances |-> before'[x]],
           \A x \in Instances :
             before'[x] = IF Begins(r) /\ owner[EntryOf(x)] = r THEN value[x] ELSE before[x]
    PROVE  RequestState(r)'
<1>1. BaseInv /\ BindingInv /\ PassInv /\ BindingOK(r)
  BY DEF SetInv, BindingInv
<1>2. before = [x \in Instances |-> before[x]]
  BY DEF ValuesOK
<1>3. ~Begins(r) => before' = before
  <2> SUFFICES ASSUME ~Begins(r) PROVE before' = before
    OBVIOUS
  <2>1. \A x \in Instances : before'[x] = before[x]
    OBVIOUS
  <2>2. [x \in Instances |-> before'[x]] = [x \in Instances |-> before[x]]
    BY <2>1
  <2> QED
    BY <1>2, <2>2
<1>4. CASE StartSet(r) \/ SkipReady(r) \/ FindEntry(r) \/ Lock(r)
  BY <1>1, <1>4, OwnPreparing
<1>5. CASE Accept(r)
  BY <1>1, <1>5, OwnAccept
<1>6. CASE Prepared(r)
  BY <1>1, <1>6, OwnPrepared DEF PlainSets
<1>7. CASE SkipDone(r)
  BY <1>1, <1>3, <1>7, OwnSkipDone DEF Begins, SkipDone, PlainSets
<1>8. CASE Commit(r)
  BY <1>1, <1>3, <1>8, OwnCommit DEF Begins, Commit
<1>9. CASE Undo(r)
  BY <1>1, <1>3, <1>9, OwnUndo DEF Begins, Undo
<1>10. CASE \/ Deny(r) \/ Reject(r) \/ Committed(r) \/ Undone(r) \/ Cleanup(r) \/ CleanedUp(r)
            \/ Answer(r) \/ Release(r) \/ Delete(r)
  BY <1>1, <1>10, OwnEnding
<1> QED
  BY <1>4, <1>5, <1>6, <1>7, <1>8, <1>9, <1>10 DEF SetStep

LEMMA AtomicInit ==
    ASSUME HInit
    PROVE  HInv
<1>1. SetInv /\ UndoLocked
  BY SetInvInit, UndoInit DEF HInit
<1>2. ValuesOK(value) /\ before = value
  <2>1. DataOK(value, undo) /\ value \in InitialValues /\ before = value
    BY <1>1 DEF HInit, Init, SetInv, BaseInv, TypeInv
  <2>2. ASSUME NEW x \in Instances
        PROVE  /\ IsStatus(x) => value[x] \in (RowStates \ {"empty"}) \union {Absent}
               /\ value[x] # "notReady"
    <3>1. value[x] \in {Default, "active", "notInService", Absent} /\ (IsStatus(x) => value[x] # Default)
      <4>1. IsStatus(x) => IsTable(EntryOf(x))
        BY InstanceProperties DEF InTable
      <4> QED
        BY <2>1, <4>1 DEF InitialValues
    <3>2. Default # "notReady"
      BY ObjectsAssumption DEF ObjectsAssumption, RowStates
    <3> QED
      BY <3>1, <3>2 DEF RowStates, Absent
  <2> QED
    BY <2>1, <2>2 DEF DataOK, ValuesOK
<1>3. ReadSoFar
  BY DEF HInit, Init, ReadSoFar, Requests
<1>4. ASSUME NEW r \in Setters PROVE RequestState(r)
  <2>1. pc[r] = "start" /\ status[r] = "noError" /\ r \in Requests
    BY DEF HInit, Init, Requests
  <2> QED
    BY <2>1 DEF RequestState, StatusKnown, PrepareFound, DoneEarly, CommitHolds, CommitState, UndoState,
       Preparing
<1> QED
  BY <1>1, <1>2, <1>3, <1>4 DEF HInv, AtomicInv, ValueInv

LEMMA AtomicNext ==
    ASSUME PlainSets, HInv, [HNext]_hvars
    PROVE  HInv'
<1>1. /\ SetInv /\ UndoLocked /\ BaseInv /\ BindingInv /\ ValueInv /\ ReadSoFar
      /\ ValuesOK(value) /\ ValuesOK(before) /\ (\A r \in Setters : RequestState(r))
  BY DEF HInv, AtomicInv, SetInv, ValueInv
<1>2. [Next]_vars /\ DOMAIN before' = Instances /\ before' = [x \in Instances |-> before'[x]]
  BY <1>1, BeforeStep
<1>3. SetInv' /\ BaseInv'
  BY <1>1, <1>2, SetInvNext, PlainGaps DEF PlainSets, SetInv
<1>4. UndoLocked'
  <2>1. Calm
    BY <1>1 DEF Calm, ValuesOK
  <2> QED
    BY <1>1, <1>2, <2>1, UndoNext
<1>5. ValueInv' /\ ReadSoFar'
  BY <1>1, <1>2, <1>3, ValuesNext, BeforeNext, ReadNext DEF ValueInv
<1>6. ASSUME NEW s \in Setters PROVE RequestState(s)'
  <2>1. BindingOK(s) /\ RequestState(s)
    BY <1>1 DEF BindingInv
  <2>2. CASE Same(s) /\ Kept(s)
    BY <1>1, <2>1, <2>2, RequestFrame
  <2>3. CASE /\ SetStep(s)
             /\ \A x \in Instances :
                  before'[x] = IF Begins(s) /\ owner[EntryOf(x)] = s THEN value[x] ELSE before[x]
    BY <1>1, <1>2, <2>1, <2>3, OwnStep
  <2> QED
    BY <1>1, <2>2, <2>3, KeptCases
<1> QED
  BY <1>3, <1>4, <1>5, <1>6 DEF HInv, AtomicInv

LEMMA HInvHolds == PlainSets => (HSpec => []HInv)
<1> SUFFICES ASSUME PlainSets PROVE HSpec => []HInv
  OBVIOUS
<1>1. HInit => HInv
  BY AtomicInit
<1>2. HInv /\ [HNext]_hvars => HInv'
  BY AtomicNext
<1> QED
  BY <1>1, <1>2, PTL DEF HSpec

-----------------------------------------------------------------------------
(* The store that managers may rely on.                                    *)

StoreAt(x) == IF Undecided(EntryOf(x)) THEN before[x] ELSE value[x]

LEMMA StoreValues ==
    ASSUME ValueInv
    PROVE  /\ Store = [x \in Instances |-> StoreAt(x)]
           /\ Store \in [Instances -> Stored]
<1>1. Store = [x \in Instances |-> StoreAt(x)]
  BY DEF Store, StoreAt
<1>2. \A x \in Instances : StoreAt(x) \in Stored
  BY DEF StoreAt, ValueInv, ValuesOK
<1> QED
  BY <1>1, <1>2

LEMMA NextStoreValues ==
    ASSUME ValueInv'
    PROVE  /\ Store' = [x \in Instances |-> StoreAt(x)']
           /\ Store' \in [Instances -> Stored]
<1>1. Store' = [x \in Instances |-> StoreAt(x)']
  BY DEF Store, StoreAt
<1>2. \A x \in Instances : StoreAt(x)' \in Stored
  BY DEF StoreAt, ValueInv, ValuesOK
<1> QED
  BY <1>1, <1>2

\* A SET that has decided to undo leaves what it found when it gives an entry back.
LEMMA UndoneEntry ==
    ASSUME HInv, HInv', NEW r \in Setters, SetStep(r), Undo(r) \/ Undone(r), NEW x \in Instances,
           owner[EntryOf(x)] = r, owner'[EntryOf(x)] # r \/ pc'[r] \notin {"commit", "undo", "cleanup"},
           owner'[EntryOf(x)] \in {r, NoRequest}
    PROVE  value'[x] = before[x]
<1>1. /\ BaseInv /\ BaseInv' /\ UndoLocked' /\ RequestState(r) /\ ValuesOK(before)
  BY DEF HInv, SetInv, AtomicInv, ValueInv
<1>2. Untouched(x) \/ undo[x] = before[x]
  BY <1>1 DEF RequestState, UndoState, Undo, Undone
<1>3. before[x] # NoUndo
  BY <1>1, ObjectsAssumption DEF ValuesOK, Stored, NoUndo, Absent, RowStates, ObjectsAssumption
<1>4. undo'[x] = NoUndo
  <2> SUFFICES ASSUME undo'[x] # NoUndo PROVE FALSE
    OBVIOUS
  <2>1. PICK s \in Setters : MayRestore(s, x)'
    BY <1>1 DEF UndoLocked
  <2>2. owner'[EntryOf(x)] = s
    <3>1. PICK k \in 1..MaxVbs : locks'[s][k] = EntryOf(x)
      BY <2>1 DEF MayRestore, Locks
    <3>2. EntryOf(x) # NoEntry
      BY InstanceProperties, TransactionAssumption DEF TransactionAssumption
    <3> QED
      BY <1>1, <3>1, <3>2 DEF BaseInv, LockInv, FamilyHeld, Family
  <2>3. s # NoRequest
    BY TransactionAssumption DEF TransactionAssumption, Requests
  <2> QED
    BY <2>1, <2>2, <2>3 DEF MayRestore
<1>5. CASE UNCHANGED objects
  BY <1>2, <1>3, <1>4, <1>5 DEF objects, Untouched
<1>6. CASE value' = Unset(Reached(pdu[r], idx[r], value), value, undo)
           /\ undo' = Forget(Reached(pdu[r], idx[r], value), undo)
  BY <1>2, <1>3, <1>4, <1>6 DEF Unset, Forget, Untouched
<1> QED
  BY <1>5, <1>6 DEF Undo, Undone

\* Only the end of a commit phase changes the store.
LEMMA StoreStep ==
    ASSUME HInv, HInv', NEW r \in Setters, SetStep(r), NEW x \in Instances,
           \A s \in Setters : s # r => Same(s) /\ Kept(s),
           \A y \in Instances :
             before'[y] = IF Begins(r) /\ owner[EntryOf(y)] = r THEN value[y] ELSE before[y],
           ~Committed(r) \/ owner[EntryOf(x)] # r
    PROVE  StoreAt(x)' = StoreAt(x)
<1> DEFINE e == EntryOf(x)
<1>1. /\ BaseInv /\ r \in Requests /\ e \in Entries /\ NoRequest \notin Setters
      /\ pc \in [Requests -> Phases \union ReadPhases]
  BY InstanceProperties, TransactionAssumption
  DEF HInv, SetInv, BaseInv, TypeInv, ControlOK, TransactionAssumption, Requests
<1>2. \/ owner'[e] = owner[e]
      \/ owner[e] = NoRequest /\ owner'[e] = r /\ Lock(r)
      \/ owner[e] = r /\ owner'[e] = NoRequest /\ (Undo(r) \/ Cleanup(r) \/ Release(r))
  BY <1>1, SetOwners
<1>3. ASSUME NEW s \in Setters, s # r, owner[e] = s
      PROVE  StoreAt(x)' = StoreAt(x)
  <2>1. owner'[e] = s /\ value'[x] = value[x] /\ before'[x] = before[x] /\ pc'[s] = pc[s]
    BY <1>3 DEF Kept, Same
  <2> QED
    BY <1>3, <2>1 DEF StoreAt, Undecided
<1>4. CASE owner[e] \notin Setters
  <2>1. value'[x] = value[x]
    <3>1. ~Locks(r, e)
      BY <1>1, <1>4, LockOwner
    <3> QED
      BY <1>1, <3>1, WritesLocked
  <2>2. ~Undecided(e)
    BY <1>4 DEF Undecided
  <2>3. ~Undecided(e)'
    <3>1. CASE owner'[e] = owner[e]
      BY <1>4, <3>1 DEF Undecided
    <3>2. CASE owner'[e] = r /\ Lock(r)
      BY <3>2 DEF Undecided, Lock, request
    <3> QED
      BY <1>2, <1>4, <3>1, <3>2
  <2> QED
    BY <2>1, <2>2, <2>3 DEF StoreAt
<1>5. CASE owner[e] = r
  <2>1. CASE pc[r] \in {"commit", "undo"} /\ ~Undo(r) /\ ~Undone(r)
    <3>1. SkipDone(r) \/ Commit(r)
      BY <1>5, <2>1 DEF SetStep, StartSet, SkipReady, Deny, FindEntry, Lock, Accept, Reject, Prepared,
         Cleanup, CleanedUp, Answer, Release, Delete, Locked
    <3>2. pc'[r] \in {"commit", "undo"} /\ owner' = owner
      BY <1>1, <2>1, <3>1 DEF SkipDone, Commit, Goto
    <3>3. before'[x] = before[x]
      BY <2>1 DEF Begins
    <3> QED
      BY <1>5, <2>1, <3>2, <3>3 DEF StoreAt, Undecided
  <2>2. CASE Undo(r) \/ Undone(r)
    <3>1. pc[r] = "undo" /\ before'[x] = before[x]
      BY <2>2 DEF Undo, Undone, Begins
    <3>2. owner'[e] \in {r, NoRequest}
      BY <1>2, <1>5
    <3>3. CASE owner'[e] = r /\ pc'[r] = "undo"
      BY <1>5, <3>1, <3>3 DEF StoreAt, Undecided
    <3>4. CASE ~(owner'[e] = r /\ pc'[r] = "undo")
      <4>1. pc'[r] \in {"undo", "answer"}
        BY <1>1, <2>2 DEF Undo, Undone, Goto
      <4>2. value'[x] = before[x]
        BY <1>5, <2>2, <3>2, <3>4, <4>1, UndoneEntry
      <4>3. ~Undecided(e)'
        BY <1>1, <3>2, <3>4, <4>1 DEF Undecided
      <4> QED
        BY <1>5, <3>1, <4>2, <4>3 DEF StoreAt, Undecided
    <3> QED
      BY <3>3, <3>4
  <2>3. CASE Prepared(r)
    <3>1. pc[r] = "prepare" /\ pc'[r] = "commit" /\ owner' = owner
      BY <1>1, <2>3 DEF Prepared, Goto
    <3>2. before'[x] = value[x]
      BY <1>5, <3>1 DEF Begins
    <3> QED
      BY <1>5, <3>1, <3>2 DEF StoreAt, Undecided
  <2>4. CASE pc[r] \notin {"commit", "undo"} /\ ~Prepared(r)
    <3>1. value' = value
      BY <2>4, QuietValues DEF Commit, Undo
    <3>2. pc'[r] \notin {"commit", "undo"}
      BY <1>1, <2>4 DEF SetStep, StartSet, SkipReady, Deny, FindEntry, Lock, Accept, Reject, Locked,
         SkipDone, Commit, Committed, Undo, Undone, Cleanup, CleanedUp, Answer, Release, Delete, Goto, request
    <3>3. owner'[e] \in {r, NoRequest}
      BY <1>2, <1>5
    <3> QED
      BY <1>1, <1>5, <2>4, <3>1, <3>2, <3>3 DEF StoreAt, Undecided
  <2> QED
    BY <2>1, <2>2, <2>3, <2>4
<1> QED
  BY <1>3, <1>4, <1>5

\* A GET or a stuttering step leaves the store alone.
LEMMA StoreQuiet ==
    ASSUME UNCHANGED <<value, undo, pdu>>, \A x \in Instances : before'[x] = before[x],
           \A s \in Setters : Same(s) /\ Kept(s), NEW x \in Instances
    PROVE  StoreAt(x)' = StoreAt(x)
<1>1. Undecided(EntryOf(x))' <=> Undecided(EntryOf(x))
  <2>1. \A s \in Setters : owner'[EntryOf(x)] = s <=> owner[EntryOf(x)] = s
    BY DEF Kept
  <2>2. \A s \in Setters : pc'[s] = pc[s]
    BY DEF Same
  <2> QED
    BY <2>1, <2>2 DEF Undecided
<1> QED
  BY <1>1 DEF StoreAt

-----------------------------------------------------------------------------
(* The steps of MibStore.                                                  *)

\* What is asked of an instance, by what check_creation and set_value store.
LEMMA AsksFor ==
    ASSUME NEW p, NEW x, NEW s
    PROVE  Abstract!Requested(p, x, s) =
             IF InTable(x) /\ Destroys(p, x) THEN {Absent}
             ELSE IF Naming(p, x) # {}
               THEN IF IsStatus(x) /\ NewValue(p, x) = "notReady" THEN {"notReady", "notInService"}
                    ELSE {NewValue(p, x)}
             ELSE IF NamingRow(p, x) # {} /\ RowMissing(x, s) THEN {NewValue(p, x)}
             ELSE IF NamingRow(p, x) # {} /\ s[x] = "notReady" THEN {"notReady", "notInService"}
             ELSE {s[x]}
<1>1. /\ Abstract!Naming(p, x) = Naming(p, x) /\ Abstract!NamingRow(p, x) = NamingRow(p, x)
      /\ (Abstract!RowMissing(x, s) <=> RowMissing(x, s)) /\ (Abstract!InTable(x) <=> InTable(x))
      /\ (Abstract!IsStatus(x) <=> IsStatus(x)) /\ Abstract!Absent = Absent
      /\ \A v : Abstract!StatusAfter(v) = StatusAfter(v)
      /\ \A S : Abstract!Greatest(S) = Greatest(S)
  BY DEF Abstract!Naming, Naming, Abstract!NamingRow, NamingRow, Abstract!InRow, InRow, Abstract!RowOf, RowOf,
     Abstract!RowMissing, RowMissing, Abstract!RowExists, RowExists, Abstract!InTable, InTable,
     Abstract!IsTable, IsTable, Abstract!EntryOf, EntryOf, Abstract!IsStatus, IsStatus, Abstract!Absent, Absent,
     Abstract!StatusOf, StatusOf, Abstract!StatusAfter, StatusAfter, Abstract!Greatest, Greatest
<1>2. Abstract!Destroyed(p, x) <=> Destroys(p, x)
  BY DEF Abstract!Destroyed, Destroys, Abstract!StatusVbs, StatusVbs, Abstract!Naming, Naming,
     Abstract!StatusOf, StatusOf
<1>3. Abstract!Created(p, x, s) <=> NamingRow(p, x) # {} /\ RowMissing(x, s)
  BY <1>1 DEF Abstract!Created
<1>4. \A v : Abstract!Settled(v) = IF v = "notReady" THEN {"notReady", "notInService"} ELSE {v}
  BY DEF Abstract!Settled
<1>5. Naming(p, x) # {} =>
        NewValue(p, x) = IF IsStatus(x) THEN StatusAfter(p[Greatest(Naming(p, x))].val)
                         ELSE p[Greatest(Naming(p, x))].val
  BY DEF NewValue
<1>6. Naming(p, x) = {} => NewValue(p, x) = IF IsStatus(x) THEN "empty" ELSE Default
  BY DEF NewValue
<1> QED
  BY <1>1, <1>2, <1>3, <1>4, <1>5, <1>6 DEF Abstract!Requested

\* A SET that has committed all its bindings has stored what was asked for.
LEMMA CommittedAsks ==
    ASSUME HInv, NEW r \in Setters, Committed(r), NEW x \in Instances
    PROVE  /\ owner[EntryOf(x)] = r => value[x] \in Abstract!Requested(pdu[r], x, Store)
           /\ owner[EntryOf(x)] # r => Abstract!Requested(pdu[r], x, Store) = {Store[x]}
<1> DEFINE p == pdu[r]
<1>1. /\ BaseInv /\ RequestState(r) /\ ValueInv /\ pc[r] = "commit" /\ r \in Requests
      /\ Store = [y \in Instances |-> StoreAt(y)]
  BY StoreValues DEF HInv, SetInv, AtomicInv, Committed, Requests
<1>2. /\ p \in Pdus /\ p \in SetPdus /\ DOMAIN p = 1..Len(p) /\ Len(p) \in Nat
      /\ idx[r] \in Nat /\ idx[r] > Len(p) /\ (\A i \in DOMAIN p : i < idx[r] /\ p[i].inst \in Instances)
  BY <1>1, Bindings DEF Committed, BaseInv, InPdu
<1>3. NamingRow(p, x) = {} => Naming(p, x) = {} /\ (InTable(x) => ~Destroys(p, x))
  <2>1. Naming(p, x) \subseteq NamingRow(p, x)
    BY DEF Naming, NamingRow, InRow
  <2>2. StatusVbs(p, x) \subseteq NamingRow(p, x)
    BY DEF StatusVbs, Naming, NamingRow, InRow, RowOf, StatusOf
  <2> QED
    BY <2>1, <2>2 DEF Destroys
<1>4. ASSUME owner[EntryOf(x)] # r
      PROVE  Abstract!Requested(p, x, Store) = {Store[x]}
  <2>1. NamingRow(p, x) = {}
    <3> SUFFICES ASSUME NEW j \in DOMAIN p, InRow(p[j].inst, x) PROVE FALSE
      BY DEF NamingRow
    <3>1. Locks(r, EntryOf(p[j].inst)) /\ p[j].inst \in Instances
      BY <1>1, <1>2 DEF RequestState, CommitHolds
    <3>2. EntryOf(p[j].inst) = EntryOf(x)
      BY <3>1, SameEntry
    <3> QED
      BY <1>1, <1>4, <3>1, <3>2, LockOwner
  <2> QED
    BY <1>3, <2>1, AsksFor
<1>5. ASSUME owner[EntryOf(x)] = r
      PROVE  value[x] \in Abstract!Requested(p, x, Store)
  <2>1. /\ Store[x] = before[x]
        /\ InTable(x) => Store[StatusOf(x)] = before[StatusOf(x)]
    <3>1. InTable(x) => StatusOf(x) \in Instances /\ EntryOf(StatusOf(x)) = EntryOf(x)
      BY InstanceProperties DEF StatusOf, EntryOf
    <3> QED
      BY <1>1, <1>5, <3>1 DEF StoreAt, Undecided
  <2>2. RowMissing(x, Store) <=> Gone(x)
    BY <2>1 DEF RowMissing, RowExists, Gone
  <2>3. IF NamingRow(p, x) = {} THEN Untouched(x)
        ELSE IF Gone(x) THEN NewRowState(r, x) ELSE OldState(r, x)
    BY <1>1, <1>5 DEF RequestState, CommitState
  <2>4. CASE NamingRow(p, x) = {}
    BY <1>3, <2>1, <2>3, <2>4, AsksFor DEF Untouched
  <2>5. CASE NamingRow(p, x) # {} /\ Gone(x)
    <3>1. NewRowState(r, x) /\ InTable(x)
      BY <2>3, <2>5 DEF Gone, RowMissing
    <3>2. CASE Destroys(p, x)
      <4>1. value[x] = Absent
        BY <1>1, <2>5, <3>1, <3>2 DEF NewRowState, Untouched, ValueInv, ValuesOK, Gone
      <4> QED
        BY <3>1, <3>2, <4>1, AsksFor
    <3>3. CASE ~Destroys(p, x)
      <4>1. NamingRow(p, x) \intersect done[r] # {}
        <5>1. PICK j \in DOMAIN p : InRow(p[j].inst, x)
          BY <2>5 DEF NamingRow
        <5>2. Gone(p[j].inst)
          BY <1>2, <2>5, <5>1, RowSame DEF Gone
        <5>3. j \in done[r]
          BY <1>1, <1>2, <5>2 DEF RequestState, CommitHolds
        <5> QED
          BY <5>1, <5>3 DEF NamingRow
      <4>2. \/ value[x] = NewValue(p, x)
            \/ IsStatus(x) /\ NewValue(p, x) = "notReady" /\ value[x] = "notInService"
        BY <3>1, <3>3, <4>1 DEF NewRowState
      <4>3. Naming(p, x) = {} => NewValue(p, x) # "notReady"
        BY ObjectsAssumption DEF NewValue, ObjectsAssumption, RowStates
      <4> QED
        BY <2>2, <2>5, <3>3, <4>2, <4>3, AsksFor
    <3> QED
      BY <3>2, <3>3
  <2>6. CASE NamingRow(p, x) # {} /\ ~Gone(x)
    <3>1. OldState(r, x)
      BY <2>3, <2>6
    <3>2. CASE InTable(x) /\ Destroys(p, x)
      BY <1>2, <3>1, <3>2, AsksFor DEF OldState
    <3>3. CASE ~(InTable(x) /\ Destroys(p, x)) /\ Naming(p, x) # {}
      <4>1. \E j \in Naming(p, x) : j < idx[r]
        BY <1>2, <3>3 DEF Naming
      <4>2. value[x] = NewValue(p, x)
        BY <3>1, <3>3, <4>1 DEF OldState
      <4> QED
        BY <3>3, <4>2, AsksFor
    <3>4. CASE ~(InTable(x) /\ Destroys(p, x)) /\ Naming(p, x) = {}
      <4>1. value[x] = Store[x]
        BY <2>1, <3>1, <3>4 DEF OldState, Untouched
      <4> QED
        BY <2>2, <2>6, <3>4, <4>1, AsksFor
    <3> QED
      BY <3>2, <3>3, <3>4
  <2> QED
    BY <2>4, <2>5, <2>6
<1> QED
  BY <1>4, <1>5

-----------------------------------------------------------------------------
(* What a step does to the store and the outcomes is one of MibStore.      *)

AllOutcomes == [r \in Setters |-> OutcomeOf(r)]

\* The outcome of a SET is pending until it is rejected, or its commit phase ends.
LEMMA OutcomeStep ==
    ASSUME HInv, NEW r \in Setters, SetStep(r)
    PROVE  \/ OutcomeOf(r)' = OutcomeOf(r) /\ ~Committed(r)
           \/ OutcomeOf(r) = "pending" /\ OutcomeOf(r)' = "refused" /\ ~Committed(r)
           \/ OutcomeOf(r) = "pending" /\ OutcomeOf(r)' = "applied" /\ Committed(r)
<1>1. /\ StatusKnown(r) /\ r \in Requests /\ pc[r] \in Phases
      /\ pc \in [Requests -> Phases \union ReadPhases] /\ status \in [Setters -> Outcomes]
  BY DEF HInv, AtomicInv, RequestState, SetInv, PhaseInv, BaseInv, TypeInv, ControlOK, SetOK, Requests
<1>2. CASE StartSet(r) \/ SkipReady(r) \/ FindEntry(r) \/ Lock(r) \/ Accept(r) \/ Prepared(r) \/ SkipDone(r)
  <2>1. /\ pc[r] \in {"start", "prepare", "lock", "commit"}
        /\ pc'[r] \in {"prepare", "lock", "commit"} /\ status' = status /\ ~Committed(r)
    BY <1>1, <1>2 DEF StartSet, SkipReady, FindEntry, Lock, Accept, Locked, Prepared, SkipDone, Committed,
       InPdu, Goto, request, setRequest
  <2>2. status[r] = "noError"
    BY <1>1, <2>1 DEF StatusKnown
  <2> QED
    BY <2>1, <2>2 DEF OutcomeOf
<1>3. CASE Deny(r) \/ Reject(r)
  <2>1. pc[r] \in {"prepare", "lock"} /\ status'[r] = "prepareError" /\ ~Committed(r)
    BY <1>1, <1>3 DEF Deny, Reject, Locked, Committed
  <2>2. status[r] = "noError"
    BY <1>1, <2>1 DEF StatusKnown
  <2> QED
    BY <2>1, <2>2 DEF OutcomeOf
<1>4. CASE Commit(r)
  <2>1. /\ pc[r] = "commit" /\ ~Committed(r)
        /\ \/ pc' = pc /\ status' = status
           \/ pc'[r] = "undo" /\ status'[r] = "commitFailed"
    BY <1>1, <1>4 DEF Commit, Committed, Goto
  <2>2. status[r] = "noError"
    BY <1>1, <2>1 DEF StatusKnown
  <2> QED
    BY <2>1, <2>2 DEF OutcomeOf
<1>5. CASE Committed(r)
  <2>1. pc[r] = "commit" /\ pc'[r] = "cleanup" /\ status' = status
    BY <1>1, <1>5 DEF Committed, Goto, setRequest
  <2>2. status[r] = "noError"
    BY <1>1, <2>1 DEF StatusKnown
  <2> QED
    BY <1>5, <2>1, <2>2 DEF OutcomeOf
<1>6. CASE Undo(r) \/ Undone(r)
  <2>1. pc[r] = "undo" /\ status' = status /\ ~Committed(r)
    BY <1>6 DEF Undo, Undone, Committed, setRequest
  <2>2. status[r] # "noError"
    BY <1>1, <2>1 DEF StatusKnown
  <2> QED
    BY <2>1, <2>2 DEF OutcomeOf
<1>7. CASE Cleanup(r) \/ CleanedUp(r) \/ Answer(r) \/ Release(r) \/ Delete(r)
  <2>1. /\ pc[r] \in {"cleanup", "answer", "delete"} /\ pc'[r] \in {"cleanup", "answer", "delete", "done"}
        /\ status' = status /\ ~Committed(r)
    BY <1>1, <1>7 DEF Cleanup, CleanedUp, Answer, Release, Delete, Committed, Goto, setRequest
  <2> QED
    BY <2>1 DEF OutcomeOf
<1> QED
  BY <1>2, <1>3, <1>4, <1>5, <1>6, <1>7 DEF SetStep

LEMMA OutcomeFrame ==
    ASSUME NEW s \in Setters, Same(s)
    PROVE  OutcomeOf(s)' = OutcomeOf(s)
BY DEF Same, OutcomeOf

\* What a SET does, seen from outside: nothing, or it is refused, or applied.
LEMMA SetRefines ==
    ASSUME HInv, HInv', NEW r \in Setters, SetStep(r),
           \A s \in Setters : s # r => Same(s) /\ Kept(s),
           \A y \in Instances :
             before'[y] = IF Begins(r) /\ owner[EntryOf(y)] = r THEN value[y] ELSE before[y]
    PROVE  [Abstract!Next]_(Abstract!vars)
<1>1. /\ ValueInv /\ ValueInv' /\ pdu' = pdu /\ got' = got
  <2>1. pdu' = pdu /\ got' = got
    BY DEF SetStep, StartSet, SkipReady, Deny, FindEntry, Lock, Accept, Reject, Prepared, SkipDone,
       Commit, Committed, Undo, Undone, Cleanup, CleanedUp, Answer, Release, Delete, request
  <2> QED
    BY <2>1 DEF HInv, AtomicInv
<1>2. /\ Store = [x \in Instances |-> StoreAt(x)] /\ Store' = [x \in Instances |-> StoreAt(x)']
      /\ Store' \in [Instances -> Stored]
  BY <1>1, StoreValues, NextStoreValues
<1>3. \A s \in Setters : s # r => OutcomeOf(s)' = OutcomeOf(s)
  BY OutcomeFrame
<1>4. CASE ~Committed(r)
  <2>1. Store' = Store
    <3>1. \A x \in Instances : StoreAt(x)' = StoreAt(x)
      BY <1>4, StoreStep
    <3> QED
      BY <1>2, <3>1
  <2>2. CASE OutcomeOf(r)' = OutcomeOf(r)
    <3>1. AllOutcomes' = AllOutcomes
      BY <1>3, <2>2 DEF AllOutcomes
    <3> QED
      BY <1>1, <2>1, <3>1 DEF Abstract!vars, AllOutcomes
  <2>3. CASE OutcomeOf(r) = "pending" /\ OutcomeOf(r)' = "refused"
    <3>1. AllOutcomes' = [AllOutcomes EXCEPT ![r] = "refused"] /\ AllOutcomes[r] = "pending"
      BY <1>3, <2>3 DEF AllOutcomes
    <3>2. Abstract!Refuse(r)
      BY <1>1, <2>1, <3>1 DEF Abstract!Refuse, AllOutcomes
    <3> QED
      BY <3>2 DEF Abstract!Next
  <2> QED
    BY <1>4, <2>2, <2>3, OutcomeStep
<1>5. CASE Committed(r)
  <2>1. OutcomeOf(r) = "pending" /\ OutcomeOf(r)' = "applied"
    BY <1>5, OutcomeStep
  <2>2. AllOutcomes' = [AllOutcomes EXCEPT ![r] = "applied"] /\ AllOutcomes[r] = "pending"
    BY <1>3, <2>1 DEF AllOutcomes
  <2>3. ASSUME NEW x \in Instances
        PROVE  Store'[x] \in Abstract!Requested(pdu[r], x, Store)
    <3>1. CASE owner[EntryOf(x)] # r
      <4>1. Store'[x] = Store[x]
        BY <1>2, <3>1, StoreStep
      <4> QED
        BY <1>5, <3>1, <4>1, CommittedAsks
    <3>2. CASE owner[EntryOf(x)] = r
      <4>1. value' = value /\ owner' = owner /\ pc'[r] = "cleanup"
        BY <1>5 DEF Committed, Goto, objects, HInv, SetInv, BaseInv, TypeInv, ControlOK, Requests
      <4>2. Store'[x] = value[x]
        BY <1>2, <3>2, <4>1 DEF StoreAt, Undecided
      <4> QED
        BY <1>5, <3>2, <4>2, CommittedAsks
    <3> QED
      BY <3>1, <3>2
  <2>4. Abstract!Instances = Instances /\ Abstract!Stored = Stored
    BY DEF Abstract!Instances, Instances, Abstract!Columns, Columns, Abstract!ScalarRow, ScalarRow,
       Abstract!Stored, Stored, Abstract!RowStates, RowStates, Abstract!Absent, Absent
  <2>5. Abstract!Apply(r)
    BY <1>1, <1>2, <2>2, <2>3, <2>4 DEF Abstract!Apply, AllOutcomes
  <2> QED
    BY <2>5 DEF Abstract!Next
<1> QED
  BY <1>4, <1>5

\* A GET reads a value that no SET is about to change.
LEMMA GetRefines ==
    ASSUME HInv, HInv', NEW g \in Getters, GetStep(g), UNCHANGED <<value, undo, pdu>>,
           \A x \in Instances : before'[x] = before[x], \A s \in Setters : Same(s) /\ Kept(s)
    PROVE  [Abstract!Next]_(Abstract!vars)
<1>1. /\ ValueInv /\ ValueInv' /\ BaseInv /\ ReadSoFar /\ g \in Requests
      /\ NoRequest \notin Setters /\ g \notin Setters /\ got \in [Getters -> Seq(Stored)]
  BY TransactionAssumption
  DEF HInv, AtomicInv, SetInv, BaseInv, TypeInv, GotOK, TransactionAssumption, Requests
<1>2. Store = [x \in Instances |-> StoreAt(x)] /\ Store' = [x \in Instances |-> StoreAt(x)']
  BY <1>1, StoreValues, NextStoreValues
<1>3. Store' = Store
  <2>1. \A x \in Instances : StoreAt(x)' = StoreAt(x)
    BY StoreQuiet
  <2> QED
    BY <1>2, <2>1
<1>4. AllOutcomes' = AllOutcomes
  BY OutcomeFrame DEF AllOutcomes
<1>5. CASE Read(g)
  <2>1. InPdu(g) /\ owner[EntryOf(Current(g))] = g /\ Current(g) \in Instances
    <3>1. InPdu(g) /\ owner[EntryOf(Current(g))] = g
      BY <1>1, <1>5 DEF Read, BaseInv, LockInv, ReaderHolds, TypeInv, AtBinding
    <3>2. pdu[g] \in Pdus /\ idx[g] \in 1..(MaxVbs + 1) /\ MaxVbs \in Nat
      BY <1>1, ObjectsAssumption DEF BaseInv, TypeInv, ControlOK, ObjectsAssumption
    <3>3. idx[g] \in 1..Len(pdu[g])
      BY <3>1, <3>2, PduProperties DEF InPdu
    <3> QED
      BY <3>1, <3>2, <3>3, PduProperties, VbProperties DEF Current
  <2>2. Store[Current(g)] = value[Current(g)]
    BY <1>1, <1>2, <2>1 DEF StoreAt, Undecided
  <2>3. Len(got[g]) + 1 = idx[g] /\ Len(got[g]) < Len(pdu[g])
    <3>1. Len(got[g]) = idx[g] - 1 /\ idx[g] \in Nat /\ pdu[g] \in Pdus
      BY <1>1, ObjectsAssumption DEF ReadSoFar, BaseInv, TypeInv, ControlOK, ObjectsAssumption
    <3>2. Len(pdu[g]) \in Nat /\ idx[g] <= Len(pdu[g])
      BY <2>1, <3>1, PduProperties DEF InPdu
    <3> QED
      BY <3>1, <3>2
  <2>4. got' = [got EXCEPT ![g] = Append(@, Store[pdu[g][Len(@) + 1].inst])]
    BY <1>1, <1>5, <2>2, <2>3 DEF Read, Current
  <2>5. Abstract!Read(g)
    BY <1>3, <1>4, <2>3, <2>4 DEF Abstract!Read, AllOutcomes
  <2> QED
    BY <2>5 DEF Abstract!Next
<1>6. CASE ~Read(g)
  <2>1. got' = got
    BY <1>6 DEF GetStep, StartGet, LockEntry, EndGet
  <2> QED
    BY <1>3, <1>4, <2>1 DEF Abstract!vars, AllOutcomes
<1> QED
  BY <1>5, <1>6

LEMMA InitRefines ==
    ASSUME HInit
    PROVE  Abstract!Init
<1>1. /\ pdu \in [Requests -> SetPdus \union GetPdus] /\ pc = [r \in Requests |-> "start"]
      /\ owner = [e \in Entries |-> NoRequest] /\ status = [r \in Setters |-> "noError"]
      /\ got = [g \in Getters |-> <<>>]
  BY DEF HInit, Init
<1>2. Store \in [Instances -> Stored]
  BY AtomicInit, StoreValues DEF HInv, AtomicInv
<1>3. [r \in Setters |-> OutcomeOf(r)] = [r \in Setters |-> "pending"]
  BY <1>1 DEF OutcomeOf, Requests
<1>4. Abstract!Instances = Instances /\ Abstract!Stored = Stored
  BY DEF Abstract!Instances, Instances, Abstract!Columns, Columns, Abstract!ScalarRow, ScalarRow,
     Abstract!Stored, Stored, Abstract!RowStates, RowStates, Abstract!Absent, Absent
<1> QED
  BY <1>1, <1>2, <1>3, <1>4 DEF Abstract!Init, Requests

LEMMA StepRefines ==
    ASSUME HInv, HInv', [HNext]_hvars
    PROVE  [Abstract!Next]_(Abstract!vars)
<1>1. BaseInv /\ ValuesOK(before) /\ ValueInv /\ ValueInv'
  BY DEF HInv, SetInv, AtomicInv, ValueInv
<1>2. CASE \E r \in Setters :
             /\ SetStep(r)
             /\ \A s \in Setters : s # r => Same(s) /\ Kept(s)
             /\ \A x \in Instances :
                  before'[x] = IF Begins(r) /\ owner[EntryOf(x)] = r THEN value[x] ELSE before[x]
  BY <1>2, SetRefines
<1>3. ASSUME UNCHANGED <<value, undo, pdu>>, \A x \in Instances : before'[x] = before[x],
             \A s \in Setters : Same(s) /\ Kept(s), (\E g \in Getters : GetStep(g)) \/ UNCHANGED vars
      PROVE  [Abstract!Next]_(Abstract!vars)
  <2>1. CASE \E g \in Getters : GetStep(g)
    BY <1>3, <2>1, GetRefines
  <2>2. CASE UNCHANGED vars
    <3>1. \A x \in Instances : StoreAt(x)' = StoreAt(x)
      BY <1>3, StoreQuiet
    <3>2. Store' = Store
      BY <1>1, <3>1, StoreValues, NextStoreValues
    <3>3. AllOutcomes' = AllOutcomes
      BY <1>3, OutcomeFrame DEF AllOutcomes
    <3> QED
      BY <2>2, <3>2, <3>3 DEF Abstract!vars, AllOutcomes, vars, request
  <2> QED
    BY <1>3, <2>1, <2>2
<1> QED
  BY <1>1, <1>2, <1>3, KeptCases

\* SETs are atomic: with plain PDUs the four phases, the entry locks and the undo
\* copies implement a store on which a SET takes effect in one step or not at all
\* and of which a GET reads values one by one.
THEOREM AtomicSets == PlainSets => (HSpec => SetsAreAtomic)
<1> SUFFICES ASSUME PlainSets PROVE HSpec => SetsAreAtomic
  OBVIOUS
<1>1. HInit => Abstract!Init
  BY InitRefines
<1>2. HInv /\ HInv' /\ [HNext]_hvars => [Abstract!Next]_(Abstract!vars)
  BY StepRefines
<1>3. HSpec => []HInv
  BY HInvHolds
<1> QED
  BY <1>1, <1>2, <1>3, PTL DEF HSpec, SetsAreAtomic, Abstract!Spec

\* The store changes only when a commit phase succeeds: what fails is undone, and
\* leaves what it found.
THEOREM FailuresLeaveNothing == PlainSets => (HSpec => ChangedOnlyBySuccess)
<1> SUFFICES ASSUME PlainSets PROVE HSpec => ChangedOnlyBySuccess
  OBVIOUS
<1>1. HInv /\ HInv' /\ [HNext]_hvars =>
        [Store' # Store => \E r \in Setters : pc[r] = "commit" /\ pc'[r] = "cleanup"]_hvars
  <2> SUFFICES ASSUME HInv, HInv', [HNext]_hvars, Store' # Store
               PROVE  \E r \in Setters : pc[r] = "commit" /\ pc'[r] = "cleanup"
    OBVIOUS
  <2>1. BaseInv /\ ValuesOK(before) /\ ValueInv /\ ValueInv'
    BY DEF HInv, SetInv, AtomicInv, ValueInv
  <2>2. ~ \A x \in Instances : StoreAt(x)' = StoreAt(x)
    BY <2>1, StoreValues, NextStoreValues
  <2>3. PICK r \in Setters :
          /\ SetStep(r)
          /\ \A s \in Setters : s # r => Same(s) /\ Kept(s)
          /\ \A x \in Instances :
               before'[x] = IF Begins(r) /\ owner[EntryOf(x)] = r THEN value[x] ELSE before[x]
    BY <2>1, <2>2, KeptCases, StoreQuiet
  <2>4. Committed(r)
    BY <2>2, <2>3, StoreStep
  <2> QED
    BY <2>1, <2>4 DEF Committed, Goto, BaseInv, TypeInv, ControlOK, Requests
<1>2. HSpec => []HInv
  BY HInvHolds
<1> QED
  BY <1>1, <1>2, PTL DEF HSpec, ChangedOnlyBySuccess

\* With such PDUs no undo copy outlives the SET that made it, whatever their
\* rows become when they are created.
THEOREM PlainUndoCopies == PlainSets => (HSpec => []UndoCopiesOwned)
<1> SUFFICES ASSUME PlainSets PROVE HSpec => []UndoCopiesOwned
  OBVIOUS
<1>1. HInv => UndoCopiesOwned
  BY UndoOwned DEF HInv
<1> QED
  BY <1>1, HInvHolds, PTL
=============================================================================
