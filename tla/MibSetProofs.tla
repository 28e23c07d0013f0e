---------------------------- MODULE MibSetProofs ----------------------------
(***************************************************************************)
(* Theorems about MibSetTransaction, for any entries, requests and PDUs.   *)
(* Its first part is about MibObjects: what the operators of a SET's       *)
(* phases return.                                                          *)
(***************************************************************************)
EXTENDS MibSetTransaction, SequenceTheorems, TLAPS

\* A PDU is a sequence of at most MaxVbs bindings.
LEMMA PduProperties ==
    ASSUME NEW p \in Pdus
    PROVE  /\ p \in Seq(Vbs)
           /\ Len(p) \in 0..MaxVbs
           /\ DOMAIN p = 1..Len(p)
           /\ \A i \in 1..Len(p) : p[i] \in Vbs
<1> USE ObjectsAssumption DEF ObjectsAssumption
<1>1. PICK n \in 0..MaxVbs : p \in [1..n -> Vbs]
  BY DEF Pdus
<1>2. n \in Nat
  BY <1>1
<1>3. p \in Seq(Vbs)
  BY <1>1, <1>2
<1>4. Len(p) \in Nat /\ DOMAIN p = 1..Len(p)
  BY <1>3, LenProperties
<1>5. Len(p) = n
  BY <1>1, <1>2, <1>4
<1> QED
  BY <1>1, <1>3, <1>4, <1>5

\* A non-empty set has the element Greatest names.
LEMMA GreatestIn ==
    ASSUME NEW S, S # {}
    PROVE  Greatest(S) \in S
<1>1. CASE \E m \in S : \A j \in S : j <= m
  BY <1>1 DEF Greatest
<1>2. CASE ~ \E m \in S : \A j \in S : j <= m
  BY <1>2 DEF Greatest
<1> QED
  BY <1>1, <1>2

\* What a binding names and asks for.
LEMMA VbProperties ==
    ASSUME NEW b \in Vbs
    PROVE  /\ b.inst \in Instances
           /\ IsStatus(b.inst) => b.val \in RowRequests
           /\ ~IsStatus(b.inst) => b.val \in Values
           /\ EntryOf(b.inst) \in Entries
BY ObjectsAssumption DEF Vbs, Instances, EntryOf, Entries, IsStatus, ObjectsAssumption

\* The entry, row and RowStatus of an instance.
LEMMA InstanceProperties ==
    ASSUME NEW x \in Instances
    PROVE  /\ EntryOf(x) \in Entries
           /\ InTable(x) => StatusOf(x) \in Instances /\ RowOf(x) \in Tables \X Rows
           /\ IsStatus(x) => InTable(x) /\ StatusOf(x) = x
BY ObjectsAssumption DEF Instances, EntryOf, Entries, IsStatus, InTable, IsTable, StatusOf,
   RowOf, Columns, ObjectsAssumption

-----------------------------------------------------------------------------
(* Commit, undo and cleanup keep the values of the instances well typed. A *)
(* row is there as a whole or not at all, so that an undo copy is never    *)
(* taken of a missing instance.                                            *)

DataOK(v, u) ==
    /\ v \in [Instances -> Stored]
    /\ u \in [Instances -> Backup]
    /\ \A x \in Instances : v[x] = Absent <=> RowMissing(x, v)

OutcomeOK(o) ==
    /\ o = [ok |-> o.ok, value |-> o.value, undo |-> o.undo, finished |-> o.finished]
    /\ o.ok \in BOOLEAN
    /\ o.finished \subseteq 1..MaxVbs
    /\ DataOK(o.value, o.undo)

\* An outcome is well typed when its parts are.
LEMMA OutcomeType ==
    ASSUME NEW ok \in BOOLEAN, NEW v, NEW u, DataOK(v, u), NEW f \in SUBSET (1..MaxVbs)
    PROVE  OutcomeOK(Outcome(ok, v, u, f))
BY DEF Outcome, OutcomeOK

\* snmpRowStatus stores a row state.
LEMMA StatusAfterType ==
    ASSUME NEW v \in RowRequests
    PROVE  StatusAfter(v) \in RowStates
BY DEF RowRequests, StatusAfter, RowStates

\* MibLeaf's commit of an instance that is there.
LEMMA CommitLeafType ==
    ASSUME NEW p \in Pdus, NEW i \in 1..Len(p), NEW v, NEW u, DataOK(v, u),
           ~IsStatus(p[i].inst), ~RowMissing(p[i].inst, v),
           NEW o \in CommitLeaf(p, i, v, u)
    PROVE  OutcomeOK(o)
<1> DEFINE x == p[i].inst
<1>1. x \in Instances /\ p[i].val \in Values /\ i \in 1..MaxVbs
  BY PduProperties, VbProperties, ObjectsAssumption DEF ObjectsAssumption
<1>2. v[x] \in Stored \ {Absent}
  BY <1>1 DEF DataOK
<1>3. v[x] \in Backup /\ p[i].val \in Stored \ {Absent}
  BY <1>1, <1>2, ObjectsAssumption DEF Stored, Backup, ObjectsAssumption
<1>4. [u EXCEPT ![x] = v[x]] \in [Instances -> Backup]
  BY <1>1, <1>3 DEF DataOK
<1>5. DataOK([v EXCEPT ![x] = p[i].val], [u EXCEPT ![x] = v[x]])
  <2> DEFINE w == [v EXCEPT ![x] = p[i].val]
  <2>1. w \in [Instances -> Stored]
    BY <1>1, <1>3 DEF DataOK
  <2>2. ASSUME NEW y \in Instances PROVE RowMissing(y, w) <=> RowMissing(y, v)
    <3>1. ~InTable(y) \/ (StatusOf(y) \in Instances /\ StatusOf(y) # x)
      BY InstanceProperties DEF IsStatus, StatusOf
    <3> QED
      BY <3>1, <1>1 DEF RowMissing, RowExists, DataOK
  <2>3. ASSUME NEW y \in Instances PROVE w[y] = Absent <=> RowMissing(y, w)
    BY <2>2, <1>1, <1>2, <1>3 DEF DataOK
  <2> QED
    BY <2>1, <2>3, <1>4 DEF DataOK
<1>6. DataOK(v, [u EXCEPT ![x] = v[x]])
  BY <1>4 DEF DataOK
<1>7. \/ o = Outcome(TRUE, [v EXCEPT ![x] = p[i].val], [u EXCEPT ![x] = v[x]], {i})
      \/ o = Outcome(FALSE, v, [u EXCEPT ![x] = v[x]], {})
  BY DEF CommitLeaf
<1> QED
  BY <1>1, <1>5, <1>6, <1>7, OutcomeType

\* snmpRowStatus's commit for a row that is there.
LEMMA CommitStatusType ==
    ASSUME NEW p \in Pdus, NEW i \in 1..Len(p), NEW v, NEW u, DataOK(v, u),
           IsStatus(p[i].inst), RowExists(p[i].inst, v),
           NEW o \in CommitStatus(p, i, v, u)
    PROVE  OutcomeOK(o)
<1> DEFINE x == p[i].inst
           w == [v EXCEPT ![x] = StatusAfter(p[i].val)]
<1>1. x \in Instances /\ p[i].val \in RowRequests /\ i \in 1..MaxVbs
  BY PduProperties, VbProperties, ObjectsAssumption DEF ObjectsAssumption
<1>2. StatusAfter(p[i].val) \in Stored \ {Absent}
  BY <1>1, StatusAfterType, ObjectsAssumption DEF Stored, RowStates, Absent, ObjectsAssumption
<1>3. v[x] \in Backup
  BY <1>1, InstanceProperties DEF RowExists, DataOK, Stored, Backup
<1>4. w \in [Instances -> Stored] /\ [u EXCEPT ![x] = v[x]] \in [Instances -> Backup]
  BY <1>1, <1>2, <1>3 DEF DataOK
<1>5. v[x] # Absent
  BY <1>1, InstanceProperties DEF RowExists
<1>6. ASSUME NEW y \in Instances PROVE RowMissing(y, w) <=> RowMissing(y, v)
  BY <1>1, <1>2, <1>5, InstanceProperties DEF RowMissing, RowExists, DataOK
<1>7. ASSUME NEW y \in Instances PROVE w[y] = Absent <=> RowMissing(y, w)
  BY <1>1, <1>2, <1>5, <1>6 DEF DataOK
<1>8. o = Outcome(TRUE, w, [u EXCEPT ![x] = v[x]], {i})
  BY DEF CommitStatus
<1>9. DataOK(w, [u EXCEPT ![x] = v[x]])
  BY <1>4, <1>7 DEF DataOK
<1> QED
  BY <1>1, <1>8, <1>9, OutcomeType

\* Destroying a row removes all its values and undo copies.
LEMMA RemoveRowType ==
    ASSUME NEW p \in Pdus, NEW i \in 1..Len(p), NEW v, NEW u, DataOK(v, u),
           InTable(p[i].inst), NEW o \in RemoveRow(p, i, v, u)
    PROVE  OutcomeOK(o)
<1> DEFINE x == p[i].inst
           w == [y \in Instances |-> IF InRow(x, y) THEN Absent ELSE v[y]]
           k == [y \in Instances |-> IF InRow(x, y) THEN NoUndo ELSE u[y]]
<1>1. x \in Instances
  BY PduProperties, VbProperties
<1>2. w \in [Instances -> Stored] /\ k \in [Instances -> Backup]
  BY DEF DataOK, Stored, Backup
<1>3. ASSUME NEW y \in Instances PROVE w[y] = Absent <=> RowMissing(y, w)
  <2>1. CASE InRow(x, y)
    <3>1. InTable(y) /\ InRow(x, StatusOf(y)) /\ StatusOf(y) \in Instances
      BY <1>1, <2>1, InstanceProperties DEF InRow, RowOf, StatusOf, InTable, EntryOf
    <3> QED
      BY <2>1, <3>1 DEF RowMissing, RowExists
  <2>2. CASE ~InRow(x, y)
    <3>1. InTable(y) => StatusOf(y) \in Instances /\ w[StatusOf(y)] = v[StatusOf(y)]
      BY <2>2, InstanceProperties DEF InRow, RowOf, StatusOf
    <3> QED
      BY <2>2, <3>1 DEF RowMissing, RowExists, DataOK
  <2> QED
    BY <2>1, <2>2
<1>4. o = Outcome(TRUE, w, k, {}) /\ DataOK(w, k)
  BY <1>2, <1>3 DEF RemoveRow, DataOK
<1> QED
  BY <1>4, OutcomeType

\* The values and undo copies add_row and the commits of a new row leave.
LEMMA NewRowType ==
    ASSUME NEW p \in Pdus, NEW y \in Instances
    PROVE  NewValue(p, y) \in Stored \ {Absent} /\ NewUndo(p, y) \in Backup
<1>0. /\ Values \subseteq Stored \ {Absent} /\ RowStates \subseteq Stored \ {Absent}
      /\ Values \subseteq Backup /\ NoUndo \in Backup /\ "empty" \in RowStates
      /\ "empty" \in Backup /\ Default \in Values
  BY ObjectsAssumption DEF ObjectsAssumption, Stored, Backup, RowStates, Absent
<1>1. ASSUME NEW j \in Naming(p, y)
      PROVE  p[j].val \in IF IsStatus(y) THEN RowRequests ELSE Values
  <2>1. p[j] \in Vbs /\ p[j].inst = y
    BY <1>1, PduProperties DEF Naming
  <2> QED
    BY <2>1, VbProperties
<1>2. CASE Naming(p, y) = {}
  BY <1>0, <1>2 DEF NewValue, NewUndo
<1>3. CASE Naming(p, y) # {}
  <2> DEFINE last == Greatest(Naming(p, y))
  <2>1. last \in Naming(p, y)
    BY <1>3, GreatestIn
  <2>2. NewValue(p, y) \in Stored \ {Absent}
    BY <1>0, <1>1, <1>3, <2>1, StatusAfterType DEF NewValue
  <2>3. Naming(p, y) # {last} =>
          Greatest(Naming(p, y) \ {last}) \in Naming(p, y)
    BY <2>1, GreatestIn
  <2>4. NewUndo(p, y) \in Backup
    BY <1>0, <1>1, <1>3, <2>1, <2>3 DEF NewUndo
  <2> QED
    BY <2>2, <2>4
<1> QED
  BY <1>2, <1>3

\* MibTable's commit for a row that is not there.
LEMMA AddRowType ==
    ASSUME NEW p \in Pdus, NEW i \in 1..Len(p), NEW v, NEW u, DataOK(v, u),
           InTable(p[i].inst), NEW o \in AddRow(p, i, v, u)
    PROVE  OutcomeOK(o)
<1> DEFINE x == p[i].inst
           w == [y \in Instances |-> IF InRow(x, y) THEN NewValue(p, y) ELSE v[y]]
           k == [y \in Instances |-> IF InRow(x, y) THEN NewUndo(p, y) ELSE u[y]]
<1>1. x \in Instances /\ FinishedByAddRow(p, x) \subseteq 1..MaxVbs
  BY PduProperties, VbProperties, ObjectsAssumption DEF FinishedByAddRow, NamingRow, ObjectsAssumption
<1>2. w \in [Instances -> Stored] /\ k \in [Instances -> Backup]
  BY NewRowType DEF DataOK
<1>3. ASSUME NEW y \in Instances PROVE w[y] = Absent <=> RowMissing(y, w)
  <2>1. CASE InRow(x, y)
    <3>1. InTable(y) /\ InRow(x, StatusOf(y)) /\ StatusOf(y) \in Instances
      BY <1>1, <2>1, InstanceProperties DEF InRow, RowOf, StatusOf, InTable, EntryOf
    <3>2. w[y] # Absent /\ w[StatusOf(y)] # Absent
      BY <2>1, <3>1, NewRowType
    <3> QED
      BY <3>1, <3>2 DEF RowMissing, RowExists
  <2>2. CASE ~InRow(x, y)
    <3>1. InTable(y) => StatusOf(y) \in Instances /\ w[StatusOf(y)] = v[StatusOf(y)]
      BY <2>2, InstanceProperties DEF InRow, RowOf, StatusOf
    <3> QED
      BY <2>2, <3>1 DEF RowMissing, RowExists, DataOK
  <2> QED
    BY <2>1, <2>2
<1>4. DataOK(w, k)
  BY <1>2, <1>3 DEF DataOK
<1>5. o = Outcome(TRUE, w, k, FinishedByAddRow(p, x)) \/ o = Outcome(FALSE, v, u, {})
  BY DEF AddRow
<1> QED
  BY <1>1, <1>4, <1>5, OutcomeType

\* The upgrade of a notReady row.
LEMMA UpgradesType ==
    ASSUME NEW x \in Instances, InTable(x), NEW o, OutcomeOK(o), NEW q \in Upgrades(o, x)
    PROVE  OutcomeOK(q)
<1> DEFINE s == StatusOf(x)
           w == [o.value EXCEPT ![s] = "notInService"]
           k == [o.undo EXCEPT ![s] = "notReady"]
<1>1. CASE q = o
  BY <1>1
<1>2. CASE q # o
  <2>1. q = [o EXCEPT !.value[s] = "notInService", !.undo[s] = "notReady"]
        /\ o.value[s] = "notReady"
    BY <1>2 DEF Upgrades
  <2>2. q = Outcome(o.ok, w, k, o.finished)
    BY <2>1 DEF OutcomeOK, Outcome
  <2>3. s \in Instances /\ {"notInService", "notReady"} \subseteq Stored \intersect Backup
        /\ "notInService" # Absent /\ "notReady" # Absent
    BY InstanceProperties DEF Stored, Backup, RowStates, Absent
  <2>4. w \in [Instances -> Stored] /\ k \in [Instances -> Backup]
    BY <2>3 DEF OutcomeOK, DataOK
  <2>5. ASSUME NEW y \in Instances PROVE w[y] = Absent <=> o.value[y] = Absent
    BY <2>1, <2>3 DEF OutcomeOK, DataOK
  <2>6. ASSUME NEW y \in Instances PROVE RowMissing(y, w) <=> RowMissing(y, o.value)
    BY <2>5, InstanceProperties DEF RowMissing, RowExists
  <2>7. DataOK(w, k)
    BY <2>4, <2>5, <2>6 DEF OutcomeOK, DataOK
  <2> QED
    BY <2>2, <2>7, OutcomeType DEF OutcomeOK
<1> QED
  BY <1>1, <1>2

\* Whatever a commit does, the objects stay well typed and rows stay whole.
LEMMA CommitsType ==
    ASSUME NEW p \in Pdus, NEW i \in 1..Len(p), NEW v, NEW u, DataOK(v, u),
           NEW o \in Commits(p, i, v, u)
    PROVE  OutcomeOK(o)
<1> DEFINE x == p[i].inst
<1>1. x \in Instances
  BY PduProperties, VbProperties
<1>2. CASE ~InTable(x)
  BY <1>1, <1>2, CommitLeafType, InstanceProperties DEF Commits, RowMissing
<1>3. CASE InTable(x)
  <2>1. PICK c \in CommitTable(p, i, v, u) : o \in Upgrades(c, x)
    BY <1>3 DEF Commits
  <2>2. OutcomeOK(c)
    <3>1. CASE ~RowExists(x, v)
      BY <1>3, <2>1, <3>1, AddRowType DEF CommitTable
    <3>2. CASE RowExists(x, v) /\ ~IsStatus(x)
      BY <2>1, <3>2, CommitLeafType DEF CommitTable, RowMissing
    <3>3. CASE RowExists(x, v) /\ IsStatus(x) /\ p[i].val = "destroy"
      BY <1>3, <2>1, <3>3, RemoveRowType DEF CommitTable
    <3>4. CASE RowExists(x, v) /\ IsStatus(x) /\ p[i].val # "destroy"
      BY <2>1, <3>4, CommitStatusType DEF CommitTable
    <3> QED
      BY <3>1, <3>2, <3>3, <3>4
  <2> QED
    BY <1>1, <1>3, <2>1, <2>2, UpgradesType
<1> QED
  BY <1>2, <1>3

\* Undoing and cleaning up the instances one binding reaches.
LEMMA ReachedType ==
    ASSUME NEW p \in Pdus, NEW i \in 1..Len(p), NEW v, NEW u, DataOK(v, u)
    PROVE  /\ DataOK(Unset(Reached(p, i, v), v, u), Forget(Reached(p, i, v), u))
           /\ DataOK(v, Forget(Reached(p, i, v), u))
<1> DEFINE S == Reached(p, i, v)
           w == Unset(S, v, u)
           k == Forget(S, u)
<1>1. k \in [Instances -> Backup]
  BY DEF Forget, DataOK, Backup
<1>2. ASSUME NEW y \in S, y \in Instances PROVE v[y] # Absent
  <2>1. ~RowMissing(y, v)
    BY <1>2, PduProperties, VbProperties DEF Reached, RowMissing, InTable
  <2> QED
    BY <1>2, <2>1 DEF DataOK
<1>3. ASSUME NEW y \in Instances PROVE w[y] \in Stored /\ (w[y] = Absent <=> v[y] = Absent)
  <2>1. v[y] \in Stored /\ u[y] \in Backup
    BY DEF DataOK
  <2>2. u[y] # NoUndo => u[y] \in Stored \ {Absent}
    BY <2>1, ObjectsAssumption DEF Stored, Backup, RowStates, Absent, NoUndo, ObjectsAssumption
  <2> QED
    BY <1>2, <2>1, <2>2 DEF Unset
<1>4. w \in [Instances -> Stored]
  BY <1>3 DEF Unset
<1>5. ASSUME NEW y \in Instances PROVE RowMissing(y, w) <=> RowMissing(y, v)
  BY <1>3, InstanceProperties DEF RowMissing, RowExists
<1>6. \A y \in Instances : w[y] = Absent <=> RowMissing(y, w)
  BY <1>3, <1>5 DEF DataOK
<1> QED
  BY <1>1, <1>4, <1>6 DEF DataOK

-----------------------------------------------------------------------------
(* The locks of SETs.                                                      *)

\* No PDU names a table together with one of its listeners: Request::set_unlocked
\* releases a listener at its own binding even if its table is still locked.
SeparateListeners ==
    \A p \in SetPdus : \A i, j \in DOMAIN p :
      EntryOf(p[i].inst) \notin Listeners[EntryOf(p[j].inst)]

Family(e) == {e} \union Listeners[e]

ControlOK ==
    /\ pdu \in [Requests -> Pdus]
    /\ \A r \in Setters : pdu[r] \in SetPdus
    /\ pc \in [Requests -> Phases \union ReadPhases]
    /\ idx \in [Requests -> 1..(MaxVbs + 1)]
    /\ mib \in Requests \union {NoRequest}
    /\ owner \in [Entries -> Requests \union {NoRequest}]
    /\ want \in [Setters -> SUBSET Entries]
    /\ locks \in [Setters -> [1..MaxVbs -> Entries \union {NoEntry}]]

\* A request works on a binding of its PDU while it locks or reads an entry.
AtBinding == \A r \in Requests : pc[r] \in {"lock", "wait", "read"} => InPdu(r)

\* Request::locks records for a binding the entry the binding names.
LocksNamed ==
    \A r \in Setters : \A i \in 1..MaxVbs : locks[r][i] # NoEntry =>
      i \in DOMAIN pdu[r] /\ locks[r][i] = EntryOf(pdu[r][i].inst)

\* The entries recorded and their listeners are locked for the request.
FamilyHeld ==
    \A r \in Setters : \A i \in 1..MaxVbs : locks[r][i] # NoEntry =>
      \A u \in Family(locks[r][i]) : owner[u] = r

\* Request::set_locked has, or still wants, the entry at hand and its listeners.
FamilyWanted ==
    \A r \in Setters : pc[r] = "lock" =>
      \A u \in Family(EntryOf(Current(r))) : owner[u] = r \/ u \in want[r]

\* A GET holds the entry it reads.
ReaderHolds == \A g \in Getters : pc[g] = "read" => owner[EntryOf(Current(g))] = g

LockInv ==
    /\ ControlOK
    /\ AtBinding
    /\ LocksNamed
    /\ FamilyHeld
    /\ FamilyWanted
    /\ ReaderHolds

-----------------------------------------------------------------------------
(* Facts about the state.                                                  *)

\* The binding a request works on lies in its PDU and names an entry.
LEMMA CurrentBinding ==
    ASSUME ControlOK, NEW r \in Requests, InPdu(r)
    PROVE  /\ idx[r] \in 1..MaxVbs
           /\ idx[r] \in DOMAIN pdu[r]
           /\ idx[r] + 1 \in 1..(MaxVbs + 1)
           /\ Current(r) \in Instances
           /\ EntryOf(Current(r)) \in Entries
<1>1. pdu[r] \in Pdus /\ idx[r] \in 1..(MaxVbs + 1) /\ MaxVbs \in Nat
  BY ObjectsAssumption DEF ControlOK, ObjectsAssumption
<1>2. /\ Len(pdu[r]) \in 0..MaxVbs
      /\ DOMAIN pdu[r] = 1..Len(pdu[r])
      /\ \A i \in 1..Len(pdu[r]) : pdu[r][i] \in Vbs
  BY <1>1, PduProperties
<1>3. idx[r] \in 1..Len(pdu[r])
  BY <1>1, <1>2 DEF InPdu
<1>4. pdu[r][idx[r]] \in Vbs
  BY <1>2, <1>3
<1>5. Current(r) \in Instances /\ EntryOf(Current(r)) \in Entries
  BY <1>4, VbProperties DEF Current
<1> QED
  BY <1>1, <1>2, <1>3, <1>5

\* The family of an entry consists of entries.
LEMMA FamilyEntries ==
    ASSUME NEW e \in Entries
    PROVE  Family(e) \subseteq Entries
BY TransactionAssumption DEF Family, TransactionAssumption, Entries

\* An entry lock_index finds while no listener shares a PDU with its table is
\* recorded itself.
LEMMA IndexedIsRecorded ==
    ASSUME SeparateListeners, LockInv, NEW r \in Setters, InPdu(r),
           LockIndexed(locks[r], EntryOf(Current(r)))
    PROVE  \E j \in 1..MaxVbs : locks[r][j] # NoEntry /\ locks[r][j] = EntryOf(Current(r))
<1>1. PICK j \in 1..MaxVbs :
        /\ locks[r][j] # NoEntry
        /\ locks[r][j] = EntryOf(Current(r)) \/ EntryOf(Current(r)) \in Listeners[locks[r][j]]
  BY DEF LockIndexed, LockInv, ControlOK
<1>2. /\ j \in DOMAIN pdu[r] /\ locks[r][j] = EntryOf(pdu[r][j].inst)
      /\ idx[r] \in DOMAIN pdu[r]
      /\ pdu[r] \in SetPdus
  BY <1>1, CurrentBinding DEF LockInv, LocksNamed, ControlOK, Requests
<1>3. EntryOf(pdu[r][idx[r]].inst) \notin Listeners[EntryOf(pdu[r][j].inst)]
  BY <1>2 DEF SeparateListeners
<1> QED
  BY <1>1, <1>2, <1>3 DEF Current

-----------------------------------------------------------------------------
(* Steps that leave the locks alone.                                       *)

\* A request that moves on without touching a lock keeps the invariant.
LEMMA QuietStep ==
    ASSUME LockInv, NEW r \in Requests,
           UNCHANGED <<pdu, owner, want, locks>>,
           mib' \in Requests \union {NoRequest},
           pc' \in [Requests -> Phases \union ReadPhases],
           idx' \in [Requests -> 1..(MaxVbs + 1)],
           \A s \in Requests \ {r} : pc'[s] = pc[s] /\ idx'[s] = idx[s],
           pc'[r] \notin {"lock", "wait", "read"}
    PROVE  LockInv'
<1> USE DEF LockInv
<1>1. ControlOK'
  BY DEF ControlOK
<1>2. AtBinding'
  BY DEF AtBinding, InPdu
<1>3. LocksNamed' /\ FamilyHeld'
  BY DEF LocksNamed, FamilyHeld
<1>4. FamilyWanted'
  BY DEF FamilyWanted, Current, Requests
<1>5. ReaderHolds'
  BY DEF ReaderHolds, Current, Requests
<1> QED
  BY <1>1, <1>2, <1>3, <1>4, <1>5

\* Goto and NextVb keep the program counters well typed and touch r alone.
LEMMA GotoType ==
    ASSUME ControlOK, NEW r \in Requests, NEW phase \in Phases \union ReadPhases, Goto(r, phase)
    PROVE  /\ pc' \in [Requests -> Phases \union ReadPhases]
           /\ idx' \in [Requests -> 1..(MaxVbs + 1)]
           /\ \A s \in Requests \ {r} : pc'[s] = pc[s] /\ idx'[s] = idx[s]
           /\ pc'[r] = phase
<1>1. 1 \in 1..(MaxVbs + 1)
  BY ObjectsAssumption DEF ObjectsAssumption
<1> QED
  BY <1>1 DEF ControlOK, Goto

\* ... the latter while r is at a binding.
LEMMA NextVbType ==
    ASSUME ControlOK, NEW r \in Requests, InPdu(r), NextVb(r)
    PROVE  /\ idx' \in [Requests -> 1..(MaxVbs + 1)]
           /\ \A s \in Requests \ {r} : idx'[s] = idx[s]
<1>1. idx[r] + 1 \in 1..(MaxVbs + 1)
  BY CurrentBinding
<1> QED
  BY <1>1 DEF ControlOK, NextVb

\* A request that goes to another phase without touching a lock keeps the
\* invariant ...
LEMMA QuietGoto ==
    ASSUME LockInv, NEW r \in Requests, NEW phase \in Phases \ {"lock"}, Goto(r, phase),
           UNCHANGED <<pdu, owner, want, locks>>, UNCHANGED mib \/ mib' \in {r, NoRequest}
    PROVE  LockInv'
<1>1. ControlOK /\ mib' \in Requests \union {NoRequest}
  BY DEF LockInv, ControlOK
<1>2. phase \in Phases \union ReadPhases /\ phase \notin {"lock", "wait", "read"}
  BY DEF Phases
<1> QED
  BY <1>1, <1>2, GotoType, QuietStep

\* ... likewise to the next binding.
LEMMA QuietNextVb ==
    ASSUME LockInv, NEW r \in Requests, InPdu(r), pc[r] \notin {"lock", "wait", "read"},
           NextVb(r), UNCHANGED <<pdu, pc, mib, owner, want, locks>>
    PROVE  LockInv'
<1>1. ControlOK /\ mib' \in Requests \union {NoRequest}
      /\ pc' \in [Requests -> Phases \union ReadPhases]
  BY DEF LockInv, ControlOK
<1> QED
  BY <1>1, NextVbType, QuietStep

-----------------------------------------------------------------------------
(* Request::set_unlocked.                                                  *)

\* set_unlocked releases only locks of the request itself, and none that another
\* of its bindings still needs.
LEMMA UnlockKeeps ==
    ASSUME SeparateListeners, LockInv, NEW r \in Setters, NEW i \in 1..MaxVbs, Unlock(r, i)
    PROVE  /\ owner' \in [Entries -> Requests \union {NoRequest}]
           /\ locks' \in [Setters -> [1..MaxVbs -> Entries \union {NoEntry}]]
           /\ \A s \in Requests \ {r} : \A u \in Entries : owner[u] = s => owner'[u] = s
           /\ \A s \in Setters : \A j \in 1..MaxVbs : locks'[s][j] # NoEntry =>
                locks'[s][j] = locks[s][j] /\ \A u \in Family(locks[s][j]) : owner'[u] = s
<1> USE DEF LockInv
<1> DEFINE e == locks[r][i]
           rest == [locks[r] EXCEPT ![i] = NoEntry]
           R == ToRelease(locks[r], i)
<1>1. /\ owner' \in [Entries -> Requests \union {NoRequest}]
      /\ locks' \in [Setters -> [1..MaxVbs -> Entries \union {NoEntry}]]
  BY DEF ControlOK, Unlock
<1>2. ASSUME NEW u \in R PROVE owner[u] = r
  <2>1. e # NoEntry /\ u \in Family(e)
    BY DEF ToRelease, Family
  <2> QED
    BY <2>1 DEF FamilyHeld
<1>3. ASSUME NEW u \in Entries, u \notin R PROVE owner'[u] = owner[u]
  BY <1>3 DEF Unlock
<1>4. ASSUME NEW s \in Requests \ {r}, NEW u \in Entries, owner[u] = s PROVE owner'[u] = s
  BY <1>2, <1>3, <1>4
<1>5. ASSUME NEW s \in Setters, NEW j \in 1..MaxVbs, locks'[s][j] # NoEntry
      PROVE  locks'[s][j] = locks[s][j] /\ \A u \in Family(locks[s][j]) : owner'[u] = s
  <2>1. locks'[s][j] = locks[s][j] /\ (s = r => j # i /\ rest[j] = locks[s][j])
    BY <1>5 DEF Unlock, ControlOK
  <2>2. locks[s][j] \in Entries /\ locks[s][j] # NoEntry
    <3>1. locks[s] \in [1..MaxVbs -> Entries \union {NoEntry}]
      BY DEF ControlOK
    <3> QED
      BY <1>5, <2>1, <3>1
  <2>3. ASSUME NEW u \in Family(locks[s][j]) PROVE owner[u] = s /\ u \in Entries
    BY <2>2, FamilyEntries DEF FamilyHeld
  <2>4. CASE s # r
    BY <2>1, <2>3, <2>4, <1>4 DEF Requests
  <2>5. CASE s = r
    <3>1. j # i /\ rest[j] = locks[s][j]
      BY <2>1, <2>5
    <3>2. ASSUME NEW u \in Family(locks[s][j]), u \in R PROVE FALSE
      <4>1. e # NoEntry /\ e # locks[s][j] /\ j \in DOMAIN rest
        BY <3>1, <3>2 DEF ToRelease, ControlOK
      <4>2. LockIndexed(rest, u)
        BY <3>1, <2>2, <4>1, <3>2 DEF LockIndexed, Family
      <4>3. u = e
        BY <3>2, <4>2 DEF ToRelease
      <4>4. e \in Listeners[locks[s][j]]
        BY <3>2, <4>1, <4>3 DEF Family
      <4>5. /\ pdu[r] \in SetPdus /\ i \in DOMAIN pdu[r] /\ j \in DOMAIN pdu[r]
            /\ e = EntryOf(pdu[r][i].inst) /\ locks[s][j] = EntryOf(pdu[r][j].inst)
        BY <4>1, <2>2, <2>5 DEF LocksNamed, ControlOK
      <4> QED
        BY <4>4, <4>5 DEF SeparateListeners
    <3> QED
      BY <2>1, <2>3, <3>2, <1>3
  <2> QED
    BY <2>4, <2>5
<1> QED
  BY <1>1, <1>4, <1>5

\* A phase that calls set_unlocked for its binding keeps the invariant.
LEMMA UnlockStep ==
    ASSUME SeparateListeners, LockInv, NEW r \in Setters, InPdu(r),
           pc[r] \notin {"lock", "wait", "read"},
           Unlock(r, idx[r]), NextVb(r), UNCHANGED <<pdu, pc, mib, want>>
    PROVE  LockInv'
<1> USE DEF LockInv
<1>1. r \in Requests /\ idx[r] \in 1..MaxVbs
  BY CurrentBinding DEF Requests
<1>2. /\ owner' \in [Entries -> Requests \union {NoRequest}]
      /\ locks' \in [Setters -> [1..MaxVbs -> Entries \union {NoEntry}]]
      /\ \A s \in Requests \ {r} : \A u \in Entries : owner[u] = s => owner'[u] = s
      /\ \A s \in Setters : \A j \in 1..MaxVbs : locks'[s][j] # NoEntry =>
           locks'[s][j] = locks[s][j] /\ \A u \in Family(locks[s][j]) : owner'[u] = s
  BY <1>1, UnlockKeeps
<1>3. /\ idx' \in [Requests -> 1..(MaxVbs + 1)]
      /\ \A s \in Requests \ {r} : idx'[s] = idx[s]
  BY <1>1, NextVbType
<1>4. ControlOK'
  BY <1>2, <1>3 DEF ControlOK
<1>5. AtBinding'
  BY <1>3 DEF AtBinding, InPdu
<1>6. LocksNamed'
  BY <1>2 DEF LocksNamed
<1>7. FamilyHeld'
  BY <1>2 DEF FamilyHeld
<1>8. ASSUME NEW s \in Requests, pc'[s] \in {"lock", "wait", "read"}
      PROVE  /\ s # r /\ InPdu(s) /\ Current(s)' = Current(s)
             /\ EntryOf(Current(s)) \in Entries
  <2>1. s # r /\ pc[s] = pc'[s] /\ InPdu(s)
    BY <1>8 DEF AtBinding
  <2> QED
    BY <2>1, <1>3, CurrentBinding DEF Current
<1>9. FamilyWanted'
  BY <1>2, <1>8, FamilyEntries DEF FamilyWanted, Requests
<1>10. ReaderHolds'
  BY <1>2, <1>8 DEF ReaderHolds, Requests
<1> QED
  BY <1>4, <1>5, <1>6, <1>7, <1>9, <1>10

-----------------------------------------------------------------------------
(* Request::set_locked.                                                    *)

\* set_locked wants whatever of the entry's family it does not hold yet.
LEMMA FindEntryStep ==
    ASSUME SeparateListeners, LockInv, NEW r \in Setters, FindEntry(r)
    PROVE  LockInv'
<1> USE DEF LockInv
<1> DEFINE e == EntryOf(Current(r))
<1>1. r \in Requests /\ InPdu(r) /\ e \in Entries
  BY CurrentBinding DEF Requests, FindEntry
<1>2. ToLock(locks[r], e) \subseteq Entries
  BY <1>1, FamilyEntries DEF ToLock, Family
<1>3. ASSUME NEW u \in Family(e) PROVE owner[u] = r \/ u \in ToLock(locks[r], e)
  <2>1. CASE LockIndexed(locks[r], e)
    BY <2>1, <1>1, <1>3, IndexedIsRecorded DEF FamilyHeld
  <2>2. CASE ~LockIndexed(locks[r], e) /\ LockIndexed(locks[r], u)
    <3>1. \E j \in 1..MaxVbs : locks[r][j] # NoEntry /\ u \in Family(locks[r][j])
      BY <2>2 DEF LockIndexed, Family, ControlOK
    <3> QED
      BY <3>1 DEF FamilyHeld
  <2>3. CASE ~LockIndexed(locks[r], e) /\ ~LockIndexed(locks[r], u)
    BY <2>3, <1>3 DEF ToLock, Family
  <2> QED
    BY <2>1, <2>2, <2>3
<1>4. ControlOK'
  BY <1>2 DEF ControlOK, FindEntry, Phases
<1>5. AtBinding'
  BY <1>1 DEF AtBinding, FindEntry, InPdu, ControlOK
<1>6. LocksNamed' /\ FamilyHeld'
  BY DEF LocksNamed, FamilyHeld, FindEntry
<1>7. FamilyWanted'
  <2> SUFFICES ASSUME NEW s \in Setters, pc'[s] = "lock",
                      NEW u \in Family(EntryOf(Current(s)))
               PROVE  owner[u] = s \/ u \in want'[s]
    BY DEF FamilyWanted, FindEntry, Current
  <2>1. CASE s = r
    BY <2>1, <1>3 DEF FindEntry, ControlOK
  <2>2. CASE s # r
    <3>1. pc[s] = "lock" /\ want'[s] = want[s]
      BY <2>2 DEF FindEntry, ControlOK, Requests
    <3> QED
      BY <3>1 DEF FamilyWanted
  <2> QED
    BY <2>1, <2>2
<1>8. ReaderHolds'
  BY DEF ReaderHolds, FindEntry, Current, ControlOK, Requests
<1> QED
  BY <1>4, <1>5, <1>6, <1>7, <1>8

\* A lock is taken only when it is free, so nobody loses one.
LEMMA LockStep ==
    ASSUME LockInv, NEW r \in Setters, Lock(r)
    PROVE  LockInv'
<1> USE DEF LockInv
<1>1. PICK e \in want[r] :
        /\ owner[e] = NoRequest
        /\ owner' = [owner EXCEPT ![e] = r]
        /\ want' = [want EXCEPT ![r] = @ \ {e}]
  BY DEF Lock
<1>2. UNCHANGED <<pdu, pc, idx, mib, locks>> /\ r \in Requests /\ e \in Entries
  BY DEF Lock, request, Requests, ControlOK
<1>3. ASSUME NEW s \in Requests, NEW u, owner[u] = s PROVE owner'[u] = s
  BY <1>1, <1>2, <1>3, TransactionAssumption DEF ControlOK, TransactionAssumption
<1>4. ControlOK'
  BY <1>1, <1>2 DEF ControlOK
<1>5. AtBinding' /\ LocksNamed'
  BY <1>2 DEF AtBinding, InPdu, LocksNamed
<1>6. FamilyHeld'
  BY <1>2, <1>3 DEF FamilyHeld, Requests
<1>7. FamilyWanted'
  <2> SUFFICES ASSUME NEW s \in Setters, pc[s] = "lock",
                      NEW u \in Family(EntryOf(Current(s)))
               PROVE  owner'[u] = s \/ u \in want'[s]
    BY <1>2 DEF FamilyWanted, Current
  <2>1. owner[u] = s \/ u \in want[s]
    BY DEF FamilyWanted
  <2>2. CASE owner[u] = s
    BY <2>2, <1>3 DEF Requests
  <2>3. CASE u \in want[s] /\ (s # r \/ u # e)
    BY <2>3, <1>1 DEF ControlOK
  <2>4. CASE s = r /\ u = e
    BY <2>4, <1>1, <1>2 DEF ControlOK
  <2> QED
    BY <2>1, <2>2, <2>3, <2>4
<1>8. ReaderHolds'
  BY <1>2, <1>3 DEF ReaderHolds, Current, Requests
<1> QED
  BY <1>4, <1>5, <1>6, <1>7, <1>8

\* Once nothing is wanted the entry is recorded; prepare accepts or rejects it.
LEMMA LockedStep ==
    ASSUME LockInv, NEW r \in Setters, Locked(r),
           UNCHANGED <<pdu, owner, want>>,
           mib' \in Requests \union {NoRequest},
           pc' \in [Requests -> Phases \union ReadPhases],
           idx' \in [Requests -> 1..(MaxVbs + 1)],
           \A s \in Requests \ {r} : pc'[s] = pc[s] /\ idx'[s] = idx[s],
           pc'[r] \notin {"lock", "wait", "read"}
    PROVE  LockInv'
<1> USE DEF LockInv
<1> DEFINE e == EntryOf(Current(r))
<1>1. /\ r \in Requests /\ idx[r] \in 1..MaxVbs /\ idx[r] \in DOMAIN pdu[r]
      /\ e \in Entries /\ e # NoEntry
  <2>1. r \in Requests /\ InPdu(r)
    BY DEF AtBinding, Locked, Requests
  <2> QED
    BY <2>1, CurrentBinding, TransactionAssumption DEF TransactionAssumption
<1>2. locks' = [locks EXCEPT ![r][idx[r]] = e]
  BY DEF Locked
<1>3. ASSUME NEW u \in Family(e) PROVE owner[u] = r
  BY <1>3 DEF FamilyWanted, Locked
<1>4. ASSUME NEW s \in Setters, NEW j \in 1..MaxVbs
      PROVE  locks'[s][j] = IF s = r /\ j = idx[r] THEN e ELSE locks[s][j]
  BY <1>1, <1>2 DEF ControlOK
<1>5. ControlOK'
  BY <1>1, <1>2 DEF ControlOK
<1>6. AtBinding'
  BY DEF AtBinding, InPdu
<1>7. LocksNamed'
  BY <1>1, <1>4 DEF LocksNamed, Current
<1>8. FamilyHeld'
  <2> SUFFICES ASSUME NEW s \in Setters, NEW j \in 1..MaxVbs, locks'[s][j] # NoEntry,
                      NEW u \in Family(locks'[s][j])
               PROVE  owner[u] = s
    BY DEF FamilyHeld
  <2>1. CASE s = r /\ j = idx[r]
    BY <2>1, <1>3, <1>4
  <2>2. CASE ~(s = r /\ j = idx[r])
    BY <2>2, <1>4 DEF FamilyHeld
  <2> QED
    BY <2>1, <2>2
<1>9. FamilyWanted'
  BY DEF FamilyWanted, Current, Requests
<1>10. ReaderHolds'
  BY DEF ReaderHolds, Current, Requests
<1> QED
  BY <1>5, <1>6, <1>7, <1>8, <1>9, <1>10

-----------------------------------------------------------------------------
(* The GET branch.                                                         *)

\* A GET waits until the entry is free, so no SET loses it.
LEMMA LockEntryStep ==
    ASSUME LockInv, NEW g \in Getters, LockEntry(g)
    PROVE  LockInv'
<1> USE DEF LockInv
<1> DEFINE e == EntryOf(Current(g))
<1>1. /\ g \in Requests /\ InPdu(g) /\ e \in Entries
      /\ owner[e] = NoRequest /\ owner' = [owner EXCEPT ![e] = g]
      /\ mib' = NoRequest /\ pc' = [pc EXCEPT ![g] = "read"]
      /\ UNCHANGED <<pdu, idx, want, locks>>
  BY CurrentBinding DEF LockEntry, AtBinding, Requests, setRequest
<1>2. ASSUME NEW s \in Requests, NEW u, owner[u] = s PROVE owner'[u] = s
  BY <1>1, <1>2, TransactionAssumption DEF ControlOK, TransactionAssumption
<1>3. ControlOK'
  BY <1>1 DEF ControlOK, ReadPhases
<1>4. AtBinding' /\ LocksNamed'
  BY <1>1 DEF AtBinding, InPdu, LocksNamed, ControlOK
<1>5. FamilyHeld'
  BY <1>1, <1>2 DEF FamilyHeld, Requests
<1>6. FamilyWanted'
  <2> SUFFICES ASSUME NEW s \in Setters, pc'[s] = "lock",
                      NEW u \in Family(EntryOf(Current(s)))
               PROVE  owner'[u] = s \/ u \in want[s]
    BY <1>1 DEF FamilyWanted, Current
  <2>1. pc[s] = "lock"
    BY <1>1 DEF ControlOK, Requests
  <2> QED
    BY <2>1, <1>2 DEF FamilyWanted, Requests
<1>7. ReaderHolds'
  BY <1>1, <1>2 DEF ReaderHolds, Current, ControlOK, Requests
<1> QED
  BY <1>3, <1>4, <1>5, <1>6, <1>7

\* A GET gives back its own lock, which no SET holds.
LEMMA ReadStep ==
    ASSUME LockInv, NEW g \in Getters, Read(g)
    PROVE  LockInv'
<1> USE DEF LockInv
<1> DEFINE e == EntryOf(Current(g))
<1>1. /\ g \in Requests /\ InPdu(g) /\ e \in Entries /\ owner[e] = g
      /\ owner' = [owner EXCEPT ![e] = NoRequest]
      /\ pc' = [pc EXCEPT ![g] = "start"]
      /\ UNCHANGED <<pdu, mib, want, locks>>
  BY CurrentBinding DEF Read, AtBinding, ReaderHolds, Requests, setRequest
<1>2. /\ idx' \in [Requests -> 1..(MaxVbs + 1)]
      /\ \A s \in Requests \ {g} : idx'[s] = idx[s]
  BY <1>1, NextVbType DEF Read
<1>3. ASSUME NEW s \in Requests \ {g}, NEW u, owner[u] = s PROVE owner'[u] = s
  BY <1>1, <1>3 DEF ControlOK
<1>4. \A s \in Setters : s \in Requests \ {g}
  BY TransactionAssumption DEF Requests, TransactionAssumption
<1>5. ControlOK'
  BY <1>1, <1>2 DEF ControlOK, ReadPhases
<1>6. AtBinding' /\ LocksNamed'
  BY <1>1, <1>2 DEF AtBinding, InPdu, LocksNamed, ControlOK
<1>7. FamilyHeld'
  BY <1>1, <1>3, <1>4 DEF FamilyHeld
<1>8. ASSUME NEW s \in Requests, pc'[s] \in {"lock", "read"}
      PROVE  s # g /\ pc[s] = pc'[s] /\ Current(s)' = Current(s)
  BY <1>1, <1>2, <1>8 DEF ControlOK, Current
<1>9. FamilyWanted'
  BY <1>1, <1>3, <1>4, <1>8 DEF FamilyWanted
<1>10. ReaderHolds'
  BY <1>3, <1>8 DEF ReaderHolds, Requests
<1> QED
  BY <1>5, <1>6, <1>7, <1>9, <1>10

-----------------------------------------------------------------------------
(* The inductive invariant and what follows from it.                       *)

\* Nothing is locked, wanted or recorded at first.
LEMMA LockInit ==
    ASSUME Init
    PROVE  LockInv
<1>1. 1 \in 1..(MaxVbs + 1)
  BY ObjectsAssumption DEF ObjectsAssumption
<1>2. pdu \in [Requests -> Pdus] /\ \A r \in Setters : pdu[r] \in SetPdus
  BY TransactionAssumption DEF Init, TransactionAssumption
<1>3. ControlOK
  BY <1>1, <1>2 DEF Init, ControlOK, Phases
<1>4. AtBinding /\ FamilyWanted /\ ReaderHolds
  BY DEF Init, AtBinding, FamilyWanted, ReaderHolds, Requests
<1>5. LocksNamed /\ FamilyHeld
  BY DEF Init, LocksNamed, FamilyHeld
<1> QED
  BY <1>3, <1>4, <1>5 DEF LockInv

\* Every step of a SET keeps the invariant.
LEMMA SetStepKeeps ==
    ASSUME SeparateListeners, LockInv, NEW r \in Setters, SetStep(r)
    PROVE  LockInv'
<1>0. r \in Requests /\ ControlOK
  BY DEF Requests, LockInv
<1> USE <1>0
<1>1. CASE StartSet(r)
  <2>1. Goto(r, "prepare") /\ mib' = r /\ UNCHANGED <<pdu, owner, want, locks>>
    BY <1>1 DEF StartSet, setRequest
  <2> QED
    BY <2>1, QuietGoto DEF Phases
<1>2. CASE SkipReady(r)
  BY <1>2, QuietNextVb DEF SkipReady, setRequest
<1>3. CASE Deny(r)
  <2>1. Goto(r, "cleanup") /\ mib' = NoRequest /\ UNCHANGED <<pdu, owner, want, locks>>
    BY <1>3 DEF Deny
  <2> QED
    BY <2>1, QuietGoto DEF Phases
<1>4. CASE FindEntry(r)
  BY <1>4, FindEntryStep
<1>5. CASE Lock(r)
  BY <1>5, LockStep
<1>6. CASE Accept(r)
  <2>1. /\ Locked(r) /\ NextVb(r) /\ pc' = [pc EXCEPT ![r] = "prepare"]
        /\ UNCHANGED <<pdu, mib, owner, want>>
    BY <1>6 DEF Accept
  <2>2. InPdu(r)
    BY <2>1 DEF Locked, LockInv, AtBinding
  <2> QED
    BY <2>1, <2>2, NextVbType, LockedStep DEF ControlOK, Phases
<1>7. CASE Reject(r)
  <2>1. Locked(r) /\ Goto(r, "cleanup") /\ mib' = NoRequest /\ UNCHANGED <<pdu, owner, want>>
    BY <1>7 DEF Reject
  <2> QED
    BY <2>1, GotoType, LockedStep DEF Phases
<1>8. CASE Prepared(r)
  <2>1. Goto(r, "commit") /\ mib' = NoRequest /\ UNCHANGED <<pdu, owner, want, locks>>
    BY <1>8 DEF Prepared, setRequest
  <2> QED
    BY <2>1, QuietGoto DEF Phases
<1>9. CASE SkipDone(r)
  BY <1>9, QuietNextVb DEF SkipDone, setRequest
<1>10. CASE Commit(r)
  <2>1. /\ pc[r] = "commit" /\ InPdu(r) /\ UNCHANGED <<pdu, mib, owner, want, locks>>
        /\ Goto(r, "undo") \/ (NextVb(r) /\ UNCHANGED pc)
    BY <1>10 DEF Commit
  <2>2. CASE Goto(r, "undo")
    BY <2>1, <2>2, QuietGoto DEF Phases
  <2>3. CASE NextVb(r) /\ UNCHANGED pc
    BY <2>1, <2>3, QuietNextVb
  <2> QED
    BY <2>1, <2>2, <2>3
<1>11. CASE Committed(r)
  <2>1. Goto(r, "cleanup") /\ UNCHANGED <<pdu, mib, owner, want, locks>>
    BY <1>11 DEF Committed, setRequest
  <2> QED
    BY <2>1, QuietGoto DEF Phases
<1>12. CASE Undo(r)
  <2>1. /\ pc[r] = "undo" /\ InPdu(r) /\ NextVb(r) /\ UNCHANGED <<pdu, pc, mib, want>>
        /\ Unlock(r, idx[r]) \/ UNCHANGED <<owner, locks>>
    BY <1>12 DEF Undo
  <2>2. CASE Unlock(r, idx[r])
    BY <2>1, <2>2, UnlockStep
  <2>3. CASE UNCHANGED <<owner, locks>>
    BY <2>1, <2>3, QuietNextVb
  <2> QED
    BY <2>1, <2>2, <2>3
<1>13. CASE Undone(r)
  <2>1. Goto(r, "answer") /\ UNCHANGED <<pdu, mib, owner, want, locks>>
    BY <1>13 DEF Undone, setRequest
  <2> QED
    BY <2>1, QuietGoto DEF Phases
<1>14. CASE Cleanup(r)
  BY <1>14, UnlockStep DEF Cleanup
<1>15. CASE CleanedUp(r)
  <2>1. Goto(r, "answer") /\ UNCHANGED <<pdu, mib, owner, want, locks>>
    BY <1>15 DEF CleanedUp, setRequest
  <2> QED
    BY <2>1, QuietGoto DEF Phases
<1>16. CASE Answer(r)
  <2>1. Goto(r, "delete") /\ UNCHANGED <<pdu, mib, owner, want, locks>>
    BY <1>16 DEF Answer, setRequest
  <2> QED
    BY <2>1, QuietGoto DEF Phases
<1>17. CASE Release(r)
  BY <1>17, UnlockStep DEF Release
<1>18. CASE Delete(r)
  <2>1. Goto(r, "done") /\ UNCHANGED <<pdu, mib, owner, want, locks>>
    BY <1>18 DEF Delete, setRequest
  <2> QED
    BY <2>1, QuietGoto DEF Phases
<1> QED
  BY <1>1, <1>2, <1>3, <1>4, <1>5, <1>6, <1>7, <1>8, <1>9, <1>10, <1>11, <1>12, <1>13,
     <1>14, <1>15, <1>16, <1>17, <1>18 DEF SetStep

\* Starting a GET leaves the entry locks alone.
LEMMA StartGetStep ==
    ASSUME LockInv, NEW g \in Getters, StartGet(g)
    PROVE  LockInv'
<1> USE DEF LockInv
<1>1. /\ g \in Requests /\ InPdu(g) /\ mib' = g /\ pc' = [pc EXCEPT ![g] = "wait"]
      /\ UNCHANGED <<pdu, idx, owner, want, locks>>
  BY DEF StartGet, Requests, setRequest
<1>2. ControlOK'
  BY <1>1 DEF ControlOK, ReadPhases
<1>3. AtBinding' /\ LocksNamed' /\ FamilyHeld'
  BY <1>1 DEF AtBinding, InPdu, LocksNamed, FamilyHeld, ControlOK
<1>4. FamilyWanted' /\ ReaderHolds'
  BY <1>1 DEF FamilyWanted, ReaderHolds, Current, ControlOK, Requests
<1> QED
  BY <1>2, <1>3, <1>4

\* Every step keeps the invariant.
LEMMA LockNext ==
    ASSUME SeparateListeners, LockInv, [Next]_vars
    PROVE  LockInv'
<1>1. CASE \E r \in Setters : SetStep(r)
  BY <1>1, SetStepKeeps
<1>2. CASE \E g \in Getters : GetStep(g)
  <2> PICK g \in Getters : GetStep(g)
    BY <1>2
  <2>1. CASE StartGet(g)
    BY <2>1, StartGetStep
  <2>2. CASE LockEntry(g)
    BY <2>2, LockEntryStep
  <2>3. CASE Read(g)
    BY <2>3, ReadStep
  <2>4. CASE EndGet(g)
    <3>1. /\ UNCHANGED <<pdu, idx, mib, owner, want, locks>> /\ g \in Requests
          /\ pc' = [pc EXCEPT ![g] = "done"]
      BY <2>4 DEF EndGet, setRequest, Requests
    <3> QED
      BY <3>1, QuietStep DEF LockInv, ControlOK, Phases
  <2> QED
    BY <2>1, <2>2, <2>3, <2>4 DEF GetStep
<1>3. CASE UNCHANGED vars
  <2> USE <1>3 DEF vars, request, setRequest
  <2>1. ControlOK' <=> ControlOK
    BY DEF ControlOK
  <2>2. (AtBinding' <=> AtBinding) /\ (LocksNamed' <=> LocksNamed) /\ (FamilyHeld' <=> FamilyHeld)
    BY DEF AtBinding, InPdu, LocksNamed, FamilyHeld
  <2>3. (FamilyWanted' <=> FamilyWanted) /\ (ReaderHolds' <=> ReaderHolds)
    BY DEF FamilyWanted, ReaderHolds, Current
  <2> QED
    BY <2>1, <2>2, <2>3 DEF LockInv
<1> QED
  BY <1>1, <1>2, <1>3 DEF Next, Terminated

\* The lock invariant holds in every state, if no PDU names a table together
\* with one of its listeners.
THEOREM LocksCorrect == SeparateListeners => (Spec => []LockInv)
<1> SUFFICES ASSUME SeparateListeners PROVE Spec => []LockInv
  OBVIOUS
<1>1. Init => LockInv
  BY LockInit
<1>2. LockInv /\ [Next]_vars => LockInv'
  BY LockNext
<1> QED
  BY <1>1, <1>2, PTL DEF Spec

\* The entry recorded for a binding is locked for its request, whoever else
\* waits for it and however many bindings share it.
THEOREM EntriesAreHeld == SeparateListeners => (Spec => []EntriesHeld)
<1>1. LockInv => EntriesHeld
  BY DEF LockInv, FamilyHeld, Family, EntriesHeld
<1> QED
  BY <1>1, LocksCorrect, PTL

\* A SET that commits or undoes a row holds the listeners its table tells.
THEOREM ListenersAreHeld == SeparateListeners => (Spec => []ListenersHeld)
<1>1. LockInv => ListenersHeld
  BY DEF LockInv, FamilyHeld, Family, ListenersHeld
<1> QED
  BY <1>1, LocksCorrect, PTL

\* A GET never reads an entry that a SET has locked.
THEOREM ReadersAreExcluded == SeparateListeners => (Spec => []ReadersExcluded)
<1>1. LockInv => ReadersExcluded
  <2> SUFFICES ASSUME LockInv, NEW g \in Getters, pc[g] = "read",
                      NEW r \in Setters, NEW i \in 1..MaxVbs,
                      locks[r][i] = EntryOf(Current(g))
               PROVE  FALSE
    BY DEF ReadersExcluded
  <2>1. owner[EntryOf(Current(g))] = g /\ InPdu(g)
    BY DEF LockInv, ReaderHolds, AtBinding, Requests
  <2>2. locks[r][i] # NoEntry
    BY <2>1, CurrentBinding, TransactionAssumption
    DEF LockInv, Requests, TransactionAssumption
  <2>3. owner[locks[r][i]] = r
    BY <2>2 DEF LockInv, FamilyHeld, Family
  <2> QED
    BY <2>1, <2>3, TransactionAssumption DEF TransactionAssumption
<1> QED
  BY <1>1, LocksCorrect, PTL
-----------------------------------------------------------------------------
(* The state stays well typed.  The invariant adds to TypeOK that a request *)
(* locks or reads at a binding of its PDU, and that a row is there as a     *)
(* whole or not at all: without it a commit could back up the value of a    *)
(* missing instance.                                                        *)

SetOK ==
    /\ ready \in [Setters -> SUBSET (1..MaxVbs)]
    /\ done \in [Setters -> SUBSET (1..MaxVbs)]
    /\ status \in [Setters -> Outcomes]

RowsOK == deleteRows \subseteq (Tables \X Rows)

GotOK == got \in [Getters -> Seq(Stored)]

TypeInv ==
    /\ ControlOK
    /\ AtBinding
    /\ SetOK
    /\ DataOK(value, undo)
    /\ RowsOK
    /\ GotOK

\* The invariant is stronger than type correctness.
LEMMA TypeInvSuffices ==
    ASSUME TypeInv
    PROVE  TypeOK
BY DEF TypeInv, ControlOK, SetOK, DataOK, RowsOK, GotOK, TypeOK

-----------------------------------------------------------------------------
(* The parts of a step.                                                    *)

\* A request that goes to another phase.
LEMMA TypeGoto ==
    ASSUME TypeInv, NEW r \in Requests, NEW phase \in Phases \ {"lock"}, Goto(r, phase),
           pdu' = pdu, want' = want,
           UNCHANGED owner \/ owner' \in [Entries -> Requests \union {NoRequest}],
           UNCHANGED locks \/ locks' \in [Setters -> [1..MaxVbs -> Entries \union {NoEntry}]],
           UNCHANGED mib \/ mib' \in {r, NoRequest}
    PROVE  ControlOK' /\ AtBinding'
<1> USE DEF TypeInv
<1>1. phase \in Phases \union ReadPhases /\ phase \notin {"lock", "wait", "read"}
  BY DEF Phases
<1>2. /\ pc' \in [Requests -> Phases \union ReadPhases]
      /\ idx' \in [Requests -> 1..(MaxVbs + 1)]
      /\ \A s \in Requests \ {r} : pc'[s] = pc[s] /\ idx'[s] = idx[s]
      /\ pc'[r] = phase
  BY <1>1, GotoType
<1>3. ControlOK'
  BY <1>2 DEF ControlOK
<1>4. AtBinding'
  BY <1>1, <1>2 DEF AtBinding, InPdu
<1> QED
  BY <1>3, <1>4

\* A request that goes to its next binding.
LEMMA TypeNextVb ==
    ASSUME TypeInv, NEW r \in Requests, InPdu(r), NextVb(r),
           pdu' = pdu, want' = want, mib' = mib,
           NEW phase \in (Phases \union ReadPhases) \ {"lock", "wait", "read"},
           pc' = [pc EXCEPT ![r] = phase],
           UNCHANGED owner \/ owner' \in [Entries -> Requests \union {NoRequest}],
           UNCHANGED locks \/ locks' \in [Setters -> [1..MaxVbs -> Entries \union {NoEntry}]]
    PROVE  ControlOK' /\ AtBinding'
<1> USE DEF TypeInv
<1>1. /\ idx' \in [Requests -> 1..(MaxVbs + 1)]
      /\ \A s \in Requests \ {r} : idx'[s] = idx[s]
  BY NextVbType
<1>2. /\ pc' \in [Requests -> Phases \union ReadPhases]
      /\ \A s \in Requests \ {r} : pc'[s] = pc[s]
      /\ pc'[r] = phase
  BY DEF ControlOK
<1>3. ControlOK'
  BY <1>1, <1>2 DEF ControlOK
<1>4. AtBinding'
  BY <1>1, <1>2 DEF AtBinding, InPdu
<1> QED
  BY <1>3, <1>4

\* set_unlocked.
LEMMA TypeUnlock ==
    ASSUME TypeInv, NEW r \in Setters, NEW i \in 1..MaxVbs, Unlock(r, i)
    PROVE  /\ owner' \in [Entries -> Requests \union {NoRequest}]
           /\ locks' \in [Setters -> [1..MaxVbs -> Entries \union {NoEntry}]]
BY DEF TypeInv, ControlOK, Unlock

\* set_locked has recorded the entry.
LEMMA TypeLocked ==
    ASSUME TypeInv, NEW r \in Setters, Locked(r)
    PROVE  /\ locks' \in [Setters -> [1..MaxVbs -> Entries \union {NoEntry}]]
           /\ r \in Requests /\ InPdu(r) /\ idx[r] \in 1..MaxVbs
           /\ pdu[r] \in Pdus /\ idx[r] \in 1..Len(pdu[r])
<1>1. r \in Requests /\ InPdu(r) /\ ControlOK
  BY DEF TypeInv, AtBinding, Locked, Requests
<1>2. idx[r] \in 1..MaxVbs /\ EntryOf(Current(r)) \in Entries
  BY <1>1, CurrentBinding
<1>3. locks' \in [Setters -> [1..MaxVbs -> Entries \union {NoEntry}]]
  BY <1>1, <1>2 DEF ControlOK, Locked
<1> QED
  BY <1>1, <1>2, <1>3, CurrentBinding, PduProperties DEF ControlOK

\* The objects and the values read stay as they are.
LEMMA TypeUnchanged ==
    ASSUME TypeInv
    PROVE  /\ UNCHANGED <<ready, done, status>> => SetOK'
           /\ UNCHANGED <<value, undo>> => DataOK(value, undo)'
           /\ UNCHANGED deleteRows => RowsOK'
           /\ UNCHANGED got => GotOK'
BY DEF TypeInv, SetOK, DataOK, RowsOK, GotOK, RowMissing, RowExists

\* Bindings of a PDU are numbered up to MaxVbs, and a table's binding names a row.
LEMMA TypeBindings ==
    ASSUME TypeInv, NEW r \in Requests, InPdu(r)
    PROVE  /\ NamingRow(pdu[r], Current(r)) \subseteq 1..MaxVbs
           /\ InTable(Current(r)) => RowOf(Current(r)) \in Tables \X Rows
<1>1. ControlOK /\ pdu[r] \in Pdus /\ MaxVbs \in Nat
  BY ObjectsAssumption DEF TypeInv, ControlOK, ObjectsAssumption
<1> QED
  BY <1>1, CurrentBinding, PduProperties, InstanceProperties DEF NamingRow

-----------------------------------------------------------------------------
(* The steps that change more than the program counters.                   *)

\* prepare_set_request succeeds: check_creation may cover further bindings, and a
\* row may be marked for deletion.
LEMMA AcceptType ==
    ASSUME TypeInv, NEW r \in Setters, Accept(r)
    PROVE  TypeInv'
<1>1. /\ locks' \in [Setters -> [1..MaxVbs -> Entries \union {NoEntry}]]
      /\ r \in Requests /\ InPdu(r) /\ idx[r] \in 1..MaxVbs
  BY TypeLocked DEF Accept
<1>2. ControlOK' /\ AtBinding'
  BY <1>1, TypeNextVb DEF Accept, Phases
<1>3. Covered(pdu[r], idx[r], value) \subseteq 1..MaxVbs
  BY <1>1, TypeBindings DEF Covered, Current
<1>4. Ignored(pdu[r], idx[r], value) \subseteq 1..MaxVbs
  BY <1>3 DEF Ignored
<1>5. SetOK'
  BY <1>3, <1>4 DEF Accept, SetOK, TypeInv
<1>6. RowsOK'
  <2>1. Marks(pdu[r], idx[r], value) => RowOf(Current(r)) \in Tables \X Rows
    BY <1>1, TypeBindings, CurrentBinding, InstanceProperties DEF Marks, Current, TypeInv
  <2> QED
    BY <2>1 DEF Accept, RowsOK, TypeInv
<1>7. DataOK(value, undo)' /\ GotOK'
  BY TypeUnchanged DEF Accept
<1> QED
  BY <1>2, <1>5, <1>6, <1>7 DEF TypeInv

\* prepare_set_request fails, possibly after it marked a row.
LEMMA RejectType ==
    ASSUME TypeInv, NEW r \in Setters, Reject(r)
    PROVE  TypeInv'
<1>1. /\ locks' \in [Setters -> [1..MaxVbs -> Entries \union {NoEntry}]]
      /\ r \in Requests /\ InPdu(r)
  BY TypeLocked DEF Reject
<1>2. ControlOK' /\ AtBinding'
  BY <1>1, TypeGoto DEF Reject, Phases
<1>3. SetOK'
  BY DEF Reject, SetOK, TypeInv, Outcomes
<1>4. RowsOK'
  <2>1. Marks(pdu[r], idx[r], value) => RowOf(Current(r)) \in Tables \X Rows
    BY <1>1, TypeBindings, CurrentBinding, InstanceProperties DEF Marks, Current, TypeInv
  <2> QED
    BY <2>1 DEF Reject, RowsOK, TypeInv
<1>5. DataOK(value, undo)' /\ GotOK'
  BY TypeUnchanged DEF Reject
<1> QED
  BY <1>2, <1>3, <1>4, <1>5 DEF TypeInv

\* commit_set_request, successful or not.
LEMMA CommitType ==
    ASSUME TypeInv, NEW r \in Setters, Commit(r)
    PROVE  TypeInv'
<1>1. /\ r \in Requests /\ pc[r] = "commit" /\ InPdu(r) /\ pdu[r] \in Pdus
      /\ pdu' = pdu /\ want' = want /\ UNCHANGED <<mib, owner, locks, ready, got>>
  BY DEF Commit, Requests, TypeInv, ControlOK
<1>2. idx[r] \in 1..Len(pdu[r])
  BY <1>1, CurrentBinding, PduProperties DEF TypeInv
<1>3. PICK o \in CommitOutcomes(r) :
         /\ value' = o.value
         /\ undo' = o.undo
         /\ done' = [done EXCEPT ![r] = @ \union o.finished]
         /\ IF o.ok
              THEN NextVb(r) /\ UNCHANGED <<pc, status>>
              ELSE Goto(r, "undo") /\ status' = [status EXCEPT ![r] = "commitFailed"]
  BY DEF Commit
<1>4. OutcomeOK(o)
  <2>1. CASE locks[r][idx[r]] = NoEntry
    BY <1>3, <2>1, OutcomeType DEF CommitOutcomes, TypeInv
  <2>2. CASE locks[r][idx[r]] # NoEntry
    BY <1>1, <1>2, <1>3, <2>2, CommitsType DEF CommitOutcomes, TypeInv
  <2> QED
    BY <2>1, <2>2
<1>5. DataOK(value, undo)'
  BY <1>3, <1>4 DEF OutcomeOK, DataOK, RowMissing, RowExists
<1>6. SetOK'
  <2>1. done' \in [Setters -> SUBSET (1..MaxVbs)]
    BY <1>3, <1>4 DEF OutcomeOK, SetOK, TypeInv
  <2>2. status' \in [Setters -> Outcomes]
    BY <1>3 DEF SetOK, TypeInv, Outcomes
  <2> QED
    BY <1>1, <2>1, <2>2 DEF SetOK, TypeInv
<1>7. ControlOK' /\ AtBinding'
  <2>1. CASE o.ok
    <3>1. pc' = [pc EXCEPT ![r] = "commit"] /\ NextVb(r)
      BY <1>1, <1>3, <2>1 DEF TypeInv, ControlOK
    <3> QED
      BY <1>1, <3>1, TypeNextVb DEF Phases
  <2>2. CASE ~o.ok
    BY <1>1, <1>3, <2>2, TypeGoto DEF Phases
  <2> QED
    BY <2>1, <2>2
<1>8. RowsOK' /\ GotOK'
  BY <1>1, TypeUnchanged DEF Commit, RowsOK, TypeInv
<1> QED
  BY <1>5, <1>6, <1>7, <1>8 DEF TypeInv

\* undo_set_request.
LEMMA UndoType ==
    ASSUME TypeInv, NEW r \in Setters, Undo(r)
    PROVE  TypeInv'
<1>1. /\ r \in Requests /\ pc[r] = "undo" /\ InPdu(r) /\ NextVb(r) /\ pdu[r] \in Pdus
      /\ pdu' = pdu /\ want' = want /\ UNCHANGED <<pc, mib, ready, done, status, got>>
  BY DEF Undo, Requests, TypeInv, ControlOK
<1>2. idx[r] \in 1..MaxVbs /\ idx[r] \in 1..Len(pdu[r])
  BY <1>1, CurrentBinding, PduProperties DEF TypeInv
<1>3. \/ UNCHANGED <<owner, locks, value, undo, deleteRows>>
      \/ /\ Unlock(r, idx[r])
         /\ value' = Unset(Reached(pdu[r], idx[r], value), value, undo)
         /\ undo' = Forget(Reached(pdu[r], idx[r], value), undo)
         /\ deleteRows' \subseteq deleteRows
  BY DEF Undo, objects, Cleared
<1>4. pc' = [pc EXCEPT ![r] = "undo"]
  BY <1>1 DEF TypeInv, ControlOK
<1>5. ControlOK' /\ AtBinding'
  <2>1. \/ UNCHANGED <<owner, locks>>
        \/ /\ owner' \in [Entries -> Requests \union {NoRequest}]
           /\ locks' \in [Setters -> [1..MaxVbs -> Entries \union {NoEntry}]]
    BY <1>2, <1>3, TypeUnlock
  <2> QED
    BY <1>1, <1>4, <2>1, TypeNextVb DEF Phases
<1>6. DataOK(value, undo)'
  <2>1. CASE UNCHANGED <<value, undo>>
    BY <2>1, TypeUnchanged
  <2>2. CASE ~UNCHANGED <<value, undo>>
    <3>1. DataOK(Unset(Reached(pdu[r], idx[r], value), value, undo),
                 Forget(Reached(pdu[r], idx[r], value), undo))
      BY <1>1, <1>2, ReachedType DEF TypeInv
    <3> QED
      BY <1>3, <2>2, <3>1 DEF DataOK, RowMissing, RowExists
  <2> QED
    BY <2>1, <2>2
<1>7. RowsOK'
  BY <1>3 DEF RowsOK, TypeInv
<1>8. SetOK' /\ GotOK'
  BY <1>1, TypeUnchanged
<1> QED
  BY <1>5, <1>6, <1>7, <1>8 DEF TypeInv

\* cleanup_set_request.
LEMMA CleanupType ==
    ASSUME TypeInv, NEW r \in Setters, Cleanup(r)
    PROVE  TypeInv'
<1>1. /\ r \in Requests /\ InPdu(r) /\ NextVb(r) /\ pdu[r] \in Pdus
      /\ pdu' = pdu /\ want' = want /\ UNCHANGED <<pc, mib, ready, done, status, value, got>>
      /\ pc' = [pc EXCEPT ![r] = "cleanup"] /\ Unlock(r, idx[r])
      /\ undo' = Forget(Reached(pdu[r], idx[r], value), undo)
      /\ deleteRows' \subseteq deleteRows
  BY DEF Cleanup, Cleared, Requests, TypeInv, ControlOK
<1>2. idx[r] \in 1..MaxVbs /\ idx[r] \in 1..Len(pdu[r])
  BY <1>1, CurrentBinding, PduProperties DEF TypeInv
<1>3. ControlOK' /\ AtBinding'
  BY <1>1, <1>2, TypeUnlock, TypeNextVb DEF Phases
<1>4. DataOK(value, undo)'
  BY <1>1, <1>2, ReachedType DEF TypeInv, DataOK, RowMissing, RowExists
<1>5. RowsOK'
  BY <1>1 DEF RowsOK, TypeInv
<1>6. SetOK' /\ GotOK'
  BY <1>1, TypeUnchanged
<1> QED
  BY <1>3, <1>4, <1>5, <1>6 DEF TypeInv

-----------------------------------------------------------------------------
(* The steps that only move a request on.                                  *)

\* A request goes to another phase and leaves everything but the MIB lock alone.
LEMMA PlainGotoType ==
    ASSUME TypeInv, NEW r \in Setters, NEW phase \in Phases \ {"lock"}, Goto(r, phase),
           UNCHANGED mib \/ mib' \in {r, NoRequest},
           UNCHANGED <<pdu, owner, setRequest, objects, got>>
    PROVE  TypeInv'
<1>1. r \in Requests /\ pdu' = pdu /\ want' = want
      /\ UNCHANGED <<owner, locks, ready, done, status, value, undo, deleteRows, got>>
  BY DEF setRequest, objects, Requests
<1>2. ControlOK' /\ AtBinding'
  BY <1>1, TypeGoto
<1>3. SetOK' /\ DataOK(value, undo)' /\ RowsOK' /\ GotOK'
  BY <1>1, TypeUnchanged
<1> QED
  BY <1>2, <1>3 DEF TypeInv

\* A request skips a binding.
LEMMA SkipType ==
    ASSUME TypeInv, NEW r \in Setters, SkipReady(r) \/ SkipDone(r)
    PROVE  TypeInv'
<1>1. /\ r \in Requests /\ pdu' = pdu /\ want' = want /\ mib' = mib /\ InPdu(r) /\ NextVb(r)
      /\ UNCHANGED <<pc, owner, locks, ready, done, status, value, undo, deleteRows, got>>
      /\ pc[r] \in {"prepare", "commit"}
  BY DEF SkipReady, SkipDone, setRequest, objects, Requests
<1>2. pc' = [pc EXCEPT ![r] = pc[r]] /\ pc[r] \in Phases \ {"lock"}
  BY <1>1 DEF TypeInv, ControlOK, Phases
<1>3. ControlOK' /\ AtBinding'
  BY <1>1, <1>2, TypeNextVb DEF Phases
<1>4. SetOK' /\ DataOK(value, undo)' /\ RowsOK' /\ GotOK'
  BY <1>1, TypeUnchanged
<1> QED
  BY <1>3, <1>4 DEF TypeInv

\* Access is denied.
LEMMA DenyType ==
    ASSUME TypeInv, NEW r \in Setters, Deny(r)
    PROVE  TypeInv'
<1>1. /\ r \in Requests /\ Goto(r, "cleanup") /\ mib' = NoRequest
      /\ pdu' = pdu /\ want' = want
      /\ UNCHANGED <<owner, locks, ready, done, value, undo, deleteRows, got>>
      /\ status' = [status EXCEPT ![r] = "prepareError"]
  BY DEF Deny, objects, Requests
<1>2. ControlOK' /\ AtBinding'
  BY <1>1, TypeGoto DEF Phases
<1>3. SetOK'
  BY <1>1 DEF SetOK, TypeInv, Outcomes
<1>4. DataOK(value, undo)' /\ RowsOK' /\ GotOK'
  BY <1>1, TypeUnchanged
<1> QED
  BY <1>2, <1>3, <1>4 DEF TypeInv

\* set_locked asks for locks and takes them one by one.
LEMMA LockingType ==
    ASSUME TypeInv, NEW r \in Setters, FindEntry(r) \/ Lock(r)
    PROVE  TypeInv'
<1>1. /\ r \in Requests
      /\ UNCHANGED <<pdu, idx, mib, locks, ready, done, status, value, undo, deleteRows, got>>
  BY DEF FindEntry, Lock, request, objects, Requests
<1>2. CASE FindEntry(r)
  <2>1. InPdu(r) /\ EntryOf(Current(r)) \in Entries
    BY <1>1, <1>2, CurrentBinding DEF FindEntry, TypeInv
  <2>2. ToLock(locks[r], EntryOf(Current(r))) \subseteq Entries
    BY <2>1, FamilyEntries DEF ToLock, Family
  <2>3. ControlOK'
    BY <1>1, <1>2, <2>2 DEF FindEntry, TypeInv, ControlOK, Phases
  <2>4. AtBinding'
    BY <1>1, <1>2, <2>1 DEF FindEntry, TypeInv, AtBinding, InPdu, ControlOK
  <2> QED
    BY <1>1, <2>3, <2>4, TypeUnchanged DEF TypeInv
<1>3. CASE Lock(r)
  <2>1. ControlOK'
    BY <1>1, <1>3 DEF Lock, request, TypeInv, ControlOK
  <2>2. AtBinding'
    BY <1>1, <1>3 DEF Lock, request, TypeInv, AtBinding, InPdu
  <2> QED
    BY <1>1, <2>1, <2>2, TypeUnchanged DEF TypeInv
<1> QED
  BY <1>2, <1>3

\* ~Request releases what is left.
LEMMA ReleaseType ==
    ASSUME TypeInv, NEW r \in Setters, Release(r)
    PROVE  TypeInv'
<1>1. /\ r \in Requests /\ pdu' = pdu /\ want' = want /\ mib' = mib /\ InPdu(r) /\ NextVb(r)
      /\ UNCHANGED <<pc, ready, done, status, value, undo, deleteRows, got>>
      /\ Unlock(r, idx[r]) /\ pc' = [pc EXCEPT ![r] = "delete"]
  BY DEF Release, objects, Requests, TypeInv, ControlOK
<1>2. idx[r] \in 1..MaxVbs
  BY <1>1, CurrentBinding DEF TypeInv
<1>3. ControlOK' /\ AtBinding'
  BY <1>1, <1>2, TypeUnlock, TypeNextVb DEF Phases
<1>4. SetOK' /\ DataOK(value, undo)' /\ RowsOK' /\ GotOK'
  BY <1>1, TypeUnchanged
<1> QED
  BY <1>3, <1>4 DEF TypeInv

\* A GET.
LEMMA GetStepType ==
    ASSUME TypeInv, NEW g \in Getters, GetStep(g)
    PROVE  TypeInv'
<1>0. /\ g \in Requests /\ pdu' = pdu /\ want' = want
      /\ UNCHANGED <<locks, ready, done, status, value, undo, deleteRows>>
  BY DEF GetStep, StartGet, LockEntry, Read, EndGet, setRequest, objects, Requests
<1>1. SetOK' /\ DataOK(value, undo)' /\ RowsOK'
  BY <1>0, TypeUnchanged
<1>2. CASE StartGet(g)
  <2>1. ControlOK' /\ AtBinding'
    BY <1>0, <1>2 DEF StartGet, TypeInv, ControlOK, AtBinding, InPdu, ReadPhases
  <2> QED
    BY <1>1, <1>2, <2>1, TypeUnchanged DEF StartGet, TypeInv
<1>3. CASE LockEntry(g)
  <2>1. ControlOK'
    BY <1>0, <1>3 DEF LockEntry, TypeInv, ControlOK, ReadPhases
  <2>2. AtBinding'
    BY <1>0, <1>3 DEF LockEntry, TypeInv, ControlOK, AtBinding, InPdu
  <2> QED
    BY <1>1, <1>3, <2>1, <2>2, TypeUnchanged DEF LockEntry, TypeInv
<1>4. CASE Read(g)
  <2>1. InPdu(g) /\ NextVb(g) /\ mib' = mib /\ pc' = [pc EXCEPT ![g] = "start"]
    BY <1>0, <1>4 DEF Read, TypeInv, AtBinding
  <2>2. owner' \in [Entries -> Requests \union {NoRequest}]
    BY <1>4 DEF Read, TypeInv, ControlOK
  <2>3. ControlOK' /\ AtBinding'
    BY <1>0, <2>1, <2>2, TypeNextVb DEF Phases
  <2>4. value[Current(g)] \in Stored
    BY <1>0, <2>1, CurrentBinding DEF TypeInv, DataOK
  <2>5. Append(got[g], value[Current(g)]) \in Seq(Stored)
    BY <2>4 DEF TypeInv, GotOK
  <2>6. GotOK'
    BY <1>4, <2>5 DEF Read, TypeInv, GotOK
  <2> QED
    BY <1>1, <2>3, <2>6 DEF TypeInv
<1>5. CASE EndGet(g)
  <2>1. ControlOK' /\ AtBinding'
    BY <1>0, <1>5 DEF EndGet, TypeInv, ControlOK, AtBinding, InPdu, ReadPhases
  <2> QED
    BY <1>1, <1>5, <2>1, TypeUnchanged DEF EndGet, TypeInv
<1> QED
  BY <1>2, <1>3, <1>4, <1>5 DEF GetStep

-----------------------------------------------------------------------------
(* The invariant is inductive.                                             *)

\* The initial state is well typed, and its rows are whole.
LEMMA TypeInit ==
    ASSUME Init
    PROVE  TypeInv
<1>1. 1 \in 1..(MaxVbs + 1)
  BY ObjectsAssumption DEF ObjectsAssumption
<1>2. pdu \in [Requests -> Pdus] /\ \A r \in Setters : pdu[r] \in SetPdus
  BY TransactionAssumption DEF Init, TransactionAssumption
<1>3. ControlOK
  BY <1>1, <1>2 DEF Init, ControlOK, Phases
<1>4. AtBinding /\ SetOK /\ RowsOK /\ GotOK
  BY DEF Init, AtBinding, SetOK, RowsOK, GotOK, Requests, Outcomes
<1>5. DataOK(value, undo)
  <2>1. /\ value \in [Instances -> {Default, "active", "notInService", Absent}]
        /\ undo \in [Instances -> Backup]
    BY DEF Init, InitialValues, Backup
  <2>2. /\ {Default, "active", "notInService", Absent} \subseteq Stored
        /\ Default # Absent
    BY ObjectsAssumption DEF ObjectsAssumption, Stored, RowStates
  <2>3. ASSUME NEW y \in Instances PROVE value[y] = Absent <=> RowMissing(y, value)
    <3>1. CASE ~InTable(y)
      BY <2>2, <3>1 DEF Init, InitialValues, InTable, RowMissing
    <3>2. CASE InTable(y) /\ IsStatus(y)
      BY <3>2, InstanceProperties DEF RowMissing, RowExists
    <3>3. CASE InTable(y) /\ ~IsStatus(y)
      <4>1. value[y] = IF value[StatusOf(y)] = Absent THEN Absent ELSE Default
        BY <3>3 DEF Init, InitialValues, InTable
      <4> QED
        BY <2>2, <3>3, <4>1 DEF RowMissing, RowExists
    <3> QED
      BY <3>1, <3>2, <3>3
  <2> QED
    BY <2>1, <2>2, <2>3 DEF DataOK
<1> QED
  BY <1>3, <1>4, <1>5 DEF TypeInv

\* Every step keeps the state well typed.
LEMMA TypeNext ==
    ASSUME TypeInv, [Next]_vars
    PROVE  TypeInv'
<1>1. ASSUME NEW r \in Setters, SetStep(r) PROVE TypeInv'
  <2>1. CASE StartSet(r)
    BY <2>1, PlainGotoType DEF StartSet, Phases
  <2>2. CASE Prepared(r)
    BY <2>2, PlainGotoType DEF Prepared, Phases
  <2>3. CASE Committed(r)
    BY <2>3, PlainGotoType DEF Committed, Phases
  <2>4. CASE Undone(r)
    BY <2>4, PlainGotoType DEF Undone, Phases
  <2>5. CASE CleanedUp(r)
    BY <2>5, PlainGotoType DEF CleanedUp, Phases
  <2>6. CASE Answer(r)
    BY <2>6, PlainGotoType DEF Answer, Phases
  <2>7. CASE Delete(r)
    BY <2>7, PlainGotoType DEF Delete, Phases
  <2>8. CASE SkipReady(r) \/ SkipDone(r)
    BY <2>8, SkipType
  <2>9. CASE Deny(r)
    BY <2>9, DenyType
  <2>10. CASE FindEntry(r) \/ Lock(r)
    BY <2>10, LockingType
  <2>11. CASE Accept(r)
    BY <2>11, AcceptType
  <2>12. CASE Reject(r)
    BY <2>12, RejectType
  <2>13. CASE Commit(r)
    BY <2>13, CommitType
  <2>14. CASE Undo(r)
    BY <2>14, UndoType
  <2>15. CASE Cleanup(r)
    BY <2>15, CleanupType
  <2>16. CASE Release(r)
    BY <2>16, ReleaseType
  <2> QED
    BY <1>1, <2>1, <2>2, <2>3, <2>4, <2>5, <2>6, <2>7, <2>8,
       <2>9, <2>10, <2>11, <2>12, <2>13, <2>14, <2>15, <2>16 DEF SetStep
<1>2. ASSUME NEW g \in Getters, GetStep(g) PROVE TypeInv'
  BY <1>2, GetStepType
<1>3. CASE UNCHANGED vars
  <2> USE <1>3 DEF vars, request, setRequest, objects
  <2>1. ControlOK' <=> ControlOK
    BY DEF ControlOK
  <2>2. AtBinding' <=> AtBinding
    BY DEF AtBinding, InPdu
  <2>3. SetOK' /\ DataOK(value, undo)' /\ RowsOK' /\ GotOK'
    BY TypeUnchanged
  <2> QED
    BY <2>1, <2>2, <2>3 DEF TypeInv
<1> QED
  BY <1>1, <1>2, <1>3 DEF Next, Terminated

\* The state is well typed, and no commit ever backs up the value of a missing
\* instance: undo copies are values or row states.
THEOREM TypeCorrect == Spec => []TypeOK
<1>1. Init => TypeInv
  BY TypeInit
<1>2. TypeInv /\ [Next]_vars => TypeInv'
  BY TypeNext
<1>3. TypeInv => TypeOK
  BY TypeInvSuffices
<1> QED
  BY <1>1, <1>2, <1>3, PTL DEF Spec
=============================================================================
