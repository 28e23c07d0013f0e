----------------------------- MODULE MibObjects -----------------------------
(***************************************************************************)
(* The managed objects an agent++ MIB instruments and what one variable    *)
(* binding of a SET does to them: MibLeaf, snmpRowStatus and MibTable of   *)
(* agent++/src/mib.cpp.                                                    *)
(*                                                                         *)
(* A MIB entry, the unit of locking, is a scalar MibLeaf or a whole        *)
(* MibTable.  An instance <<entry, row, column>> is what an OID of a       *)
(* request names.  Tables have one ordinary column "value" (read-create,   *)
(* without a default) and one RowStatus column "status".                   *)
(***************************************************************************)
EXTENDS Naturals, Sequences, FiniteSets

CONSTANTS
    Leaves,    \* scalar MibLeaf entries
    Tables,    \* MibTable entries
    Rows,      \* row indexes
    Values,    \* values of scalars and of the "value" column
    Default,   \* the generator's value of the "value" column
    MaxVbs,    \* bound on the variable bindings of a PDU
    ServiceAnswers  \* what MibTable::ready_for_service may answer: {TRUE} in
                    \* the base class, more where a table overrides it

Entries == Leaves \union Tables
Columns == {"value", "status"}
ScalarRow == "scalar"

Instances == (Leaves \X {ScalarRow} \X {"value"}) \union (Tables \X Rows \X Columns)

RowStates == {"empty", "notReady", "notInService", "active", "destroy"}
RowRequests == {"active", "notInService", "createAndGo", "createAndWait", "destroy"}

Absent == "absent"   \* the value of an instance whose row does not exist
NoUndo == "noUndo"   \* MibLeaf::undo is the null pointer

Stored == Values \union RowStates \union {Absent}
Backup == Values \union RowStates \union {NoUndo}

Vbs == {b \in [inst : Instances, val : Values \union RowRequests] :
          b.val \in RowRequests <=> b.inst[3] = "status"}
Pdus == UNION {[1..n -> Vbs] : n \in 0..MaxVbs}

ASSUME ObjectsAssumption ==
    /\ Leaves \intersect Tables = {}
    /\ Default \in Values
    /\ Values \intersect (RowStates \union RowRequests \union {Absent, NoUndo}) = {}
    /\ MaxVbs \in Nat
    /\ ServiceAnswers \in (SUBSET BOOLEAN) \ {{}}

EntryOf(x) == x[1]
RowOf(x) == <<x[1], x[2]>>
StatusOf(x) == <<x[1], x[2], "status">>
IsStatus(x) == x[3] = "status"
IsTable(e) == e \in Tables
InRow(x, y) == RowOf(x) = RowOf(y)

InTable(x) == IsTable(EntryOf(x))
RowExists(x, value) == InTable(x) /\ value[StatusOf(x)] # Absent
RowMissing(x, value) == InTable(x) /\ ~RowExists(x, value)

\* Indexes of a PDU that name instance x, and those of a row.
Naming(p, x) == {i \in DOMAIN p : p[i].inst = x}
NamingRow(p, x) == {i \in DOMAIN p : InRow(p[i].inst, x)}

\* Total: some element of S if S had no least or greatest one.
Least(S) == CHOOSE i \in S : (\E m \in S : \A j \in S : m <= j) => \A j \in S : i <= j
Greatest(S) == CHOOSE i \in S : (\E m \in S : \A j \in S : j <= m) => \A j \in S : j <= i

-----------------------------------------------------------------------------
(* RowStatus.                                                              *)

Transitions ==
    [empty        |-> {"createAndGo", "createAndWait", "destroy"},
     notReady     |-> {"destroy", "active", "notInService"},
     active       |-> {"active", "notInService", "destroy"},
     notInService |-> {"notInService", "active", "destroy"},
     destroy      |-> {"destroy"}]

TransitionOk(current, requested) == requested \in Transitions[current]

\* Mutant of StatusAfter: the requested value is stored as it came.
StatusVerbatim(requested) == requested

\* The value snmpRowStatus::set stores for a requested status.
StatusAfter(requested) ==
    CASE requested \in {"active", "createAndGo"} -> "active"
      [] requested = "createAndWait" -> "notReady"
      [] OTHER -> requested

-----------------------------------------------------------------------------
(* Prepare: can the variable binding p[i] be set?  What the instrumentation *)
(* may add to these tests (value_ok, ready_for_service, voters, locked      *)
(* columns, access rights) is left to the caller's nondeterministic         *)
(* rejection.                                                               *)

\* The RowStatus bindings of the row of x in p; check_creation obeys the first.
StatusVbs(p, x) == Naming(p, StatusOf(x))
RowRequest(p, x) == p[Least(StatusVbs(p, x))].val

\* MibTable::check_creation: a binding for a row that does not exist.
MayCreate(p, x) ==
    /\ StatusVbs(p, x) # {}
    /\ RowRequest(p, x) \in {"createAndGo", "createAndWait", "destroy"}
    /\ RowRequest(p, x) = "createAndGo" => \E i \in NamingRow(p, x) : ~IsStatus(p[i].inst)

\* Destroying an inactive row puts it on MibTable::delete_rows.
Marks(p, i, value) ==
    LET x == p[i].inst IN
    /\ IsStatus(x)
    /\ value[x] \in {"notInService", "notReady"}
    /\ p[i].val = "destroy"

MayPrepare(p, i, value, deleteRows) ==
    LET x == p[i].inst IN
    \/ ~InTable(x)
    \/ /\ RowExists(x, value)
       /\ RowOf(x) \notin deleteRows
       /\ IsStatus(x) => TransitionOk(value[x], p[i].val)
    \/ RowMissing(x, value) /\ MayCreate(p, x)

\* check_creation covers the other bindings of the new row: they become ready,
\* and done too when the row is destroyed without ever having existed.
Covered(p, i, value) ==
    LET x == p[i].inst IN
    IF RowMissing(x, value) THEN NamingRow(p, x) ELSE {}

Ignored(p, i, value) ==
    IF Covered(p, i, value) # {} /\ RowRequest(p, p[i].inst) = "destroy"
      THEN Covered(p, i, value) ELSE {}

-----------------------------------------------------------------------------
(* Commit: the outcomes of MibEntry::commit_set_request for p[i], as       *)
(* records of the new values, the new undo copies, the bindings finished   *)
(* and whether it succeeded.  An overridden set may fail after MibLeaf::set *)
(* made its undo copy.                                                     *)

Outcome(ok, value, undo, finished) ==
    [ok |-> ok, value |-> value, undo |-> undo, finished |-> finished]

\* MibLeaf::commit_set_request on a scalar or an existing "value" column.
CommitLeaf(p, i, value, undo) ==
    LET x == p[i].inst
        copied == [undo EXCEPT ![x] = value[x]]
    IN {Outcome(TRUE, [value EXCEPT ![x] = p[i].val], copied, {i}),
        Outcome(FALSE, value, copied, {})}

\* snmpRowStatus::set on an existing row, destruction excepted.
CommitStatus(p, i, value, undo) ==
    LET x == p[i].inst IN
    {Outcome(TRUE, [value EXCEPT ![x] = StatusAfter(p[i].val)],
                   [undo EXCEPT ![x] = value[x]], {i})}

\* MibTable::set_value, rowDestroy: the row goes with its undo copies.
RemoveRow(p, i, value, undo) ==
    LET x == p[i].inst IN
    {Outcome(TRUE, [y \in Instances |-> IF InRow(x, y) THEN Absent ELSE value[y]],
                   [y \in Instances |-> IF InRow(x, y) THEN NoUndo ELSE undo[y]], {})}

\* MibTable::set_value on a row that does not exist: add_row clones the
\* generator, then every column of the row is committed and its status last; if
\* one fails the row is removed again.
NewValue(p, y) ==
    IF IsStatus(y)
      THEN IF Naming(p, y) = {} THEN "empty" ELSE StatusAfter(p[Greatest(Naming(p, y))].val)
      ELSE IF Naming(p, y) = {} THEN Default ELSE p[Greatest(Naming(p, y))].val

NewUndo(p, y) ==
    LET last == Greatest(Naming(p, y)) IN
    IF Naming(p, y) = {} THEN NoUndo
    ELSE IF IsStatus(y) THEN IF p[last].val = "destroy" THEN NoUndo ELSE "empty"
    ELSE IF Naming(p, y) = {last} THEN Default
    ELSE p[Greatest(Naming(p, y) \ {last})].val

\* Of several bindings that name the status of a new row only the last is
\* committed; the others stay as they are.
LastStatus(p, i) == IsStatus(p[i].inst) => \A j \in Naming(p, p[i].inst) : j <= i
FinishedByAddRow(p, x) == {i \in NamingRow(p, x) : LastStatus(p, i)}

\* Mutant of AddRow: only the binding at hand is finished.
AddRowOneFinished(p, i, value, undo) ==
    LET x == p[i].inst IN
    {Outcome(TRUE, [y \in Instances |-> IF InRow(x, y) THEN NewValue(p, y) ELSE value[y]],
                   [y \in Instances |-> IF InRow(x, y) THEN NewUndo(p, y) ELSE undo[y]],
                   {i})}
    \union {Outcome(FALSE, value, undo, {}) : j \in {k \in NamingRow(p, x) : ~IsStatus(p[k].inst)}}

AddRow(p, i, value, undo) ==
    LET x == p[i].inst IN
    {Outcome(TRUE, [y \in Instances |-> IF InRow(x, y) THEN NewValue(p, y) ELSE value[y]],
                   [y \in Instances |-> IF InRow(x, y) THEN NewUndo(p, y) ELSE undo[y]],
                   FinishedByAddRow(p, x))}
    \union {Outcome(FALSE, value, undo, {}) : j \in {k \in NamingRow(p, x) : ~IsStatus(p[k].inst)}}

\* After a commit a notReady row that is ready for service becomes
\* notInService, through snmpRowStatus::set and its undo copy.
Upgrades(o, x) ==
    LET s == StatusOf(x)
        upgraded == [o EXCEPT !.value[s] = "notInService", !.undo[s] = "notReady"]
    IN IF o.ok /\ o.value[s] = "notReady"
         THEN {IF isReady THEN upgraded ELSE o : isReady \in ServiceAnswers}
         ELSE {o}

CommitTable(p, i, value, undo) ==
    LET x == p[i].inst IN
    IF ~RowExists(x, value) THEN AddRow(p, i, value, undo)
    ELSE IF ~IsStatus(x) THEN CommitLeaf(p, i, value, undo)
    ELSE IF p[i].val = "destroy" THEN RemoveRow(p, i, value, undo)
    ELSE CommitStatus(p, i, value, undo)

Commits(p, i, value, undo) ==
    LET x == p[i].inst IN
    IF InTable(x)
      THEN UNION {Upgrades(o, x) : o \in CommitTable(p, i, value, undo)}
      ELSE CommitLeaf(p, i, value, undo)

-----------------------------------------------------------------------------
(* Undo and cleanup.  A table handles the bindings of all its rows at once. *)

\* Mutant of Reached: a table handles only the binding it is called for.
ReachedOne(p, i, value) == {p[i].inst}

\* The instances undo_set_request / cleanup_set_request of p[i] reach: find()
\* of a row that is gone returns nothing.
Reached(p, i, value) ==
    LET e == EntryOf(p[i].inst) IN
    IF IsTable(e)
      THEN {y \in {p[j].inst : j \in DOMAIN p} : EntryOf(y) = e /\ RowExists(y, value)}
      ELSE {p[i].inst}

\* Mutant of Unset: the undo copies are dropped, not restored.
UnsetDropped(S, value, undo) == value

\* MibLeaf::unset and snmpRowStatus::unset.
Unset(S, value, undo) ==
    [y \in Instances |-> IF y \in S /\ undo[y] # NoUndo THEN undo[y] ELSE value[y]]

\* No undo copy is left on S.
Forget(S, undo) == [y \in Instances |-> IF y \in S THEN NoUndo ELSE undo[y]]

\* Mutant of Cleared: the list is never cleared.
NeverCleared(deleteRows, x) == deleteRows

\* The rows on delete_rows once the table of x has cleared its list.
Cleared(deleteRows, x) == {k \in deleteRows : k[1] # EntryOf(x)}

=============================================================================
