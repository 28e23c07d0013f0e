------------------------ MODULE MCMibSetTransaction ------------------------
(* Small instances of MibSetTransaction and MibSetAtomicity for TLC:        *)
(* scalars sx and sy, table tab with one row, and table lis, a listener of  *)
(* tab in some runs.                                                        *)
EXTENDS MibSetAtomicity

CONSTANTS s1, s2, g1   \* requests
CONSTANTS sx, sy, tab, lis, v0, v1

Scalar(e, v) == [inst |-> <<e, ScalarRow, "value">>, val |-> v]
Column(e, v) == [inst |-> <<e, 1, "value">>, val |-> v]
RowStatus(e, v) == [inst |-> <<e, 1, "status">>, val |-> v]

\* PDUs that name an instance at most once and create or destroy a row as their
\* last or only work.
PlainPdus ==
    {<<Scalar(sx, v1), Scalar(sy, v1)>>,
     <<Scalar(sy, v1), Column(tab, v1)>>,
     <<RowStatus(tab, "active"), Column(tab, v1), Scalar(sx, v1)>>,
     <<Column(tab, v1), RowStatus(tab, "createAndGo")>>,
     <<RowStatus(tab, "createAndWait")>>,
     <<Scalar(sx, v1), RowStatus(tab, "destroy")>>}

\* PDUs that repeat an instance, destroy a row and go on using it, set a scalar
\* after they have created a row, or name the status of a row twice.
RepeatedScalar == <<Scalar(sx, v1), Scalar(sx, v0), Scalar(sy, v1)>>
DestroyedRow == <<RowStatus(tab, "destroy"), Column(tab, v1)>>
CreateThenScalar == <<Column(tab, v1), RowStatus(tab, "createAndGo"), Scalar(sx, v1)>>
RepeatedStatus == <<Column(tab, v1), RowStatus(tab, "createAndWait"), RowStatus(tab, "active")>>

GapPdus == {CreateThenScalar}
RowPdus == {CreateThenScalar, RepeatedStatus}
RepeatPdus == {RepeatedScalar}
WaitPdus == {<<RowStatus(tab, "createAndWait")>>, <<Column(tab, v1)>>}

\* PDUs over a table and its listener that lock entries in opposite orders, and
\* one that the cleanup phase leaves with a lock.
LivePdus == {<<Column(tab, v1), Column(lis, v1)>>, <<Scalar(sx, v1), Column(tab, v1)>>,
             CreateThenScalar, DestroyedRow}

\* A PDU that names the listener first.
ListenerFirstPdus == {<<Column(lis, v1), Column(tab, v1)>>}

PlainGets == {<<Scalar(sx, v0), Column(tab, v0)>>}
OneGet == {<<Column(tab, v0)>>}
ListenerGets == {<<Column(lis, v0)>>}

NoListeners == [e \in Entries |-> {}]
OneListener == [e \in Entries |-> IF e = tab THEN {lis} ELSE {}]
=============================================================================
