------------------------- MODULE MCSubagentRequests -------------------------
(* Small instances of SubagentRequests for TLC. *)
EXTENDS SubagentRequests

CONSTANTS s1, s2, g1, g2, e1, e2

AllPdus == Pdus

\* The SETs are for one region, so the master sends them one after the other;
\* the GETs read other rows of the tables.
Rows == [t \in Transactions |-> IF t \in Sets THEN "row" ELSE "other rows"]
Tables == [t \in Transactions |-> IF t = s1 THEN {e1} ELSE {e1, e2}]

\* The SETs are for different regions and entries; everything is for the
\* region of its entry.
Leaves == [t \in Transactions |-> IF t \in {s2, g2} THEN {e2} ELSE {e1}]
Objects == [t \in Transactions |-> IF t \in {s2, g2} THEN e2 ELSE e1]

\* The master may give up waiting for any phase of a SET; that it gives up
\* waiting for a GET changes nothing at the subagent.
LatePhases == Sets \X {"test", "commit", "undo"}
LateTests == {<<s2, "test">>}
LateUndos == {<<s2, "undo">>}
=============================================================================
