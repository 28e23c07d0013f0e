------------------------------ MODULE LockTable ------------------------------
(***************************************************************************)
(* What requests may rely on when they lock managed objects: a table with  *)
(* at most one owner of each object.                                       *)
(***************************************************************************)
CONSTANTS
    Clients,   \* whoever locks objects
    Targets,   \* the objects
    NoOwner

VARIABLES owner   \* of each object

vars == owner

Init == owner = [t \in Targets |-> NoOwner]

Grant(c, t) ==
    /\ owner[t] = NoOwner
    /\ owner' = [owner EXCEPT ![t] = c]

Free(c, t) ==
    /\ owner[t] = c
    /\ owner' = [owner EXCEPT ![t] = NoOwner]

Next == \E c \in Clients, t \in Targets : Grant(c, t) \/ Free(c, t)

Spec == Init /\ [][Next]_vars
=============================================================================
