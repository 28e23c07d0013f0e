------------------------------ MODULE MibStore ------------------------------
(***************************************************************************)
(* What an agent promises its managers about SET and GET: the MIB is a     *)
(* store of instances, a SET takes effect in one step on all the instances *)
(* it names or on none, and a GET reads values of that store one by one.   *)
(***************************************************************************)
EXTENDS MibObjects

CONSTANTS Setters, Getters, SetPdus, GetPdus

VARIABLES
    pdu,      \* the bindings of each request
    store,    \* the value of each instance
    outcome,  \* the outcome of each SET
    got       \* the values each GET has read

vars == <<pdu, store, outcome, got>>

Init ==
    /\ pdu \in [Setters \union Getters -> SetPdus \union GetPdus]
    /\ store \in [Instances -> Stored]
    /\ outcome = [r \in Setters |-> "pending"]
    /\ got = [g \in Getters |-> <<>>]

\* What a SET asks of instance x of a store s; a row that is created or changed
\* while notReady may become notInService by itself.
Destroyed(p, x) == \E i \in StatusVbs(p, x) : p[i].val = "destroy"
Created(p, x, s) == NamingRow(p, x) # {} /\ RowMissing(x, s)

Settled(v) == IF v = "notReady" THEN {"notReady", "notInService"} ELSE {v}

Requested(p, x, s) ==
    IF InTable(x) /\ Destroyed(p, x) THEN {Absent}
    ELSE IF Naming(p, x) # {} THEN
      LET last == p[Greatest(Naming(p, x))].val
      IN IF IsStatus(x) THEN Settled(StatusAfter(last)) ELSE {last}
    ELSE IF Created(p, x, s) THEN IF IsStatus(x) THEN {"empty"} ELSE {Default}
    ELSE IF NamingRow(p, x) # {} THEN Settled(s[x])
    ELSE {s[x]}

Apply(r) ==
    /\ outcome[r] = "pending"
    /\ outcome' = [outcome EXCEPT ![r] = "applied"]
    /\ store' \in [Instances -> Stored]
    /\ \A x \in Instances : store'[x] \in Requested(pdu[r], x, store)
    /\ UNCHANGED <<pdu, got>>

Refuse(r) ==
    /\ outcome[r] = "pending"
    /\ outcome' = [outcome EXCEPT ![r] = "refused"]
    /\ UNCHANGED <<pdu, store, got>>

Read(g) ==
    /\ Len(got[g]) < Len(pdu[g])
    /\ got' = [got EXCEPT ![g] = Append(@, store[pdu[g][Len(@) + 1].inst])]
    /\ UNCHANGED <<pdu, store, outcome>>

Next ==
    \/ \E r \in Setters : Apply(r) \/ Refuse(r)
    \/ \E g \in Getters : Read(g)

Spec == Init /\ [][Next]_vars
=============================================================================
