--------------------------- MODULE MibSetAtomicity ---------------------------
(***************************************************************************)
(* MibSetTransaction implements MibStore: the four phases, the entry locks *)
(* and the undo copies make a SET one atomic step, taken when its commit   *)
(* phase ends.                                                             *)
(*                                                                         *)
(* The history variable "before" remembers the values a SET found in the   *)
(* entries it locked; the store a manager may rely on shows them until     *)
(* the commit phase has succeeded.                                         *)
(***************************************************************************)
EXTENDS MibSetTransaction

VARIABLE before

hvars == <<vars, before>>

HInit == Init /\ before = value

HNext ==
    /\ Next
    /\ before' = [z \in Instances |->
                    IF \E r \in Setters : pc[r] = "prepare" /\ pc'[r] = "commit"
                                          /\ owner[EntryOf(z)] = r
                      THEN value[z] ELSE before[z]]

HSpec == HInit /\ [][HNext]_hvars
FairHSpec == HSpec /\ Fairness

\* Some SET has entry e locked and has not made up its mind yet.
Undecided(e) == owner[e] \in Setters /\ pc[owner[e]] \in {"commit", "undo"}

Store == [z \in Instances |-> IF Undecided(EntryOf(z)) THEN before[z] ELSE value[z]]

OutcomeOf(r) ==
    CASE status[r] # "noError" -> "refused"
      [] status[r] = "noError" /\ pc[r] \in {"cleanup", "answer", "delete", "done"} -> "applied"
      [] OTHER -> "pending"

Abstract == INSTANCE MibStore WITH
    store <- Store,
    outcome <- [r \in Setters |-> OutcomeOf(r)]

\* A SET takes effect on all its instances when its commit phase ends, or on
\* none when it is refused, undone or rejected, and a GET reads only such
\* states: nobody sees a value that is later undone.
SetsAreAtomic == Abstract!Spec

\* The store changes only when a commit phase succeeds: a SET that fails,
\* undone by MibLeaf and MibTable::undo_set_request, leaves what it found.
ChangedOnlyBySuccess ==
    [][Store' # Store => \E r \in Setters : pc[r] = "commit" /\ pc'[r] = "cleanup"]_hvars
=============================================================================
