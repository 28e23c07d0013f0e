------------------------------- MODULE TaskBag -------------------------------
(***************************************************************************)
(* What the callers of a thread pool may rely on: a bag of tasks that are  *)
(* run at most once each, at most Size at a time, until the pool is        *)
(* stopped.                                                                *)
(***************************************************************************)
EXTENDS Naturals, FiniteSets

CONSTANTS Size, Tasks

VARIABLES
    state,   \* of each task
    phase    \* of the pool

vars == <<state, phase>>

States == {"new", "pending", "running", "done", "dropped"}
Phases == {"live", "stopping", "stopped"}

Init == state = [t \in Tasks |-> "new"] /\ phase = "live"

Running == {t \in Tasks : state[t] = "running"}

Move(t, from, to) == state[t] = from /\ state' = [state EXCEPT ![t] = to]

Submit(t) == Move(t, "new", "pending") /\ phase = "live" /\ UNCHANGED phase

Start(t) ==
    /\ Move(t, "pending", "running")
    /\ phase # "stopped" /\ Cardinality(Running) < Size
    /\ UNCHANGED phase

Finish(t) == Move(t, "running", "done") /\ UNCHANGED phase

\* A task that has not been started may be deleted once the pool stops.
Drop(t) == Move(t, "pending", "dropped") /\ phase # "live" /\ UNCHANGED phase

Stop ==
    /\ \/ phase = "live" /\ phase' = "stopping"
       \/ phase = "stopping" /\ phase' = "stopped"
    /\ UNCHANGED state

Next ==
    \/ \E t \in Tasks : Submit(t) \/ Start(t) \/ Finish(t) \/ Drop(t)
    \/ Stop

Spec == Init /\ [][Next]_vars
=============================================================================
