----------------------------- MODULE MCAgentXSets -----------------------------
(* Two regions, each of another subagent, for TLC. *)
EXTENDS AgentXSets, TLC

CONSTANTS r1, r2, r3, n1, n2, s1, s2

MCSessionOf == (n1 :> s1) @@ (n2 :> s2)

\* A SET with two bindings for s1 and one for s2, and two that meet it.
ThreeNames == (r1 :> <<n1, n2, n1>>) @@ (r2 :> <<n2>>) @@ (r3 :> <<n1>>)
TwoNames == (r1 :> <<n1, n2>>) @@ (r2 :> <<n2>>)

\* Subagents refuse tests and undos, and commits of a SET they have for themselves.
AloneRefused == (Requests \X Sessions \X {"test", "undo"}) \union
                {<<r2, s2, "commit">>, <<r3, s1, "commit">>}
===============================================================================
