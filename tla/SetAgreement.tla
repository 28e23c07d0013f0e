----------------------------- MODULE SetAgreement -----------------------------
(***************************************************************************)
(* What the master agent owes the manager and the subagents of a SET       *)
(* request (RFC 2741, 7.2.4): it commits only what all of them have        *)
(* tested, it answers noError only when all of them have committed, and it *)
(* answers an error only when none is left with a test or a commit that    *)
(* nobody will ever clean up or undo.                                      *)
(***************************************************************************)
CONSTANTS
    Requests,    \* SET requests
    Sessions,    \* AgentX sessions, one of each subagent
    Involved     \* the sessions a request has bindings for

VARIABLES
    told,        \* the last order a session was sent for a request
    out,         \* orders <<r, s, o>> a subagent still has to answer
    agreed,      \* orders a subagent has answered with noError
    answer       \* what the manager was answered

vars == <<told, out, agreed, answer>>

Init ==
    /\ told = [r \in Requests |-> [s \in Sessions |-> "none"]]
    /\ out = {} /\ agreed = {}
    /\ answer = [r \in Requests |-> "none"]

AllAgree(r, o) == \A s \in Involved[r] : <<r, s, o>> \in agreed

\* When a session may be told o for r.
May(r, s, o) ==
    \/ o = "test" /\ told[r][s] = "none"
    \/ o = "commit" /\ told[r][s] = "test" /\ AllAgree(r, "test")
    \/ o = "undo" /\ told[r][s] = "commit"
    \/ o = "cleanup" /\ told[r][s] \in {"none", "test"}
    \/ o = "cleanup" /\ told[r][s] = "commit" /\ AllAgree(r, "commit")

Tell(r, S, o) ==
    /\ answer[r] = "none"
    /\ \A s \in S : May(r, s, o)
    /\ told' = [told EXCEPT ![r] = [s \in Sessions |-> IF s \in S THEN o ELSE @[s]]]
    /\ out' = IF o = "cleanup" THEN out ELSE out \union {<<r, s, o>> : s \in S}
    /\ UNCHANGED <<agreed, answer>>

Reply(p) ==
    /\ p \in out
    /\ out' = out \ {p}
    /\ agreed' \in {agreed, agreed \union {p}}
    /\ UNCHANGED <<told, answer>>

Succeed(r) ==
    /\ AllAgree(r, "commit")
    /\ \A s \in Involved[r] : told[r][s] = "cleanup"
    /\ answer' = [answer EXCEPT ![r] = "ok"]

Fail(r) ==
    /\ \A s \in Sessions :
          \/ told[r][s] \in {"none", "cleanup"}
          \/ told[r][s] = "undo" /\ <<r, s, "undo">> \notin out
    /\ answer' = [answer EXCEPT ![r] = "error"]

Answer(r) ==
    /\ answer[r] = "none"
    /\ Succeed(r) \/ Fail(r)
    /\ UNCHANGED <<told, out, agreed>>

Next ==
    \/ \E r \in Requests, S \in SUBSET Sessions, o \in {"test", "commit", "undo", "cleanup"} :
          Tell(r, S, o)
    \/ \E p \in out : Reply(p)
    \/ \E r \in Requests : Answer(r)

Spec == Init /\ [][Next]_vars
===============================================================================
