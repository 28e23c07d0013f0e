------------------------------- MODULE Exchange -------------------------------
(***************************************************************************)
(* What an SNMP session promises to whoever asks: every request ends at    *)
(* most once, and as answered only when the agent has answered it.         *)
(***************************************************************************)
CONSTANTS
    Clients,    \* the requests
    Failures    \* how a request can end without an answer

VARIABLES
    result,     \* of each request
    replied     \* the requests that an answer has arrived for

vars == <<result, replied>>

Init ==
    /\ result = [r \in Clients |-> "none"]
    /\ replied = {}

Reply(r) ==
    /\ replied' = replied \union {r}
    /\ UNCHANGED result

Answer(r) ==
    /\ result[r] = "none" /\ r \in replied
    /\ result' = [result EXCEPT ![r] = "answered"]
    /\ UNCHANGED replied

Fail(r) ==
    /\ result[r] = "none"
    /\ \E f \in Failures : result' = [result EXCEPT ![r] = f]
    /\ UNCHANGED replied

Next == \E r \in Clients : Reply(r) \/ Answer(r) \/ Fail(r)

Spec == Init /\ [][Next]_vars
=============================================================================
