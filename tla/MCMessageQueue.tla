---------------------------- MODULE MCMessageQueue ----------------------------
(* Small instances of MessageQueue for TLC. *)
EXTENDS MessageQueue

CONSTANTS c1, a1

\* The socket may refuse the first message of a blocking request, and the
\* second of an asynchronous one ...
SomeFail == (Callers \X {0}) \union ((V3 \intersect Askers) \X {1})

\* ... or the first of an asynchronous one.
FirstFail == Askers \X {0}

\* Every message has an id of its own.
OwnId == [m \in Messages |-> m]
=============================================================================
