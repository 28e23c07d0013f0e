-------------------------- MODULE SubagentRequests --------------------------
(***************************************************************************)
(* The requests of an AgentX subagent: AgentXRequestList of                *)
(* agentx++/src/agentx_request.cpp and SubAgentXMib::do_process_request of *)
(* agentx++/src/agentx_subagent.cpp, with the entry locks of agent++.      *)
(*                                                                         *)
(* The master sends the phases of a SET as PDUs of their own.  The main    *)
(* thread makes a request of each and hands it to a thread of the pool; a  *)
(* request that follows another takes over its entry locks, once the       *)
(* thread that works on that one has let go of it.  The master gives up    *)
(* waiting when it likes, so a CleanupSet may come while the TestSet is    *)
(* still waiting for an entry.                                             *)
(*                                                                         *)
(* A request is named by its PDU, <<transaction, order>>: the master sends *)
(* an order of a transaction once.                                         *)
(***************************************************************************)
EXTENDS Naturals, Sequences, FiniteSets

CONSTANTS
    Sets, Gets,   \* transactions of the master
    Entries,      \* managed objects of the subagent that can be locked
    Named,        \* the entries a transaction has bindings for
    Region,       \* the region of the master a transaction is for
    Size,         \* the number of threads of the pool
    Late,         \* PDUs the master may give up waiting for
    Refusals,     \* PDUs the subagent may refuse
    Abandoned,    \* SETs the master may leave after their CommitSet
    Expiring,     \* SETs the subagent may time out
    CloseWhen,    \* when the master may close the session: never, when no SET
                  \* is under way or abandoned, when none is under way, any time
    Nobody

Transactions == Sets \union Gets
Follows == {"commit", "undo", "cleanup"}
Orders == {"test"} \union Follows
ClosePdu == <<Nobody, "close">>
NoPdu == <<Nobody, "none">>
Pdus == (Sets \X Orders) \union (Gets \X {"get"}) \union {ClosePdu}

ASSUME SubagentAssumption ==
    /\ Named \in [Transactions -> SUBSET Entries]
    /\ Sets \intersect Gets = {}
    /\ Nobody \notin Transactions
    /\ DOMAIN Region = Transactions
    /\ Size \in Nat \ {0}
    /\ Late \subseteq Pdus /\ Refusals \subseteq Pdus
    /\ Abandoned \subseteq Sets /\ Expiring \subseteq Sets
    /\ CloseWhen \in {"never", "orderly", "between", "any"}

VARIABLES
    order,    \* what the master waits for, for each transaction
    closing,  \* whether the master has closed the session
    replies,  \* the PDUs that were answered
    failed,   \* those that were answered with an error
    inbox,    \* PDUs in the socket of the subagent
    main,     \* where the main thread is
    cur, old, \* the request it makes, and the one that request follows
    list,     \* RequestList::requests
    pc,       \* how far the work on a request has come
    freed,    \* deleted requests
    locks,    \* Request::locks
    mib,      \* the request whose thread has the MIB locked
    holder,   \* the transaction that has an entry locked
    val,      \* the SET that wrote the value of an entry
    copy,     \* its undo copy, if there is one
    got,      \* what GETs have read: <<transaction, entry, writer>>
    undone    \* SETs that were undone

masterVars == <<order, closing>>
mainVars == <<main, cur, old>>
entryVars == <<holder, val, copy, got, undone>>
vars == <<masterVars, replies, failed, inbox, mainVars, list, pc, freed, locks, mib, entryVars>>

Writers == Sets \union {Nobody}

TypeOK ==
    /\ order \in [Transactions -> Orders \union {"none", "get", "done", "abandoned"}]
    /\ closing \in BOOLEAN
    /\ replies \subseteq Pdus /\ failed \subseteq Pdus
    /\ inbox \in Seq(Pdus)
    /\ main \in {"receive", "take", "add", "hand"}
    /\ cur \in Pdus \union {NoPdu} /\ old \in Pdus \union {NoPdu}
    /\ list \subseteq Pdus /\ freed \subseteq Pdus
    /\ pc \in [Pdus -> {"none", "start", "lock", "read", "answer", "unlock", "rest", "done"}]
    /\ locks \in [Pdus -> SUBSET Entries]
    /\ mib \in Pdus \union {NoPdu}
    /\ holder \in [Entries -> Transactions \union {Nobody}]
    /\ val \in [Entries -> Writers]
    /\ copy \in [Entries -> SUBSET Writers]
    /\ got \subseteq Transactions \X Entries \X Writers
    /\ undone \subseteq Sets

Init ==
    /\ order = [t \in Transactions |-> "none"]
    /\ closing = FALSE
    /\ replies = {} /\ failed = {}
    /\ inbox = <<>>
    /\ main = "receive" /\ cur = NoPdu /\ old = NoPdu
    /\ list = {} /\ freed = {}
    /\ pc = [p \in Pdus |-> "none"]
    /\ locks = [p \in Pdus |-> {}]
    /\ mib = NoPdu
    /\ holder = [e \in Entries |-> Nobody]
    /\ val = [e \in Entries |-> Nobody]
    /\ copy = [e \in Entries |-> {}]
    /\ got = {} /\ undone = {}

-----------------------------------------------------------------------------
(* The master *)

InFlight(t) == order[t] \in Orders \union {"get"} /\ order[t] # "cleanup"

Send(t, o) ==
    /\ order' = [order EXCEPT ![t] = o]
    /\ inbox' = Append(inbox, <<t, o>>)

\* The node of a region is locked for a SET until it is finished.
Ask(t) ==
    /\ order[t] = "none"
    /\ \A u \in Sets : InFlight(u) => Region[u] # Region[t]
    /\ Send(t, IF t \in Sets THEN "test" ELSE "get")

Agreed(t) == <<t, order[t]>> \in replies \ failed
Over(t) == <<t, order[t]>> \in replies \union Late

End(t, o) == order' = [order EXCEPT ![t] = o] /\ inbox' = inbox

\* The next phase of a request: what it is depends on other subagents too.
\* Nobody waits for the end of a CleanupSet, and when the commit of another
\* subagent fails while one is pending, the SET ends without a further PDU,
\* whether this subagent has answered its CommitSet or not.
GoOn(t) ==
    \/ order[t] = "test" /\ Agreed(t) /\ Send(t, "commit")
    \/ order[t] = "test" /\ Over(t) /\ Send(t, "cleanup")
    \/ order[t] = "commit" /\ Agreed(t) /\ Send(t, "cleanup")
    \/ order[t] = "commit" /\ Over(t) /\ Send(t, "undo")
    \/ order[t] = "commit" /\ t \in Abandoned /\ End(t, "abandoned")
    \/ order[t] \in {"undo", "get"} /\ Over(t) /\ End(t, "done")

MasterStep(t) ==
    /\ ~closing
    /\ Ask(t) \/ GoOn(t)
    /\ UNCHANGED <<closing, replies, failed, mainVars, list, pc, freed, locks, mib, entryVars>>

\* No SET is under way or was left after its CommitSet.
AllOver == \A t \in Sets : ~InFlight(t) /\ order[t] # "abandoned"

\* close_session, when a subagent was late too often or its row was removed
CloseSession ==
    /\ ~closing
    /\ CloseWhen # "never"
    /\ CloseWhen = "orderly" => AllOver
    /\ CloseWhen = "between" => \A t \in Sets : ~InFlight(t)
    /\ closing' = TRUE
    /\ inbox' = Append(inbox, ClosePdu)
    /\ UNCHANGED <<order, replies, failed, mainVars, list, pc, freed, locks, mib, entryVars>>

-----------------------------------------------------------------------------
(* Requests and their locks *)

\* find_request_on_id
Of(t) == {r \in list : r[1] = t}

Active(p) == pc[p] \in {"start", "lock", "read", "answer", "unlock"}

\* The thread that works on request p is at step s; once p was deleted
\* under its hands, nothing is known about what it does.
At(p, s) == pc[p] = s /\ p \notin freed

\* set_unlocked for every entry that one of the requests R has locked
Unlock(R) ==
    /\ holder' = [e \in Entries |-> IF \E r \in R : e \in locks[r] THEN Nobody ELSE holder[e]]
    /\ locks' = [p \in Pdus |-> IF p \in R THEN {} ELSE locks[p]]

\* cleanup_set_request for every entry that one of the requests R has locked
CleanUp(R) ==
    copy' = [e \in Entries |-> IF \E r \in R : e \in locks[r] THEN {} ELSE copy[e]]

\* terminate_set_requests and timeout_set_requests, about the requests R
Terminate(R) ==
    /\ CleanUp(R) /\ Unlock(R)
    /\ freed' = freed \union R

-----------------------------------------------------------------------------
(* The main thread: AgentXRequestList::receive, SubAgentXMib::process_request *)

\* An order that follows no TestSet is ignored, as is a transaction that is
\* known already.
Ignored(p) == IF p[2] \in Follows THEN Of(p[1]) = {} ELSE Of(p[1]) # {}

Receive ==
    /\ main = "receive" /\ inbox # <<>>
    /\ inbox' = Tail(inbox)
    /\ LET p == Head(inbox) IN
         IF Ignored(p)
         THEN UNCHANGED mainVars
         ELSE /\ cur' = p
              /\ IF p[2] \in Follows
                 THEN main' = "take" /\ old' \in Of(p[1])
                 ELSE main' = "add" /\ old' = old
    /\ UNCHANGED <<masterVars, replies, failed, list, pc, freed, locks, mib, entryVars>>

\* Mutant of LetGo: r->lock() is missing.
LetGoAlways(p) == TRUE

\* Mutant of LetGo: delete_request forgets to unlock a CommitSet.
LetGoOfTests(p) == pc[p] = "rest" /\ p[2] = "test"

\* r->lock(): the thread that works on p has unlocked it.
LetGo(p) == pc[p] = "rest"

\* Mutant of TakeOver: r->locks.clear() is missing, so r unlocks the entries.
TakeOverTwice ==
    /\ holder' = [e \in Entries |-> IF e \in locks[old] THEN Nobody ELSE holder[e]]
    /\ locks' = [locks EXCEPT ![cur] = locks[old], ![old] = {}]

\* The new request has the locks of the old one.
TakeOver ==
    /\ holder' = holder
    /\ locks' = [locks EXCEPT ![cur] = locks[old], ![old] = {}]

Take ==
    /\ main = "take" /\ old \notin freed /\ LetGo(old)
    /\ TakeOver
    /\ list' = list \ {old} /\ freed' = freed \union {old}
    /\ main' = "add" /\ old' = NoPdu
    /\ UNCHANGED <<masterVars, replies, failed, inbox, cur, pc, mib, val, copy, got, undone>>

\* The timestamp of a request that was answered has passed.  A thread is not
\* kept from unlocking its request for that long.
Overdue == {r \in list : r[1] \in Expiring /\ r[2] \in {"test", "commit"} /\ pc[r] = "rest"}

\* add_request
Add ==
    /\ main = "add"
    /\ \E R \in SUBSET Overdue :
         /\ Terminate(R)
         /\ list' = (list \ R) \union ({cur} \ {ClosePdu})
    /\ main' = "hand"
    /\ UNCHANGED <<masterVars, replies, failed, inbox, cur, old, pc, mib, val, got, undone>>

\* ThreadPool::execute waits for an idle thread.
Hand ==
    /\ main = "hand"
    /\ Cardinality({p \in Pdus : Active(p)}) < Size
    /\ pc' = [pc EXCEPT ![cur] = "start"]
    /\ main' = "receive" /\ cur' = NoPdu
    /\ UNCHANGED <<masterVars, replies, failed, inbox, old, list, freed, locks, mib, entryVars>>

-----------------------------------------------------------------------------
(* The threads of the pool *)

Become(p, s) == pc' = [pc EXCEPT ![p] = s]

LockMib(p) ==
    /\ At(p, "start") /\ p[2] \in {"test", "get"}
    /\ mib = NoPdu
    /\ mib' = p /\ Become(p, "lock")
    /\ UNCHANGED <<masterVars, replies, failed, inbox, mainVars, list, freed, locks, entryVars>>

\* process_prepare_set_request: lock an entry
Prepare(p, e) ==
    /\ At(p, "lock") /\ p[2] = "test"
    /\ e \in Named[p[1]] \ locks[p] /\ holder[e] = Nobody
    /\ holder' = [holder EXCEPT ![e] = p[1]]
    /\ locks' = [locks EXCEPT ![p] = @ \union {e}]
    /\ UNCHANGED <<masterVars, replies, failed, inbox, mainVars, list, pc, freed, mib,
                   val, copy, got, undone>>

\* and leave, with all entries locked or with an error
Prepared(p) ==
    /\ At(p, "lock") /\ p[2] = "test"
    /\ \/ locks[p] = Named[p[1]] /\ failed' = failed
       \/ p \in Refusals /\ failed' = failed \union {p}
    /\ mib' = NoPdu /\ Become(p, "answer")
    /\ UNCHANGED <<masterVars, replies, inbox, mainVars, list, freed, locks, entryVars>>

ToRead(t) == {e \in Named[t] : \A w \in Writers : <<t, e, w>> \notin got}

\* process_request for a GET: lock an entry, unlock the MIB
Enter(p, e) ==
    /\ At(p, "lock") /\ p[2] = "get"
    /\ e \in ToRead(p[1]) /\ holder[e] = Nobody
    /\ holder' = [holder EXCEPT ![e] = p[1]]
    /\ locks' = [locks EXCEPT ![p] = {e}]
    /\ mib' = NoPdu /\ Become(p, "read")
    /\ UNCHANGED <<masterVars, replies, failed, inbox, mainVars, list, freed,
                   val, copy, got, undone>>

\* read it and unlock it
Read(p) ==
    /\ At(p, "read")
    /\ got' = got \union {<<p[1], e, val[e]>> : e \in locks[p]}
    /\ Unlock({p})
    /\ Become(p, IF ToRead(p[1]) \subseteq locks[p] THEN "answer" ELSE "start")
    /\ UNCHANGED <<masterVars, replies, failed, inbox, mainVars, list, freed, mib,
                   val, copy, undone>>

\* process_commit_set_request, which stops at the first binding that fails
Commit(p) ==
    /\ At(p, "start") /\ p[2] = "commit"
    /\ \E D \in SUBSET locks[p] :
         /\ val' = [e \in Entries |-> IF e \in D THEN p[1] ELSE val[e]]
         /\ copy' = [e \in Entries |-> IF e \in D THEN {val[e]} ELSE copy[e]]
         /\ \/ D = Named[p[1]] /\ failed' = failed
            \/ p \in Refusals /\ failed' = failed \union {p}
    /\ Become(p, "answer")
    /\ UNCHANGED <<masterVars, replies, inbox, mainVars, list, freed, locks, mib,
                   holder, got, undone>>

\* Mutant of Restored: only the last binding is undone.
RestoredOne(p) ==
    LET last == CHOOSE e \in locks[p] : TRUE
    IN [e \in Entries |-> IF e = last /\ copy[e] # {} THEN CHOOSE v \in copy[e] : TRUE ELSE val[e]]

\* undo_set_request for the entries request p has locked
Restored(p) ==
    [e \in Entries |->
       IF e \in locks[p] /\ copy[e] # {} THEN CHOOSE v \in copy[e] : TRUE ELSE val[e]]

\* process_undo_set_request
Undo(p) ==
    /\ At(p, "start") /\ p[2] = "undo"
    /\ val' = Restored(p)
    /\ CleanUp({p}) /\ Unlock({p})
    /\ undone' = undone \union {p[1]}
    /\ Become(p, "answer")
    /\ UNCHANGED <<masterVars, replies, failed, inbox, mainVars, list, freed, mib, got>>

\* process_cleanup_set_request; RequestList::remove.  Nothing is answered.
Cleanup(p) ==
    /\ At(p, "start") /\ p[2] = "cleanup"
    /\ Terminate({p})
    /\ list' = list \ {p}
    /\ Become(p, "done")
    /\ UNCHANGED <<masterVars, replies, failed, inbox, mainVars, mib, val, got, undone>>

\* A Close PDU: terminate_set_requests, whoever works on them
Close(p) ==
    /\ At(p, "start") /\ p[2] = "close"
    /\ LET R == {r \in list : r[2] \in {"test", "commit"}} IN
         /\ CleanUp(R) /\ Unlock(R)
         /\ list' = list \ R
         /\ freed' = freed \union R \union {p}
    /\ Become(p, "done")
    /\ UNCHANGED <<masterVars, replies, failed, inbox, mainVars, mib, val, got, undone>>

Kept(p) == p[2] \in {"test", "commit"}

\* AgentXRequestList::answer
Answer(p) ==
    /\ At(p, "answer")
    /\ list' = IF Kept(p) THEN list ELSE list \ {p}
    /\ replies' = replies \union {p}
    /\ Become(p, "unlock")
    /\ UNCHANGED <<masterVars, failed, inbox, mainVars, freed, locks, mib, entryVars>>

\* SubAgentXMib::delete_request
DeleteRequest(p) ==
    /\ At(p, "unlock")
    /\ IF Kept(p)
       THEN Become(p, "rest") /\ freed' = freed
       ELSE Become(p, "done") /\ freed' = freed \union {p}
    /\ UNCHANGED <<masterVars, replies, failed, inbox, mainVars, list, locks, mib, entryVars>>

Work(p) ==
    \/ LockMib(p) \/ Prepared(p) \/ Read(p)
    \/ \E e \in Entries : Prepare(p, e) \/ Enter(p, e)
    \/ Commit(p) \/ Undo(p) \/ Cleanup(p) \/ Close(p)
    \/ Answer(p) \/ DeleteRequest(p)

MainStep == Receive \/ Take \/ Add \/ Hand

Next ==
    \/ \E t \in Transactions : MasterStep(t)
    \/ CloseSession
    \/ MainStep
    \/ \E p \in Pdus : Work(p)

Spec == Init /\ [][Next]_vars

\* The master ends what it has begun, because its timeouts do, if only by
\* leaving a SET where it is, and some thread of the subagent that can go on
\* does.
Fairness ==
    /\ WF_vars(\E t \in Transactions : order[t] # "none" /\ MasterStep(t))
    /\ WF_vars(MainStep)
    /\ WF_vars(\E p \in Pdus : Work(p))

FairSpec == Spec /\ Fairness

-----------------------------------------------------------------------------
(* Properties *)

\* An entry that is locked belongs to one request that is not deleted, and
\* will be unlocked with it: no lock gets lost or is given away on the way
\* from a TestSet to its CommitSet, UndoSet or CleanupSet.
LocksHaveOwner ==
    /\ \A p \in Pdus : \A e \in locks[p] : p \notin freed /\ holder[e] = p[1]
    /\ \A e \in Entries : holder[e] # Nobody =>
          \E p \in Pdus : /\ p[1] = holder[e] /\ e \in locks[p]
                          /\ \A q \in Pdus : e \in locks[q] => q = p

\* No thread works on a request that another has deleted.
NoStaleUse ==
    /\ \A p \in Pdus : Active(p) => p \notin freed
    /\ main = "take" => old \notin freed
    /\ main \in {"add", "hand"} => cur \notin freed

\* The session was not closed over a SET: what the master can no longer change
\* once it has closed it.
ClosedCleanly == closing => AllOver

\* What an UndoSet takes back is gone, and nobody has ever read it.
UndoneUnseen ==
    \A t \in undone :
        /\ \A e \in Entries : val[e] # t /\ t \notin copy[e]
        /\ \A g \in Gets, e \in Entries : <<g, e, t>> \notin got

\* An UndoSet finds the request it follows.
UndoFollows ==
    \A t \in Sets : order[t] = "undo" =>
        \/ \E i \in 1 .. Len(inbox) : inbox[i] = <<t, "undo">>
        \/ cur = <<t, "undo">>
        \/ pc[<<t, "undo">>] # "none"

\* A SET the master has left after its CommitSet still has entries locked: "If we
\* do not get a CLEANUP from the master we have to remove the pending request by
\* ourselves" (agentx_request.cpp:208), which only add_request does.
LeftLocked == \E t \in Sets : order[t] = "abandoned" /\ \E e \in Entries : holder[e] = t

\* Every locked entry becomes free again, unless the master has left one locked:
\* no request waits for ever for a phase that the main thread cannot take or
\* hand over.
EntriesComeFree == \A e \in Entries : holder[e] # Nobody ~> holder[e] = Nobody \/ LeftLocked

\* What the subagent does not see to: the master may not have left any locked.
AllComeFree == \A e \in Entries : holder[e] # Nobody ~> holder[e] = Nobody
=============================================================================
