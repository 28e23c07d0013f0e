---------------------------- MODULE AgentXIndex ----------------------------
(***************************************************************************)
(* Index allocation by the AgentX master: AgentXIndex and AgentXIndexDB of *)
(* agentx++/src/agentx_index.cpp, and the handlers of                      *)
(* agentx++/src/agentx_master.cpp that use them.                           *)
(*                                                                         *)
(* The thread of the master handles one AgentX PDU after the other.  It    *)
(* first tests every binding, then commits every binding; the lock of the  *)
(* index database covers a binding, not a PDU.  Meanwhile the registration *)
(* thread closes sessions whose subagent said so or went away, and an SNMP *)
(* thread closes the session whose row a manager removed.                  *)
(*                                                                         *)
(* One context, thus one index database.                                   *)
(***************************************************************************)
EXTENDS Integers, Sequences, FiniteSets

CONSTANTS
    Sessions,    \* session ids, never reused
    Indexes,     \* OIDs of index objects
    MaxValue,    \* the greatest value of an integer index: 2^31-1 or 2^32-1
    Pdus,        \* index PDUs the subagents may send
    Closings,    \* the ways in which sessions are closed
    MaxPdus,     \* bound on the number of PDUs handled
    NoSession,   \* nobody: the value is not in allocatedValues
    NoPdu        \* the master thread handles no index PDU

Values == 0 .. MaxValue
Syntaxes == {"int32", "gauge32", "octets"}
Kinds == {"allocate", "new", "any", "deallocate"}

\* A negative value has no index value (get_index_value returns 0).
Vbs == {vb \in [index : Indexes, syntax : Syntaxes, value : Values \union {-1}] :
          vb.value = -1 => vb.syntax = "int32"}

\* Mutant of Duties: a Close PDU leaves the session's index values allocated.
DutiesNoPurge == [closePdu |-> <<"unlist">>, lost |-> <<"unlist", "purge">>,
                  admin |-> <<"unlist", "purge">>, timeout |-> <<"unlist", "purge">>]

\* What is left to do when a session is closed: a Close PDU and a lost
\* connection are tasks of the registration thread, an administrative close
\* runs in the thread of an SNMP request, a timeout in the master thread.
Duties == [closePdu |-> <<"purge", "unlist">>, lost  |-> <<"unlist", "purge">>,
           admin    |-> <<"unlist", "purge">>, timeout |-> <<"unlist", "purge">>]

ASSUME IndexAssumption ==
    /\ MaxValue \in Nat \ {0}
    /\ MaxPdus \in Nat
    /\ Closings \subseteq DOMAIN Duties
    /\ Pdus \subseteq [kind : Kinds, session : Sessions, vbs : Seq(Vbs)]
    /\ NoSession \notin Sessions
    /\ NoPdu \notin Pdus
    \* The code has no outcome for the release of a negative value.
    /\ \A p \in Pdus : p.kind = "deallocate" =>
           \A k \in 1 .. Len(p.vbs) : p.vbs[k].value # -1

VARIABLES
    openSessions,  \* MasterAgentXMib::openSessions
    opened,        \* the ids make_new_session has given
    closing,       \* closings in progress, each with the duties it still has
    syntax,        \* the syntax of an AgentXIndex, "none" if there is none yet
    owner,         \* AgentXIndex::allocatedValues: value -> session
    used,          \* AgentXIndex::usedValues
    phase,         \* where the master thread is in the handler
    pdu, at,       \* the PDU it handles and the loop variable
    handled,       \* number of PDUs handled so far
    claims,        \* what the subagent of a session was told it owns
    handedOut      \* every <<index, value>> ever allocated

sessionVars == <<openSessions, opened, closing>>
tableVars == <<syntax, owner, used, handedOut>>
handlerVars == <<phase, pdu, at, handled, claims>>
vars == <<sessionVars, tableVars, handlerVars>>

Phases == {"idle", "test", "commit", "answer"}

SessionsOK ==
    /\ opened \subseteq Sessions
    /\ openSessions \subseteq opened
    /\ closing \subseteq [session : opened, way : Closings,
                          left : {<<"purge", "unlist">>, <<"unlist", "purge">>,
                                  <<"purge">>, <<"unlist">>}]

TableOK ==
    /\ syntax \in [Indexes -> Syntaxes \union {"none"}]
    /\ owner \in [Indexes -> [Values -> Sessions \union {NoSession}]]
    /\ used \in [Indexes -> SUBSET Values]
    /\ handedOut \subseteq Indexes \X Values

PduOK(p) == p \in [kind : Kinds, session : Sessions, vbs : Seq(Vbs)]

HandlerOK ==
    /\ phase \in Phases
    /\ phase = "idle" => pdu = NoPdu
    /\ phase # "idle" => PduOK(pdu)
    /\ phase \in {"test", "commit"} => at \in 1 .. Len(pdu.vbs) + 1
    /\ handled \in 0 .. MaxPdus
    /\ claims \in [Sessions -> SUBSET (Indexes \X Values)]

TypeOK == SessionsOK /\ TableOK /\ HandlerOK

Init ==
    /\ openSessions = {} /\ opened = {} /\ closing = {}
    /\ syntax = [i \in Indexes |-> "none"]
    /\ owner = [i \in Indexes |-> [v \in Values |-> NoSession]]
    /\ used = [i \in Indexes |-> {}]
    /\ phase = "idle" /\ pdu = NoPdu /\ at = 1 /\ handled = 0
    /\ claims = [s \in Sessions |-> {}]
    /\ handedOut = {}

-----------------------------------------------------------------------------
(* AgentXIndex and AgentXIndexDB *)

Allocated(i) == {v \in Values : owner[i][v] # NoSession}

\* The syntax of the index a binding is about; the database makes an index
\* of the binding's syntax when there is none.
SyntaxOf(vb) == IF syntax[vb.index] = "none" THEN vb.syntax ELSE syntax[vb.index]

IsSimple(syn) == syn \in {"int32", "gauge32"}

IsLeast(v, S) == v \in S /\ \A w \in S : v <= w

\* Mutant of NewCandidates: values that were released are not skipped.
NewCandidatesUsedToo(vb) ==
    {v \in Values : v > 0 /\ \A w \in Allocated(vb.index) : w < v}

\* Values new_index may find.  An integer that passes MaxValue turns negative
\* and has no index value; an unsigned one starts again at 0.
NewCandidates(vb) ==
    LET i == vb.index
        above == {v \in Values \ used[i] : v > 0 /\ \A w \in Allocated(i) : w < v}
    IN IF above = {} /\ SyntaxOf(vb) = "gauge32" THEN Values \ used[i] ELSE above

\* any_index prefers a value that has been released.
AnyCandidates(vb) ==
    IF used[vb.index] # {} THEN used[vb.index] ELSE NewCandidates(vb)

Candidates(kind, vb) == IF kind = "new" THEN NewCandidates(vb) ELSE AnyCandidates(vb)

\* Mutant of MayAllocate: nobody looks whether the value is allocated.
MayAllocateAnything(vb) ==
    syntax[vb.index] = "none" \/ (vb.syntax = syntax[vb.index] /\ vb.value \in Values)

\* allocate with test: an index that does not exist yet is not asked.
MayAllocate(vb) ==
    \/ syntax[vb.index] = "none"
    \/ /\ vb.syntax = syntax[vb.index]
       /\ vb.value \in Values \ Allocated(vb.index)

\* Mutant of MayRelease: a session releases what another session owns.
MayReleaseAnything(s, vb) ==
    syntax[vb.index] # "none" /\ vb.value \in Allocated(vb.index)

\* release
MayRelease(s, vb) ==
    /\ syntax[vb.index] # "none"
    /\ vb.value \in Values
    /\ owner[vb.index][vb.value] = s

\* Mutant of Take: any_index forgets to take the value out of usedValues.
TakeKeepingUsed(s, kind, vb) ==
    /\ syntax' = [syntax EXCEPT ![vb.index] = SyntaxOf(vb)]
    /\ owner' = [owner EXCEPT ![vb.index][vb.value] = s]
    /\ handedOut' = handedOut \union {<<vb.index, vb.value>>}
    /\ used' = used

\* Mutant of Take: a negative value is not refused by get_index_value.
TakeNegative(s, kind, vb) ==
    /\ syntax' = [syntax EXCEPT ![vb.index] = SyntaxOf(vb)]
    /\ owner' = [owner EXCEPT ![vb.index] = [v \in DOMAIN @ \union {vb.value} |->
                     IF v = vb.value THEN s ELSE @[v]]]
    /\ handedOut' = handedOut \union {<<vb.index, vb.value>>}
    /\ used' = used

\* Commit of one binding of an allocation for session s.
Take(s, kind, vb) ==
    /\ syntax' = [syntax EXCEPT ![vb.index] = SyntaxOf(vb)]
    /\ IF vb.value \in Values
       THEN /\ owner' = [owner EXCEPT ![vb.index][vb.value] = s]
            /\ handedOut' = handedOut \union {<<vb.index, vb.value>>}
       ELSE UNCHANGED <<owner, handedOut>>
    /\ used' = IF kind = "any"
               THEN [used EXCEPT ![vb.index] = {v \in @ : ~IsLeast(v, @)}]
               ELSE used

\* Commit of one binding of a deallocation.
GiveBack(s, vb) ==
    IF MayRelease(s, vb)
    THEN /\ owner' = [owner EXCEPT ![vb.index][vb.value] = NoSession]
         /\ used' = IF IsSimple(syntax[vb.index])
                    THEN [used EXCEPT ![vb.index] = @ \union {vb.value}]
                    ELSE used
         /\ UNCHANGED <<syntax, handedOut>>
    ELSE UNCHANGED tableVars

\* remove_session for every index
Purge(s) ==
    /\ owner' = [i \in Indexes |->
                   [v \in Values |-> IF owner[i][v] = s THEN NoSession ELSE owner[i][v]]]
    /\ UNCHANGED <<syntax, used, handedOut>>

-----------------------------------------------------------------------------
(* The master thread: process_ax_indexallocate, process_ax_indexdeallocate *)

\* The master thread runs a timeout's closing to its end.
MasterFree == phase = "idle" /\ \A c \in closing : c.way # "timeout"

\* A subagent that closed its session or whose connection is lost sends no
\* more; one whose session was closed for it does not know yet.
Silent(s) == \E c \in closing : c.session = s /\ c.way \in {"closePdu", "lost"}

Named(p) == {<<p.vbs[k].index, p.vbs[k].value>> : k \in 1 .. Len(p.vbs)}

\* create_response finds the session.  (A PDU of a session that is not open is
\* refused and changes nothing.)  Who sends a deallocation relies no longer
\* on the values it names.
Receive(p) ==
    /\ MasterFree /\ handled < MaxPdus
    /\ p.session \in openSessions /\ ~Silent(p.session)
    /\ phase' = "test" /\ pdu' = p /\ at' = 1
    /\ handled' = handled + 1
    /\ claims' = IF p.kind = "deallocate"
                 THEN [claims EXCEPT ![p.session] = @ \ Named(p)]
                 ELSE claims
    /\ UNCHANGED <<sessionVars, tableVars>>

Vb == pdu.vbs[at]

\* new_index and any_index write the value they find into the binding.
Choose(v) == [pdu EXCEPT !.vbs[at] =
                [index |-> Vb.index, syntax |-> SyntaxOf(Vb), value |-> v]]

\* db->allocate, new_index, any_index or release with test accepts a binding
Test ==
    /\ phase = "test" /\ at <= Len(pdu.vbs)
    /\ CASE pdu.kind = "allocate"   -> MayAllocate(Vb) /\ pdu' = pdu
         [] pdu.kind = "deallocate" -> MayRelease(pdu.session, Vb) /\ pdu' = pdu
         [] OTHER -> /\ IsSimple(SyntaxOf(Vb))
                     /\ \E v \in Values : /\ IsLeast(v, Candidates(pdu.kind, Vb))
                                          /\ pdu' = Choose(v)
    /\ at' = at + 1
    /\ UNCHANGED <<sessionVars, tableVars, phase, handled, claims>>

Idle == phase' = "idle" /\ pdu' = NoPdu /\ at' = 1

\* The test fails: the PDU is answered with the error, nothing is committed.
Refuse ==
    /\ phase = "test" /\ at <= Len(pdu.vbs)
    /\ CASE pdu.kind = "allocate"   -> ~MayAllocate(Vb)
         [] pdu.kind = "deallocate" -> ~MayRelease(pdu.session, Vb)
         [] OTHER -> ~IsSimple(SyntaxOf(Vb)) \/ Candidates(pdu.kind, Vb) = {}
    /\ Idle
    /\ UNCHANGED <<sessionVars, tableVars, handled, claims>>

Tested ==
    /\ phase = "test" /\ at > Len(pdu.vbs)
    /\ phase' = "commit" /\ at' = 1
    /\ UNCHANGED <<sessionVars, tableVars, pdu, handled, claims>>

Commit ==
    /\ phase = "commit" /\ at <= Len(pdu.vbs)
    /\ IF pdu.kind = "deallocate"
       THEN GiveBack(pdu.session, Vb)
       ELSE Take(pdu.session, pdu.kind, Vb)
    /\ at' = at + 1
    /\ UNCHANGED <<sessionVars, phase, pdu, handled, claims>>

Committed ==
    /\ phase = "commit" /\ at > Len(pdu.vbs)
    /\ phase' = "answer" /\ at' = 1
    /\ UNCHANGED <<sessionVars, tableVars, pdu, handled, claims>>

\* The answer tells the subagent which values it owns.
Answer ==
    /\ phase = "answer"
    /\ claims' = IF pdu.kind = "deallocate"
                 THEN claims
                 ELSE [claims EXCEPT ![pdu.session] =
                         @ \union (Named(pdu) \intersect (Indexes \X Values))]
    /\ Idle
    /\ UNCHANGED <<sessionVars, tableVars, handled>>

-----------------------------------------------------------------------------
(* Sessions *)

Open(s) ==
    /\ MasterFree /\ s \notin opened
    /\ opened' = opened \union {s}
    /\ openSessions' = openSessions \union {s}
    /\ UNCHANGED <<closing, tableVars, handlerVars>>

\* The master thread starts a closing only between two PDUs; a manager may
\* remove the session's row at any time.
StartClosing(s, way) ==
    /\ way # "admin" => MasterFree
    /\ way = "closePdu" => ~Silent(s)
    /\ s \in openSessions
    /\ \A c \in closing : <<c.session, c.way>> # <<s, way>>
    /\ closing' = closing \union {[session |-> s, way |-> way, left |-> Duties[way]]}
    /\ UNCHANGED <<openSessions, opened, tableVars, handlerVars>>

Duty(c, duty) == c \in closing /\ Head(c.left) = duty

\* The closing goes on with what is left to do.
GoOn(c) == closing' = (closing \ {c}) \union
             (IF Len(c.left) = 1 THEN {} ELSE {[c EXCEPT !.left = Tail(@)]})

\* openSessions.remove, or remove_sessions_of_peer
Unlist(c) ==
    /\ Duty(c, "unlist") /\ c.session \in openSessions
    /\ openSessions' = openSessions \ {c.session}
    /\ GoOn(c)
    /\ UNCHANGED <<opened, tableVars, handlerVars>>

\* Another thread has taken the session out of openSessions already.
AlreadyClosed(c) ==
    /\ Duty(c, "unlist") /\ c.session \notin openSessions
    /\ closing' = closing \ {c}
    /\ UNCHANGED <<openSessions, opened, tableVars, handlerVars>>

\* remove_indexes
RemoveIndexes(c) ==
    /\ Duty(c, "purge")
    /\ Purge(c.session)
    /\ GoOn(c)
    /\ UNCHANGED <<openSessions, opened, handlerVars>>

MasterStep == Test \/ Refuse \/ Tested \/ Commit \/ Committed \/ Answer
ClosingStep == \E c \in closing : Unlist(c) \/ AlreadyClosed(c) \/ RemoveIndexes(c)

\* The master waits for PDUs; there may be none.
Wait == phase = "idle" /\ closing = {} /\ UNCHANGED vars

Next ==
    \/ \E p \in Pdus : Receive(p)
    \/ MasterStep
    \/ \E s \in Sessions : Open(s)
    \/ \E s \in Sessions, way \in Closings : StartClosing(s, way)
    \/ ClosingStep
    \/ Wait

Spec == Init /\ [][Next]_vars

\* The threads of the master and of the pools do not stop.
FairSpec == Spec /\ WF_vars(MasterStep) /\ WF_vars(ClosingStep)

-----------------------------------------------------------------------------
(* Properties *)

\* What a subagent was told it owns it owns: as long as its session is open,
\* no other allocation, release or closing takes the value from it.  Thus no
\* two subagents use the same index value.
ClaimsOwned ==
    \A s \in openSessions : ~Silent(s) =>
        \A c \in claims[s] : owner[c[1]][c[2]] = s

\* An allocated value becomes free before another session gets it.
NoTheft ==
    [][\A i \in Indexes, v \in Values :
          owner[i][v] # NoSession => owner'[i][v] \in {owner[i][v], NoSession}]_vars

\* Some subagent may send a PDU of this kind about index i.
Asked(kind, i) ==
    \E p \in Pdus : p.kind = kind /\ \E k \in 1 .. Len(p.vbs) : p.vbs[k].index = i

\* A value waits for its reuse only while nobody owns it, if nobody allocates
\* values of its index by name.
UsedAreFree ==
    \A i \in Indexes : ~Asked("allocate", i) => used[i] \intersect Allocated(i) = {}

\* any_index: "an index that must not be currently allocated to any other
\* subagent".
AnyIsFree ==
    phase = "commit" /\ pdu.kind = "any" =>
        \A k \in at .. Len(pdu.vbs) :
            owner[pdu.vbs[k].index][pdu.vbs[k].value] \in {pdu.session, NoSession}

\* new_index: "an index that must not have been allocated (even if
\* subsequently released) to any subagent".
NewIsFresh ==
    phase = "commit" /\ pdu.kind = "new" =>
        \A k \in at .. Len(pdu.vbs) :
            <<pdu.vbs[k].index, pdu.vbs[k].value>> \notin handedOut

\* new_index keeps its promise until a session is closed, whatever was
\* allocated by name and released before.
FreshUnlessClosed == opened = openSessions /\ closing = {} => NewIsFresh

\* Who owns a value has an open session, or is being closed, or is the one
\* whose PDU is handled: nothing stays allocated to a closed session.
NoOrphans ==
    \A i \in Indexes, v \in Values :
        \/ owner[i][v] \in openSessions \union {NoSession}
        \/ \E c \in closing : c.session = owner[i][v]
        \/ phase # "idle" /\ pdu.session = owner[i][v]

\* Every value of a closed session becomes free.
ClosedSessionsLoseIndexes ==
    \A s \in Sessions :
        s \in opened \ openSessions ~>
            \A i \in Indexes, v \in Values : owner[i][v] # s
=============================================================================
