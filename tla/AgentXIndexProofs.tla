-------------------------- MODULE AgentXIndexProofs --------------------------
(***************************************************************************)
(* Theorems about AgentXIndex, for every set of sessions and PDUs and      *)
(* every width of an integer.                                              *)
(***************************************************************************)
EXTENDS AgentXIndex, SequenceTheorems, TLAPS

USE IndexAssumption DEF Phases, Kinds, Syntaxes

-----------------------------------------------------------------------------
(* Types *)

LEMMA VbType ==
    ASSUME HandlerOK, phase \in {"test", "commit"}, at <= Len(pdu.vbs)
    PROVE  /\ Vb \in Vbs
           /\ Len(pdu.vbs) \in Nat
           /\ at \in 1 .. Len(pdu.vbs)
           /\ at + 1 \in 1 .. Len(pdu.vbs) + 1
<1>1. pdu.vbs \in Seq(Vbs) /\ at \in 1 .. Len(pdu.vbs) + 1
  BY DEF HandlerOK, PduOK
<1>2. Len(pdu.vbs) \in Nat
  BY <1>1
<1>3. at \in 1 .. Len(pdu.vbs) /\ at + 1 \in 1 .. Len(pdu.vbs) + 1
  BY <1>1, <1>2
<1>4. pdu.vbs[at] \in Vbs
  BY <1>1, <1>3, ElementOfSeq
<1> QED
  BY <1>2, <1>3, <1>4 DEF Vb

LEMMA VbFields ==
    ASSUME NEW vb \in Vbs, TableOK
    PROVE  /\ vb.index \in Indexes
           /\ vb.syntax \in Syntaxes
           /\ vb.value \in Values \union {-1}
           /\ SyntaxOf(vb) \in Syntaxes
BY DEF Vbs, SyntaxOf, TableOK

\* What new_index and any_index write into the PDU.
LEMMA ChooseType ==
    ASSUME TableOK, HandlerOK, phase = "test", at <= Len(pdu.vbs), NEW v \in Values
    PROVE  /\ PduOK(Choose(v))
           /\ Choose(v).kind = pdu.kind /\ Choose(v).session = pdu.session
           /\ Len(Choose(v).vbs) = Len(pdu.vbs)
           /\ \A k \in 1 .. Len(pdu.vbs) : Choose(v).vbs[k] =
                IF k = at THEN [index |-> Vb.index, syntax |-> SyntaxOf(Vb), value |-> v]
                ELSE pdu.vbs[k]
<1> DEFINE vb == [index |-> Vb.index, syntax |-> SyntaxOf(Vb), value |-> v]
<1>1. Vb \in Vbs /\ at \in 1 .. Len(pdu.vbs)
  BY VbType
<1>2. vb \in Vbs
  <2>1. -1 \notin Values
    BY DEF Values
  <2> QED
    BY <1>1, <2>1, VbFields DEF Vbs
<1>3. PduOK(pdu) /\ pdu.vbs \in Seq(Vbs)
  BY DEF HandlerOK, PduOK
<1>4. Choose(v) = [pdu EXCEPT !.vbs = [pdu.vbs EXCEPT ![at] = vb]]
  BY DEF Choose
<1> HIDE DEF vb
<1>5. /\ [pdu.vbs EXCEPT ![at] = vb] \in Seq(Vbs)
      /\ Len([pdu.vbs EXCEPT ![at] = vb]) = Len(pdu.vbs)
      /\ \A k \in 1 .. Len(pdu.vbs) :
            [pdu.vbs EXCEPT ![at] = vb][k] = IF k = at THEN vb ELSE pdu.vbs[k]
  BY <1>1, <1>2, <1>3, ExceptSeq
<1>6. /\ Choose(v).vbs = [pdu.vbs EXCEPT ![at] = vb]
      /\ Choose(v).kind = pdu.kind /\ Choose(v).session = pdu.session
      /\ PduOK(Choose(v))
  BY <1>3, <1>4, <1>5 DEF PduOK
<1> QED
  BY <1>5, <1>6 DEF vb

LEMMA TakeType ==
    ASSUME TableOK, NEW s \in Sessions, NEW kind \in Kinds, NEW vb \in Vbs,
           Take(s, kind, vb)
    PROVE  TableOK'
<1>1. vb.index \in Indexes /\ SyntaxOf(vb) \in Syntaxes
  BY VbFields
<1>2. syntax' \in [Indexes -> Syntaxes \union {"none"}]
  BY <1>1 DEF Take, TableOK
<1>3. owner' \in [Indexes -> [Values -> Sessions \union {NoSession}]]
  <2>1. CASE vb.value \in Values
    <3>1. owner' = [owner EXCEPT ![vb.index] = [@ EXCEPT ![vb.value] = s]]
      BY <2>1 DEF Take
    <3>2. [owner[vb.index] EXCEPT ![vb.value] = s] \in [Values -> Sessions \union {NoSession}]
      BY <1>1 DEF TableOK
    <3> QED
      BY <3>1, <3>2 DEF TableOK
  <2>2. CASE vb.value \notin Values
    BY <2>2 DEF Take, TableOK
  <2> QED
    BY <2>1, <2>2
<1>4. used' \in [Indexes -> SUBSET Values]
  BY <1>1 DEF Take, TableOK
<1>5. handedOut' \subseteq Indexes \X Values
  BY <1>1 DEF Take, TableOK
<1> QED
  BY <1>2, <1>3, <1>4, <1>5 DEF TableOK

LEMMA GiveBackType ==
    ASSUME TableOK, NEW s \in Sessions, NEW vb \in Vbs, GiveBack(s, vb)
    PROVE  TableOK'
<1>1. CASE MayRelease(s, vb)
  <2>1. vb.index \in Indexes /\ vb.value \in Values
    BY <1>1, VbFields DEF MayRelease
  <2>2. owner' \in [Indexes -> [Values -> Sessions \union {NoSession}]]
    BY <1>1, <2>1 DEF GiveBack, TableOK
  <2>3. used' \in [Indexes -> SUBSET Values]
    BY <1>1, <2>1 DEF GiveBack, TableOK
  <2> QED
    BY <1>1, <2>2, <2>3 DEF GiveBack, TableOK
<1>2. CASE ~MayRelease(s, vb)
  BY <1>2 DEF GiveBack, TableOK, tableVars
<1> QED
  BY <1>1, <1>2

LEMMA PurgeType ==
    ASSUME TableOK, NEW s \in Sessions, Purge(s)
    PROVE  TableOK'
BY DEF Purge, TableOK

LEMMA ClosingType ==
    ASSUME SessionsOK, NEW c \in closing
    PROVE  /\ c.session \in opened /\ c.session \in Sessions /\ c.way \in Closings
           /\ c.left \in {<<"purge", "unlist">>, <<"unlist", "purge">>,
                          <<"purge">>, <<"unlist">>}
BY DEF SessionsOK

\* What is left to do after a duty.
LEMMA GoOnLeft ==
    ASSUME SessionsOK, NEW c \in closing, GoOn(c)
    PROVE  \/ c.left \in {<<"purge">>, <<"unlist">>} /\ closing' = closing \ {c}
           \/ /\ c.left = <<"purge", "unlist">>
              /\ closing' = (closing \ {c}) \union {[c EXCEPT !.left = <<"unlist">>]}
           \/ /\ c.left = <<"unlist", "purge">>
              /\ closing' = (closing \ {c}) \union {[c EXCEPT !.left = <<"purge">>]}
<1>1. CASE c.left = <<"purge", "unlist">>
  BY <1>1 DEF GoOn
<1>2. CASE c.left = <<"unlist", "purge">>
  BY <1>2 DEF GoOn
<1>3. CASE c.left \in {<<"purge">>, <<"unlist">>}
  BY <1>3 DEF GoOn
<1> QED
  BY <1>1, <1>2, <1>3, ClosingType

LEMMA GoOnType ==
    ASSUME SessionsOK, NEW c \in closing, GoOn(c), UNCHANGED opened,
           openSessions' \subseteq openSessions
    PROVE  SessionsOK'
BY GoOnLeft DEF SessionsOK

-----------------------------------------------------------------------------
(* Type correctness *)

\* The master keeps its tables, the PDU it handles and its closings well
\* typed, new_index and any_index write values into the PDU that an index may
\* have, and the negative value of an int32 is never recorded.
THEOREM TypeCorrect == Spec => []TypeOK
<1>1. Init => TypeOK
  BY DEF Init, TypeOK, SessionsOK, TableOK, HandlerOK
<1>2. ASSUME TypeOK, [Next]_vars
      PROVE  TypeOK'
  <2> USE <1>2 DEF TypeOK
  <2>1. ASSUME NEW p \in Pdus, Receive(p)
        PROVE  TypeOK'
    <3>1. PduOK(p)
      BY DEF PduOK
    <3>2. 1 \in 1 .. Len(p.vbs) + 1
      BY <3>1 DEF PduOK
    <3>3. handled + 1 \in 0 .. MaxPdus
      BY <2>1 DEF Receive, HandlerOK
    <3>4. claims' \in [Sessions -> SUBSET (Indexes \X Values)]
      BY <2>1, <3>1 DEF Receive, HandlerOK, PduOK
    <3>5. HandlerOK'
      BY <2>1, <3>1, <3>2, <3>3, <3>4 DEF Receive, HandlerOK
    <3> QED
      BY <2>1, <3>5 DEF Receive, SessionsOK, TableOK, sessionVars, tableVars
  <2>2. CASE Test
    <3>1. pdu' = pdu \/ \E v \in Values : pdu' = Choose(v)
      BY <2>2 DEF Test
    <3>2. PduOK(pdu') /\ Len(pdu'.vbs) = Len(pdu.vbs)
      <4>1. CASE pdu' = pdu
        BY <2>2, <4>1 DEF Test, HandlerOK
      <4>2. ASSUME NEW v \in Values, pdu' = Choose(v)
            PROVE  PduOK(pdu') /\ Len(pdu'.vbs) = Len(pdu.vbs)
        BY <2>2, <4>2, ChooseType DEF Test
      <4> QED
        BY <3>1, <4>1, <4>2
    <3>3. HandlerOK'
      BY <2>2, <3>2, VbType DEF Test, HandlerOK
    <3> QED
      BY <2>2, <3>3 DEF Test, SessionsOK, TableOK, sessionVars, tableVars
  <2>3. CASE Refuse
    BY <2>3 DEF Refuse, Idle, SessionsOK, TableOK, HandlerOK, sessionVars, tableVars
  <2>4. CASE Tested
    <3>1. 1 \in 1 .. Len(pdu.vbs) + 1
      BY <2>4 DEF Tested, HandlerOK, PduOK
    <3> QED
      BY <2>4, <3>1 DEF Tested, SessionsOK, TableOK, HandlerOK, sessionVars, tableVars
  <2>5. CASE Commit
    <3>1. Vb \in Vbs /\ pdu.session \in Sessions /\ pdu.kind \in Kinds
      BY <2>5, VbType DEF Commit, HandlerOK, PduOK
    <3>2. TableOK'
      BY <2>5, <3>1, TakeType, GiveBackType DEF Commit
    <3>3. HandlerOK'
      BY <2>5, VbType DEF Commit, HandlerOK
    <3> QED
      BY <2>5, <3>2, <3>3 DEF Commit, SessionsOK, sessionVars
  <2>6. CASE Committed
    BY <2>6 DEF Committed, SessionsOK, TableOK, HandlerOK, sessionVars, tableVars
  <2>7. CASE Answer
    <3>1. claims' \in [Sessions -> SUBSET (Indexes \X Values)]
      BY <2>7 DEF Answer, HandlerOK, PduOK
    <3> QED
      BY <2>7, <3>1 DEF Answer, Idle, SessionsOK, TableOK, HandlerOK, sessionVars, tableVars
  <2>8. ASSUME NEW s \in Sessions, Open(s)
        PROVE  TypeOK'
    BY <2>8 DEF Open, SessionsOK, TableOK, HandlerOK, tableVars, handlerVars
  <2>9. ASSUME NEW s \in Sessions, NEW way \in Closings, StartClosing(s, way)
        PROVE  TypeOK'
    <3>1. Duties[way] \in {<<"purge", "unlist">>, <<"unlist", "purge">>}
      BY DEF Duties
    <3>2. SessionsOK'
      BY <2>9, <3>1 DEF StartClosing, SessionsOK
    <3> QED
      BY <2>9, <3>2 DEF StartClosing, TableOK, HandlerOK, tableVars, handlerVars
  <2>10. ASSUME NEW c \in closing, Unlist(c)
         PROVE  TypeOK'
    <3>1. SessionsOK'
      BY <2>10, GoOnType DEF Unlist
    <3> QED
      BY <2>10, <3>1 DEF Unlist, TableOK, HandlerOK, tableVars, handlerVars
  <2>11. ASSUME NEW c \in closing, AlreadyClosed(c)
         PROVE  TypeOK'
    BY <2>11 DEF AlreadyClosed, SessionsOK, TableOK, HandlerOK, tableVars, handlerVars
  <2>12. ASSUME NEW c \in closing, RemoveIndexes(c)
         PROVE  TypeOK'
    <3>1. SessionsOK' /\ TableOK'
      BY <2>12, GoOnType, PurgeType, ClosingType DEF RemoveIndexes
    <3> QED
      BY <2>12, <3>1 DEF RemoveIndexes, HandlerOK, handlerVars
  <2>13. CASE UNCHANGED vars
    BY <2>13 DEF vars, sessionVars, tableVars, handlerVars, SessionsOK, TableOK, HandlerOK
  <2> QED
    BY <2>1, <2>2, <2>3, <2>4, <2>5, <2>6, <2>7, <2>8, <2>9, <2>10, <2>11, <2>12, <2>13
       DEF Next, MasterStep, ClosingStep, Wait
<1> QED
  BY <1>1, <1>2, PTL DEF Spec

-----------------------------------------------------------------------------
(* Exclusive ownership *)

\* What the subagents send: a PDU names an index at most once and asks for no
\* unsigned index, and not both explicit and arbitrary values of an index are
\* asked for.  Without the second new_index may wrap, without the third
\* any_index may give away a value that was released and then allocated
\* explicitly.
WellBehaved ==
    /\ \A p \in Pdus : \A j, k \in 1 .. Len(p.vbs) :
          p.vbs[j].index = p.vbs[k].index => j = k
    /\ \A p \in Pdus : \A k \in 1 .. Len(p.vbs) : p.vbs[k].syntax # "gauge32"
    /\ \A i \in Indexes : ~(Asked("allocate", i) /\ Asked("any", i))

Active(s) == s \in openSessions /\ ~Silent(s)

\* A closing removes the indexes of a session that is silent or not open.
ClosingsOK ==
    \A c \in closing : /\ c.left = <<"purge">> => c.session \notin openSessions
                       /\ c.left = <<"purge", "unlist">> => c.way = "closePdu"

OpenedOK ==
    /\ \A s \in Sessions \ opened : claims[s] = {}
    /\ phase # "idle" => pdu.session \in opened

\* The PDU still is one that a subagent sent.
PduKept ==
    phase # "idle" =>
        /\ \A j, k \in 1 .. Len(pdu.vbs) : pdu.vbs[j].index = pdu.vbs[k].index => j = k
        /\ \A k \in 1 .. Len(pdu.vbs) : pdu.vbs[k].syntax # "gauge32"
        /\ \A k \in 1 .. Len(pdu.vbs) : Asked(pdu.kind, pdu.vbs[k].index)
        /\ pdu.kind = "deallocate" => claims[pdu.session] \intersect Named(pdu) = {}

\* No index is unsigned, and one without a syntax has no values.
IndexesOK ==
    \A i \in Indexes :
        /\ syntax[i] # "gauge32"
        /\ syntax[i] = "none" => used[i] = {} /\ \A v \in Values : owner[i][v] = NoSession

\* A binding that passed the test keeps its value free until the commit ...
Reserved(vb) ==
    /\ pdu.kind # "deallocate" /\ vb.value \in Values => owner[vb.index][vb.value] = NoSession
    /\ pdu.kind \in {"new", "any"} /\ vb.value \in used[vb.index] =>
          pdu.kind = "any" /\ IsLeast(vb.value, used[vb.index])

\* ... and owned from the commit on.
Owned(vb) ==
    pdu.kind # "deallocate" /\ vb.value \in Values =>
        owner[vb.index][vb.value] = pdu.session \/ ~Active(pdu.session)

BindingsOK ==
    /\ phase = "test" => \A k \in 1 .. Len(pdu.vbs) : k < at => Reserved(pdu.vbs[k])
    /\ phase = "commit" => \A k \in 1 .. Len(pdu.vbs) :
          IF k < at THEN Owned(pdu.vbs[k]) ELSE Reserved(pdu.vbs[k])
    /\ phase = "answer" => \A k \in 1 .. Len(pdu.vbs) : Owned(pdu.vbs[k])

IInv == /\ TypeOK /\ ClosingsOK /\ OpenedOK /\ PduKept /\ IndexesOK /\ UsedAreFree
        /\ BindingsOK /\ ClaimsOwned

-----------------------------------------------------------------------------
(* Sessions *)

LEMMA DutyLeft ==
    ASSUME SessionsOK, NEW c \in closing, NEW duty, Duty(c, duty)
    PROVE  /\ duty = "unlist" => c.left \in {<<"unlist">>, <<"unlist", "purge">>}
           /\ duty = "purge" => c.left \in {<<"purge">>, <<"purge", "unlist">>}
<1>1. Head(c.left) = duty
  BY DEF Duty
<1>2. /\ Head(<<"unlist">>) = "unlist" /\ Head(<<"unlist", "purge">>) = "unlist"
      /\ Head(<<"purge">>) = "purge" /\ Head(<<"purge", "unlist">>) = "purge"
  OBVIOUS
<1> QED
  BY <1>1, <1>2, ClosingType

\* The closings keep their order, and no closed or closing session becomes
\* active again.
LEMMA SessionSteps ==
    ASSUME SessionsOK, ClosingsOK, [Next]_vars
    PROVE  /\ ClosingsOK'
           /\ opened \subseteq opened'
           /\ \A s \in Sessions : Active(s)' => Active(s) \/ s \notin opened
<1> DEFINE Goal == /\ ClosingsOK'
                   /\ opened \subseteq opened'
                   /\ \A s \in Sessions : Active(s)' => Active(s) \/ s \notin opened
<1>1. CASE UNCHANGED sessionVars
  BY <1>1 DEF sessionVars, ClosingsOK, Active, Silent
<1>2. ASSUME NEW s \in Sessions, Open(s)
      PROVE  Goal
  BY <1>2 DEF Open, ClosingsOK, SessionsOK, Active, Silent
<1>3. ASSUME NEW s \in Sessions, NEW way \in Closings, StartClosing(s, way)
      PROVE  Goal
  <2> DEFINE d == [session |-> s, way |-> way, left |-> Duties[way]]
  <2>1. closing' = closing \union {d} /\ UNCHANGED <<openSessions, opened>>
    BY <1>3 DEF StartClosing
  <2>2. d.left # <<"purge">> /\ (d.left = <<"purge", "unlist">> => d.way = "closePdu")
    BY DEF Duties
  <2>3. ClosingsOK'
    BY <2>1, <2>2 DEF ClosingsOK
  <2> QED
    BY <2>1, <2>3 DEF Active, Silent
<1>4. ASSUME NEW c \in closing, Unlist(c)
      PROVE  Goal
  <2>1. /\ openSessions' = openSessions \ {c.session} /\ UNCHANGED opened
        /\ c.left \in {<<"unlist">>, <<"unlist", "purge">>}
        /\ GoOn(c)
    BY <1>4, DutyLeft DEF Unlist
  <2>2. CASE closing' = closing \ {c}
    BY <2>1, <2>2 DEF ClosingsOK, Active, Silent
  <2>3. CASE closing' = (closing \ {c}) \union {[c EXCEPT !.left = <<"purge">>]}
    <3>1. [c EXCEPT !.left = <<"purge">>].session = c.session
      BY DEF SessionsOK
    <3>2. [c EXCEPT !.left = <<"purge">>].left = <<"purge">>
      BY DEF SessionsOK
    <3>3. <<"purge">> # <<"purge", "unlist">>
      OBVIOUS
    <3>4. ClosingsOK'
      BY <2>1, <2>3, <3>1, <3>2, <3>3 DEF ClosingsOK
    <3> QED
      BY <2>1, <2>3, <3>4 DEF Active, Silent
  <2> QED
    BY <2>1, <2>2, <2>3, GoOnLeft
<1>5. ASSUME NEW c \in closing, AlreadyClosed(c)
      PROVE  Goal
  BY <1>5 DEF AlreadyClosed, ClosingsOK, Active, Silent
<1>6. ASSUME NEW c \in closing, RemoveIndexes(c)
      PROVE  Goal
  <2>1. /\ UNCHANGED <<openSessions, opened>>
        /\ c.left \in {<<"purge">>, <<"purge", "unlist">>}
        /\ GoOn(c)
    BY <1>6, DutyLeft DEF RemoveIndexes
  <2>2. CASE c.left = <<"purge">>
    <3>1. closing' = closing \ {c} /\ c.session \notin openSessions
      BY <2>1, <2>2, GoOnLeft DEF ClosingsOK
    <3> QED
      BY <2>1, <3>1 DEF ClosingsOK, Active, Silent
  <2>3. CASE c.left = <<"purge", "unlist">>
    <3> DEFINE d == [c EXCEPT !.left = <<"unlist">>]
    <3>1. closing' = (closing \ {c}) \union {d}
      BY <2>1, <2>3, GoOnLeft
    <3>2. d.session = c.session /\ d.way = c.way /\ d.left = <<"unlist">>
      BY DEF SessionsOK
    <3>3. <<"unlist">> # <<"purge">> /\ <<"unlist">> # <<"purge", "unlist">>
      OBVIOUS
    <3>4. ClosingsOK'
      BY <2>1, <3>1, <3>2, <3>3 DEF ClosingsOK
    <3> HIDE DEF d
    <3> QED
      BY <2>1, <3>1, <3>2, <3>4 DEF Active, Silent
  <2> QED
    BY <2>1, <2>2, <2>3
<1> QED
  BY <1>1, <1>2, <1>3, <1>4, <1>5, <1>6
     DEF Next, MasterStep, ClosingStep, Wait, vars, Receive, Test, Refuse, Tested,
         Commit, Committed, Answer

\* The session a closing removes the indexes of is not active.
LEMMA PurgedInactive ==
    ASSUME SessionsOK, ClosingsOK, NEW c \in closing, RemoveIndexes(c)
    PROVE  ~Active(c.session)
<1>1. c.left \in {<<"purge">>, <<"purge", "unlist">>}
  BY DutyLeft DEF RemoveIndexes
<1> QED
  BY <1>1 DEF ClosingsOK, Active, Silent

-----------------------------------------------------------------------------
(* Steps that leave the tables and the handler alone *)

LEMMA BindingType ==
    ASSUME HandlerOK, phase # "idle", NEW k \in 1 .. Len(pdu.vbs)
    PROVE  /\ pdu.vbs[k] \in Vbs
           /\ pdu.vbs[k].index \in Indexes
           /\ pdu.vbs[k].syntax \in Syntaxes
           /\ pdu.vbs[k].value \in Values \union {-1}
<1>1. pdu.vbs \in Seq(Vbs)
  BY DEF HandlerOK, PduOK
<1>2. pdu.vbs[k] \in Vbs
  BY <1>1, ElementOfSeq
<1> QED
  BY <1>2 DEF Vbs

LEMMA OtherSteps ==
    ASSUME IInv, [Next]_vars, UNCHANGED <<tableVars, handlerVars>>, TypeOK'
    PROVE  IInv'
<1> USE DEF IInv, tableVars, handlerVars
<1>1. /\ ClosingsOK' /\ opened \subseteq opened'
      /\ \A s \in Sessions : Active(s)' => Active(s) \/ s \notin opened
  BY SessionSteps DEF TypeOK
<1>2. phase # "idle" => pdu.session \in opened /\ pdu.session \in Sessions
  BY DEF OpenedOK, TypeOK, HandlerOK, PduOK
<1>3. OpenedOK'
  BY <1>1, <1>2 DEF OpenedOK
<1>4. PduKept' /\ IndexesOK' /\ UsedAreFree'
  BY DEF PduKept, Named, IndexesOK, UsedAreFree, Allocated
<1>5. BindingsOK'
  <2>1. \A vb : Reserved(vb)' = Reserved(vb)
    BY DEF Reserved, IsLeast
  <2>2. \A vb : phase # "idle" /\ Owned(vb) => Owned(vb)'
    BY <1>1, <1>2 DEF Owned
  <2>3. Len(pdu'.vbs) = Len(pdu.vbs) /\ phase' = phase /\ at' = at /\ pdu' = pdu
    OBVIOUS
  <2> QED
    BY <2>1, <2>2, <2>3 DEF BindingsOK
<1>6. ClaimsOwned'
  <2> SUFFICES ASSUME NEW s \in Sessions, Active(s)', NEW c \in claims[s]
               PROVE  owner[c[1]][c[2]] = s
    BY DEF ClaimsOwned, Active, TypeOK, SessionsOK
  <2>1. Active(s)
    BY <1>1 DEF OpenedOK
  <2> QED
    BY <2>1 DEF ClaimsOwned, Active
<1> QED
  BY <1>1, <1>3, <1>4, <1>5, <1>6

-----------------------------------------------------------------------------
(* The handler *)

LEMMA ReceiveStep ==
    ASSUME WellBehaved, IInv, NEW p \in Pdus, Receive(p), TypeOK'
    PROVE  IInv'
<1> USE DEF IInv
<1>1. /\ pdu' = p /\ phase' = "test" /\ at' = 1 /\ p.session \in openSessions
      /\ UNCHANGED <<openSessions, opened, closing, syntax, owner, used, handedOut>>
      /\ \A s \in Sessions : claims'[s] \subseteq claims[s]
  BY DEF Receive, sessionVars, tableVars, TypeOK, HandlerOK
<1>2. ClosingsOK' /\ IndexesOK' /\ UsedAreFree'
  BY <1>1 DEF ClosingsOK, IndexesOK, UsedAreFree, Allocated
<1>3. OpenedOK'
  BY <1>1 DEF OpenedOK, TypeOK, SessionsOK
<1>4. PduKept'
  <2>1. p.kind = "deallocate" => claims'[p.session] \intersect Named(p) = {}
    BY DEF Receive, TypeOK, HandlerOK
  <2>2. \A k \in 1 .. Len(p.vbs) : Asked(p.kind, p.vbs[k].index)
    BY DEF Asked
  <2> QED
    BY <1>1, <2>1, <2>2 DEF PduKept, WellBehaved, Named
<1>5. BindingsOK'
  BY <1>1 DEF BindingsOK
<1>6. ClaimsOwned'
  <2> SUFFICES ASSUME NEW s \in openSessions', ~Silent(s)', NEW c \in claims'[s]
               PROVE  owner'[c[1]][c[2]] = s
    BY DEF ClaimsOwned
  <2>1. s \in openSessions /\ ~Silent(s) /\ c \in claims[s]
    BY <1>1 DEF Silent, TypeOK, SessionsOK
  <2> QED
    BY <1>1, <2>1 DEF ClaimsOwned
<1> QED
  BY <1>2, <1>3, <1>4, <1>5, <1>6

\* What the test accepts is free.
LEMMA TestReserves ==
    ASSUME WellBehaved, IInv, Test
    PROVE  LET vb == pdu'.vbs[at]
           IN /\ vb.index = Vb.index
              /\ vb.syntax # "gauge32"
              /\ pdu.kind # "deallocate" /\ vb.value \in Values =>
                    owner[vb.index][vb.value] = NoSession
              /\ pdu.kind \in {"new", "any"} /\ vb.value \in used[vb.index] =>
                    pdu.kind = "any" /\ IsLeast(vb.value, used[vb.index])
<1> USE DEF IInv
<1>1. /\ Vb \in Vbs /\ at \in 1 .. Len(pdu.vbs) /\ Vb = pdu.vbs[at] /\ pdu.kind \in Kinds
  BY VbType DEF Test, TypeOK, HandlerOK, PduOK, Vb
<1>2. Vb.index \in Indexes /\ Vb.syntax # "gauge32" /\ syntax[Vb.index] # "gauge32"
  BY <1>1, VbFields DEF PduKept, Test, IndexesOK, TypeOK
<1>3. CASE pdu.kind = "allocate"
  <2>1. MayAllocate(Vb) /\ pdu' = pdu
    BY <1>3 DEF Test
  <2>2. Vb.value \in Values => owner[Vb.index][Vb.value] = NoSession
    BY <1>2, <2>1 DEF MayAllocate, Allocated, IndexesOK
  <2> QED
    BY <1>1, <1>2, <1>3, <2>1, <2>2
<1>4. CASE pdu.kind = "deallocate"
  BY <1>1, <1>2, <1>4 DEF Test
<1>5. CASE pdu.kind \in {"new", "any"}
  <2>1. PICK v \in Values : IsLeast(v, Candidates(pdu.kind, Vb)) /\ pdu' = Choose(v)
    BY <1>5 DEF Test
  <2>2. pdu'.vbs[at] = [index |-> Vb.index, syntax |-> SyntaxOf(Vb), value |-> v]
    BY <1>1, <2>1, ChooseType DEF Test, TypeOK
  <2>3. SyntaxOf(Vb) # "gauge32"
    BY <1>2 DEF SyntaxOf
  <2>4. v \in Candidates(pdu.kind, Vb)
    BY <2>1 DEF IsLeast
  <2>5. ASSUME v \in NewCandidates(Vb)
        PROVE  owner[Vb.index][v] = NoSession /\ v \notin used[Vb.index]
    <3>1. v \in Values \ used[Vb.index] /\ \A w \in Allocated(Vb.index) : w < v
      BY <2>3, <2>5 DEF NewCandidates
    <3>2. ~(v < v)
      BY DEF Values
    <3> QED
      BY <3>1, <3>2 DEF Allocated
  <2>6. CASE pdu.kind = "any" /\ used[Vb.index] # {}
    <3>1. IsLeast(v, used[Vb.index])
      BY <2>1, <2>6 DEF Candidates, AnyCandidates
    <3>2. ~Asked("allocate", Vb.index)
      BY <1>1, <1>2, <2>6 DEF PduKept, WellBehaved, Test
    <3>3. owner[Vb.index][v] = NoSession
      BY <1>2, <3>1, <3>2 DEF UsedAreFree, Allocated, IsLeast
    <3> QED
      BY <1>2, <2>2, <2>3, <2>6, <3>1, <3>3
  <2>7. CASE ~(pdu.kind = "any" /\ used[Vb.index] # {})
    <3>1. v \in NewCandidates(Vb)
      BY <1>5, <2>4, <2>7 DEF Candidates, AnyCandidates
    <3> QED
      BY <1>2, <2>2, <2>3, <2>5, <3>1
  <2> QED
    BY <2>6, <2>7
<1> QED
  BY <1>1, <1>3, <1>4, <1>5

LEMMA TestStep ==
    ASSUME WellBehaved, IInv, Test, TypeOK'
    PROVE  IInv'
<1> USE DEF IInv
<1>1. /\ at \in 1 .. Len(pdu.vbs) /\ Vb = pdu.vbs[at] /\ PduOK(pdu) /\ Len(pdu.vbs) \in Nat
      /\ phase = "test" /\ phase' = "test" /\ at' = at + 1
      /\ UNCHANGED <<openSessions, opened, closing, syntax, owner, used, handedOut, claims>>
  BY VbType DEF Test, TypeOK, HandlerOK, Vb, sessionVars, tableVars
<1>2. /\ Len(pdu'.vbs) = Len(pdu.vbs)
      /\ pdu'.kind = pdu.kind /\ pdu'.session = pdu.session
      /\ \A k \in 1 .. Len(pdu.vbs) : k # at => pdu'.vbs[k] = pdu.vbs[k]
      /\ pdu.kind = "deallocate" => pdu' = pdu
  <2>1. CASE pdu' = pdu
    BY <2>1
  <2>2. ASSUME NEW v \in Values, pdu' = Choose(v), pdu.kind # "deallocate"
        PROVE  <1>2!1 /\ <1>2!2 /\ <1>2!3 /\ <1>2!4
    BY <1>1, <2>2, ChooseType DEF TypeOK, Test
  <2> QED
    BY <2>1, <2>2 DEF Test
<1>3. ClosingsOK' /\ IndexesOK' /\ UsedAreFree' /\ OpenedOK'
  BY <1>1, <1>2 DEF ClosingsOK, IndexesOK, UsedAreFree, Allocated, OpenedOK
<1>4. PduKept'
  <2>1. \A k \in 1 .. Len(pdu.vbs) : pdu'.vbs[k].index = pdu.vbs[k].index
    BY <1>1, <1>2, TestReserves
  <2>2. \A k \in 1 .. Len(pdu.vbs) : pdu'.vbs[k].syntax # "gauge32"
    BY <1>1, <1>2, TestReserves DEF PduKept
  <2>3. pdu.kind = "deallocate" => Named(pdu') = Named(pdu)
    BY <1>2
  <2>4. \A k \in 1 .. Len(pdu.vbs) : Asked(pdu'.kind, pdu'.vbs[k].index)
    BY <1>1, <1>2, <2>1 DEF PduKept
  <2>5. pdu'.kind = "deallocate" => claims'[pdu'.session] \intersect Named(pdu') = {}
    BY <1>1, <1>2, <2>3 DEF PduKept
  <2>6. \A j, k \in 1 .. Len(pdu'.vbs) : pdu'.vbs[j].index = pdu'.vbs[k].index => j = k
    BY <1>1, <1>2, <2>1 DEF PduKept
  <2> QED
    BY <1>2, <2>2, <2>4, <2>5, <2>6 DEF PduKept, Named
<1>5. BindingsOK'
  <2> SUFFICES ASSUME NEW k \in 1 .. Len(pdu.vbs), k < at + 1
               PROVE  Reserved(pdu.vbs[k])'
    BY <1>1, <1>2 DEF BindingsOK
  <2>1. CASE k = at
    BY <1>1, <1>2, <2>1, TestReserves DEF Reserved, IsLeast
  <2>2. CASE k # at
    <3>1. k < at
      BY <1>1, <2>2
    <3>2. Reserved(pdu.vbs[k])
      BY <1>1, <3>1 DEF BindingsOK
    <3> QED
      BY <1>1, <1>2, <2>2, <3>2 DEF Reserved, IsLeast
  <2> QED
    BY <2>1, <2>2
<1>6. ClaimsOwned'
  BY <1>1 DEF ClaimsOwned, Silent
<1> QED
  BY <1>3, <1>4, <1>5, <1>6

LEMMA CommitTake ==
    ASSUME WellBehaved, IInv, Commit, pdu.kind # "deallocate", TypeOK'
    PROVE  /\ IInv'
           /\ \A i \in Indexes, v \in Values :
                 owner[i][v] # NoSession => owner'[i][v] = owner[i][v]
<1> USE DEF IInv
<1> DEFINE s == pdu.session
           i0 == Vb.index
           v0 == Vb.value
<1>1. /\ at \in 1 .. Len(pdu.vbs) /\ Vb = pdu.vbs[at] /\ PduOK(pdu) /\ Len(pdu.vbs) \in Nat
      /\ phase = "commit" /\ phase' = "commit" /\ at' = at + 1 /\ s \in Sessions
      /\ UNCHANGED <<openSessions, opened, closing, claims, pdu>>
      /\ i0 \in Indexes /\ v0 \in Values \union {-1} /\ pdu.kind \in Kinds
  BY VbType, BindingType DEF Commit, TypeOK, HandlerOK, Vb, sessionVars, PduOK
<1>2. Reserved(Vb) /\ Take(s, pdu.kind, Vb)
  BY <1>1 DEF BindingsOK, Commit
<1>3. v0 \in Values => owner[i0][v0] = NoSession
  BY <1>2 DEF Reserved
<1>4. \A i \in Indexes, v \in Values :
         owner'[i][v] = IF i = i0 /\ v = v0 THEN s ELSE owner[i][v]
  <2>1. CASE v0 \in Values
    <3>1. owner' = [owner EXCEPT ![i0][v0] = s]
      BY <1>2, <2>1 DEF Take
    <3> QED
      BY <1>1, <2>1, <3>1 DEF TypeOK, TableOK
  <2>2. CASE v0 \notin Values
    BY <1>2, <2>2 DEF Take
  <2> QED
    BY <2>1, <2>2
<1>5. \A i \in Indexes, v \in Values : owner[i][v] # NoSession => owner'[i][v] = owner[i][v]
  BY <1>3, <1>4
<1>6. used' = IF pdu.kind = "any"
              THEN [used EXCEPT ![i0] = {v \in @ : ~IsLeast(v, @)}]
              ELSE used
  BY <1>2 DEF Take
<1>7. \A i \in Indexes : used'[i] \subseteq used[i] /\ (i # i0 => used'[i] = used[i])
  BY <1>1, <1>6 DEF TypeOK, TableOK
<1>8. ClosingsOK' /\ OpenedOK'
  BY <1>1 DEF ClosingsOK, OpenedOK
<1>9. PduKept'
  BY <1>1 DEF PduKept, Named
<1>10. IndexesOK'
  <2>1. SyntaxOf(Vb) \in {"int32", "octets"}
    BY <1>1, VbFields, VbType DEF SyntaxOf, IndexesOK, PduKept, Commit, TypeOK
  <2>2. syntax' = [syntax EXCEPT ![i0] = SyntaxOf(Vb)]
    BY <1>2 DEF Take
  <2>3. \A i \in Indexes : syntax'[i] = IF i = i0 THEN SyntaxOf(Vb) ELSE syntax[i]
    BY <1>1, <2>2 DEF TypeOK, TableOK
  <2>4. ASSUME NEW i \in Indexes
        PROVE  /\ syntax'[i] # "gauge32"
               /\ syntax'[i] = "none" => used'[i] = {} /\ \A v \in Values : owner'[i][v] = NoSession
    BY <1>4, <1>7, <2>1, <2>3 DEF IndexesOK
  <2> QED
    BY <2>4 DEF IndexesOK
<1>11. UsedAreFree'
  <2> SUFFICES ASSUME NEW i \in Indexes, ~Asked("allocate", i), NEW v \in used'[i]
               PROVE  owner'[i][v] = NoSession
    BY DEF UsedAreFree, Allocated
  <2>1. v \in used[i] /\ v \in Values
    BY <1>7 DEF TypeOK, TableOK
  <2>2. owner[i][v] = NoSession
    BY <2>1 DEF UsedAreFree, Allocated
  <2>3. CASE i = i0 /\ v = v0
    <3>1. pdu.kind \in {"new", "any"}
      BY <1>1, <2>3 DEF PduKept
    <3>2. pdu.kind = "any" /\ IsLeast(v, used[i])
      BY <1>2, <2>1, <2>3, <3>1 DEF Reserved
    <3>3. used'[i] = {w \in used[i] : ~IsLeast(w, used[i])}
      BY <1>6, <2>3, <3>2 DEF TypeOK, TableOK
    <3> QED
      BY <3>2, <3>3
  <2>4. CASE ~(i = i0 /\ v = v0)
    BY <1>4, <2>1, <2>2, <2>4
  <2> QED
    BY <2>3, <2>4
<1>12. BindingsOK'
  <2> SUFFICES ASSUME NEW k \in 1 .. Len(pdu.vbs)
               PROVE  IF k < at + 1 THEN Owned(pdu.vbs[k])' ELSE Reserved(pdu.vbs[k])'
    BY <1>1 DEF BindingsOK
  <2>1. CASE k = at
    BY <1>1, <1>4, <2>1 DEF Owned, Active, Silent
  <2>2. CASE k # at
    <3>1. pdu.vbs[k].index # i0 /\ pdu.vbs[k].index \in Indexes
      BY <1>1, <2>2, BindingType DEF PduKept, TypeOK
    <3>2. \A v \in Values : owner'[pdu.vbs[k].index][v] = owner[pdu.vbs[k].index][v]
      BY <1>4, <3>1
    <3>3. used'[pdu.vbs[k].index] = used[pdu.vbs[k].index]
      BY <1>7, <3>1
    <3>4. Owned(pdu.vbs[k]) => Owned(pdu.vbs[k])'
      BY <1>1, <3>2 DEF Owned, Active, Silent
    <3>5. Reserved(pdu.vbs[k]) => Reserved(pdu.vbs[k])'
      BY <1>1, <3>2, <3>3 DEF Reserved, IsLeast
    <3>6. IF k < at THEN Owned(pdu.vbs[k]) ELSE Reserved(pdu.vbs[k])
      BY <1>1 DEF BindingsOK
    <3>7. k < at + 1 <=> k < at
      BY <1>1, <2>2
    <3> QED
      BY <3>4, <3>5, <3>6, <3>7
  <2> QED
    BY <2>1, <2>2
<1>13. ClaimsOwned'
  <2> SUFFICES ASSUME NEW r \in openSessions, ~Silent(r), NEW c \in claims[r]
               PROVE  owner'[c[1]][c[2]] = r
    BY <1>1 DEF ClaimsOwned, Silent
  <2>1. owner[c[1]][c[2]] = r /\ r \in Sessions /\ c[1] \in Indexes /\ c[2] \in Values
    BY DEF ClaimsOwned, TypeOK, SessionsOK, HandlerOK
  <2> QED
    BY <1>5, <2>1
<1> QED
  BY <1>5, <1>8, <1>9, <1>10, <1>11, <1>12, <1>13

LEMMA CommitGiveBack ==
    ASSUME WellBehaved, IInv, Commit, pdu.kind = "deallocate", TypeOK'
    PROVE  /\ IInv'
           /\ \A i \in Indexes, v \in Values : owner'[i][v] \in {owner[i][v], NoSession}
<1> USE DEF IInv
<1> DEFINE s == pdu.session
           i0 == Vb.index
           v0 == Vb.value
<1>1. /\ at \in 1 .. Len(pdu.vbs) /\ Vb = pdu.vbs[at] /\ PduOK(pdu) /\ Len(pdu.vbs) \in Nat
      /\ phase = "commit" /\ phase' = "commit" /\ at' = at + 1 /\ s \in Sessions
      /\ UNCHANGED <<openSessions, opened, closing, claims, pdu>>
      /\ i0 \in Indexes
  BY VbType, BindingType DEF Commit, TypeOK, HandlerOK, Vb, sessionVars, PduOK
<1>2. ClosingsOK' /\ OpenedOK' /\ PduKept'
  BY <1>1 DEF ClosingsOK, OpenedOK, PduKept, Named
<1>3. BindingsOK'
  BY <1>1 DEF BindingsOK, Reserved, Owned
<1>4. CASE ~MayRelease(s, Vb)
  <2>1. UNCHANGED <<syntax, owner, used>>
    BY <1>4 DEF Commit, GiveBack, tableVars
  <2> QED
    BY <1>1, <1>2, <1>3, <2>1
       DEF IndexesOK, UsedAreFree, Allocated, ClaimsOwned, Silent, TypeOK, TableOK
<1>5. CASE MayRelease(s, Vb)
  <2>1. /\ v0 \in Values /\ owner[i0][v0] = s /\ syntax[i0] # "none"
        /\ owner' = [owner EXCEPT ![i0][v0] = NoSession]
        /\ used' = [used EXCEPT ![i0] = @ \union {v0}] \/ used' = used
        /\ UNCHANGED syntax
    BY <1>5 DEF Commit, GiveBack, MayRelease
  <2>2. \A i \in Indexes, v \in Values :
           owner'[i][v] = IF i = i0 /\ v = v0 THEN NoSession ELSE owner[i][v]
    BY <1>1, <2>1 DEF TypeOK, TableOK
  <2>3. \A i \in Indexes : \A v \in used'[i] : v \in used[i] \/ (i = i0 /\ v = v0)
    BY <1>1, <2>1 DEF TypeOK, TableOK
  <2>4. IndexesOK'
    BY <2>1, <2>2, <2>3 DEF IndexesOK
  <2>5. UsedAreFree'
    <3> SUFFICES ASSUME NEW i \in Indexes, ~Asked("allocate", i), NEW v \in used'[i], v \in Values
                 PROVE  owner'[i][v] = NoSession
      BY DEF UsedAreFree, Allocated
    <3> QED
      BY <2>2, <2>3 DEF UsedAreFree, Allocated
  <2>6. ClaimsOwned'
    <3> SUFFICES ASSUME NEW r \in openSessions, ~Silent(r), NEW c \in claims[r]
                 PROVE  owner'[c[1]][c[2]] = r
      BY <1>1 DEF ClaimsOwned, Silent
    <3>1. /\ owner[c[1]][c[2]] = r /\ r \in Sessions /\ c[1] \in Indexes /\ c[2] \in Values
          /\ c = <<c[1], c[2]>>
      BY DEF ClaimsOwned, TypeOK, SessionsOK, HandlerOK
    <3>2. CASE c[1] = i0 /\ c[2] = v0
      <4>1. r = s
        BY <2>1, <3>1, <3>2
      <4>2. c \in Named(pdu)
        BY <1>1, <3>1, <3>2 DEF Named
      <4> QED
        BY <1>1, <4>1, <4>2 DEF PduKept
    <3>3. CASE ~(c[1] = i0 /\ c[2] = v0)
      BY <2>2, <3>1, <3>3
    <3> QED
      BY <3>2, <3>3
  <2> QED
    BY <1>2, <1>3, <2>2, <2>4, <2>5, <2>6
<1> QED
  BY <1>4, <1>5

\* Steps of the handler that change neither the tables nor the claims.
LEMMA PhaseSteps ==
    ASSUME IInv, Refuse \/ Tested \/ Committed, TypeOK'
    PROVE  IInv' /\ UNCHANGED owner
<1> USE DEF IInv
<1>1. /\ UNCHANGED <<openSessions, opened, closing, syntax, owner, used, handedOut, claims>>
      /\ phase' = "idle" \/ (pdu' = pdu /\ phase # "idle" /\ phase' # "idle")
  BY DEF Refuse, Tested, Committed, Idle, sessionVars, tableVars
<1>2. ClosingsOK' /\ OpenedOK' /\ PduKept' /\ IndexesOK' /\ UsedAreFree' /\ ClaimsOwned'
  BY <1>1 DEF ClosingsOK, OpenedOK, PduKept, Named, IndexesOK, UsedAreFree,
              Allocated, ClaimsOwned, Silent
<1>3. BindingsOK'
  <2>1. CASE Refuse
    BY <2>1 DEF Refuse, Idle, BindingsOK
  <2>2. CASE Tested
    <3>1. /\ phase = "test" /\ at > Len(pdu.vbs) /\ at \in Nat /\ Len(pdu.vbs) \in Nat
          /\ phase' = "commit" /\ at' = 1 /\ pdu' = pdu
      BY <2>2 DEF Tested, TypeOK, HandlerOK, PduOK
    <3>2. \A k \in 1 .. Len(pdu.vbs) : Reserved(pdu.vbs[k])
      BY <3>1 DEF BindingsOK
    <3> QED
      BY <1>1, <3>1, <3>2 DEF BindingsOK, Reserved, IsLeast
  <2>3. CASE Committed
    <3>1. /\ phase = "commit" /\ at > Len(pdu.vbs) /\ at \in Nat /\ Len(pdu.vbs) \in Nat
          /\ phase' = "answer" /\ pdu' = pdu
      BY <2>3 DEF Committed, TypeOK, HandlerOK, PduOK
    <3>2. \A k \in 1 .. Len(pdu.vbs) : Owned(pdu.vbs[k])
      BY <3>1 DEF BindingsOK
    <3> QED
      BY <1>1, <3>1, <3>2 DEF BindingsOK, Owned, Active, Silent
  <2> QED
    BY <2>1, <2>2, <2>3
<1> QED
  BY <1>1, <1>2, <1>3

\* The answer tells the subagent nothing that is not so.
LEMMA AnswerStep ==
    ASSUME IInv, Answer, TypeOK'
    PROVE  IInv'
<1> USE DEF IInv
<1>1. /\ UNCHANGED <<openSessions, opened, closing, syntax, owner, used, handedOut>>
      /\ phase = "answer" /\ phase' = "idle" /\ pdu.session \in opened
      /\ pdu.session \in Sessions /\ PduOK(pdu)
  BY DEF Answer, Idle, OpenedOK, TypeOK, HandlerOK, PduOK, sessionVars, tableVars
<1>2. \A s \in Sessions : s # pdu.session => claims'[s] = claims[s]
  BY <1>1 DEF Answer, TypeOK, HandlerOK
<1>3. claims'[pdu.session] =
        IF pdu.kind = "deallocate" THEN claims[pdu.session]
        ELSE claims[pdu.session] \union (Named(pdu) \intersect (Indexes \X Values))
  BY <1>1 DEF Answer, TypeOK, HandlerOK
<1>4. ClosingsOK' /\ PduKept' /\ IndexesOK' /\ UsedAreFree' /\ BindingsOK'
  BY <1>1 DEF ClosingsOK, PduKept, IndexesOK, UsedAreFree, Allocated, BindingsOK
<1>5. OpenedOK'
  BY <1>1, <1>2 DEF OpenedOK
<1>6. ClaimsOwned'
  <2> SUFFICES ASSUME NEW s \in openSessions, ~Silent(s), NEW c \in claims'[s]
               PROVE  owner[c[1]][c[2]] = s
    BY <1>1 DEF ClaimsOwned, Silent
  <2>1. CASE c \in claims[s]
    BY <2>1 DEF ClaimsOwned
  <2>2. CASE c \notin claims[s]
    <3>1. s = pdu.session /\ pdu.kind # "deallocate" /\ c \in Named(pdu) \intersect (Indexes \X Values)
      BY <1>2, <1>3, <2>2 DEF TypeOK, SessionsOK
    <3>2. PICK k \in 1 .. Len(pdu.vbs) : c = <<pdu.vbs[k].index, pdu.vbs[k].value>>
      BY <3>1 DEF Named
    <3>3. Owned(pdu.vbs[k]) /\ pdu.vbs[k].value \in Values
      BY <1>1, <3>1, <3>2 DEF BindingsOK
    <3>4. Active(s)
      BY DEF Active
    <3> QED
      BY <3>1, <3>2, <3>3, <3>4 DEF Owned
  <2> QED
    BY <2>1, <2>2
<1> QED
  BY <1>1, <1>4, <1>5, <1>6

\* What is removed belongs to a session nobody relies on.
LEMMA RemoveStep ==
    ASSUME IInv, [Next]_vars, NEW c \in closing, RemoveIndexes(c), TypeOK'
    PROVE  /\ IInv'
           /\ \A i \in Indexes, v \in Values : owner'[i][v] \in {owner[i][v], NoSession}
<1> USE DEF IInv
<1>1. /\ ClosingsOK' /\ UNCHANGED <<opened, openSessions>>
      /\ \A s \in Sessions : Active(s)' => Active(s) \/ s \notin opened
      /\ UNCHANGED <<phase, pdu, at, handled, claims, syntax, used>>
  BY SessionSteps DEF TypeOK, RemoveIndexes, handlerVars, Purge
<1>2. ~Active(c.session)
  BY PurgedInactive DEF TypeOK
<1>3. \A i \in Indexes, v \in Values :
         owner'[i][v] = IF owner[i][v] = c.session THEN NoSession ELSE owner[i][v]
  BY DEF RemoveIndexes, Purge
<1>4. OpenedOK' /\ PduKept'
  BY <1>1 DEF OpenedOK, PduKept, Named
<1>5. IndexesOK' /\ UsedAreFree'
  BY <1>1, <1>3 DEF IndexesOK, UsedAreFree, Allocated
<1>6. BindingsOK'
  <2>1. ASSUME phase # "idle", NEW k \in 1 .. Len(pdu.vbs)
        PROVE  /\ Reserved(pdu.vbs[k]) => Reserved(pdu.vbs[k])'
               /\ Owned(pdu.vbs[k]) => Owned(pdu.vbs[k])'
    <3>1. pdu.vbs[k].index \in Indexes /\ pdu.session \in opened /\ pdu.session \in Sessions
      BY <2>1, BindingType DEF TypeOK, OpenedOK, HandlerOK, PduOK
    <3>2. Reserved(pdu.vbs[k]) => Reserved(pdu.vbs[k])'
      BY <1>1, <1>3, <3>1 DEF Reserved, IsLeast
    <3>3. Owned(pdu.vbs[k]) => Owned(pdu.vbs[k])'
      BY <1>1, <1>2, <1>3, <3>1 DEF Owned
    <3> QED
      BY <3>2, <3>3
  <2> QED
    BY <1>1, <2>1 DEF BindingsOK
<1>7. ClaimsOwned'
  <2> SUFFICES ASSUME NEW s \in openSessions', ~Silent(s)', NEW d \in claims[s]
               PROVE  owner'[d[1]][d[2]] = s
    BY <1>1 DEF ClaimsOwned
  <2>1. s \in Sessions /\ s \in opened /\ Active(s)
    BY <1>1 DEF TypeOK, SessionsOK, Active
  <2>2. owner[d[1]][d[2]] = s /\ d[1] \in Indexes /\ d[2] \in Values
    BY <2>1 DEF ClaimsOwned, Active, TypeOK, HandlerOK
  <2> QED
    BY <1>2, <1>3, <2>1, <2>2
<1> QED
  BY <1>1, <1>3, <1>4, <1>5, <1>6, <1>7

-----------------------------------------------------------------------------
(* Theorems *)

LEMMA Invariant ==
    ASSUME WellBehaved
    PROVE  Spec => []IInv
<1>1. Init => IInv
  <2> SUFFICES ASSUME Init PROVE IInv
    OBVIOUS
  <2>1. TypeOK
    BY DEF Init, TypeOK, SessionsOK, TableOK, HandlerOK
  <2>2. ClosingsOK /\ OpenedOK /\ PduKept /\ IndexesOK /\ UsedAreFree /\ BindingsOK /\ ClaimsOwned
    BY DEF Init, ClosingsOK, OpenedOK, PduKept, IndexesOK, UsedAreFree, Allocated,
           BindingsOK, ClaimsOwned
  <2> QED
    BY <2>1, <2>2 DEF IInv
<1>2. IInv /\ TypeOK' /\ [Next]_vars => IInv'
  <2> SUFFICES ASSUME IInv, TypeOK', [Next]_vars
               PROVE  IInv'
    OBVIOUS
  <2>1. ASSUME NEW p \in Pdus, Receive(p)
        PROVE  IInv'
    BY <2>1, ReceiveStep
  <2>2. CASE MasterStep
    <3>1. CASE Test
      BY <3>1, TestStep
    <3>2. CASE Refuse \/ Tested \/ Committed
      BY <3>2, PhaseSteps
    <3>3. CASE Commit
      BY <3>3, CommitTake, CommitGiveBack
    <3>4. CASE Answer
      BY <3>4, AnswerStep
    <3> QED
      BY <2>2, <3>1, <3>2, <3>3, <3>4 DEF MasterStep
  <2>3. CASE UNCHANGED <<tableVars, handlerVars>>
    BY <2>3, OtherSteps
  <2>4. ASSUME NEW s \in Sessions, Open(s)
        PROVE  UNCHANGED <<tableVars, handlerVars>>
    BY <2>4 DEF Open
  <2>5. ASSUME NEW s \in Sessions, NEW way \in Closings, StartClosing(s, way)
        PROVE  UNCHANGED <<tableVars, handlerVars>>
    BY <2>5 DEF StartClosing
  <2>6. ASSUME NEW c \in closing, Unlist(c) \/ AlreadyClosed(c)
        PROVE  UNCHANGED <<tableVars, handlerVars>>
    BY <2>6 DEF Unlist, AlreadyClosed
  <2>7. ASSUME NEW c \in closing, RemoveIndexes(c)
        PROVE  IInv'
    BY <2>7, RemoveStep
  <2> QED
    BY <2>1, <2>2, <2>3, <2>4, <2>5, <2>6, <2>7 DEF Next, ClosingStep, Wait, vars
<1> QED
  BY <1>1, <1>2, TypeCorrect, PTL DEF Spec

\* As long as its session is open, a subagent owns every index value it was
\* told it owns, whatever other subagents ask for and however their sessions
\* are closed: AgentXIndexDB keeps each value for one session.
THEOREM ClaimsAreOwned ==
    ASSUME WellBehaved
    PROVE  Spec => []ClaimsOwned
<1>1. IInv => ClaimsOwned
  BY DEF IInv
<1> QED
  BY <1>1, Invariant, PTL

\* No commit, release or closing moves an index value from one session to
\* another: it becomes free first.
THEOREM NothingIsStolen ==
    ASSUME WellBehaved
    PROVE  Spec => NoTheft
<1> DEFINE A == \A i \in Indexes, v \in Values :
                   owner[i][v] # NoSession => owner'[i][v] \in {owner[i][v], NoSession}
<1>1. IInv /\ TypeOK' /\ [Next]_vars => A
  <2> SUFFICES ASSUME IInv, TypeOK', [Next]_vars
               PROVE  A
    OBVIOUS
  <2>1. CASE UNCHANGED tableVars
    BY <2>1 DEF tableVars
  <2>2. CASE Commit
    BY <2>2, CommitTake, CommitGiveBack
  <2>3. ASSUME NEW c \in closing, RemoveIndexes(c)
        PROVE  A
    BY <2>3, RemoveStep
  <2> QED
    BY <2>1, <2>2, <2>3
       DEF Next, MasterStep, ClosingStep, Wait, vars, Receive, Test, Refuse, Tested,
           Committed, Answer, Open, StartClosing, Unlist, AlreadyClosed
<1>2. IInv /\ TypeOK' /\ [Next]_vars => [A]_vars
  BY <1>1
<1> QED
  BY <1>2, Invariant, TypeCorrect, PTL DEF Spec, NoTheft

\* While nobody allocates values of an index by name, those that wait in
\* usedValues for their reuse are allocated to nobody.
THEOREM UsedValuesAreFree ==
    ASSUME WellBehaved
    PROVE  Spec => []UsedAreFree
<1>1. IInv => UsedAreFree
  BY DEF IInv
<1> QED
  BY <1>1, Invariant, PTL

-----------------------------------------------------------------------------
(* Until a session is closed, new_index repeats no value. *)

Untouched == opened = openSessions /\ closing = {}

\* What was handed out is allocated or, if new_index may look for it, used.
Remembered ==
    \A h \in handedOut : \/ owner[h[1]][h[2]] # NoSession
                         \/ h[2] \in used[h[1]]
                         \/ syntax[h[1]] = "octets"

\* any_index takes a new value only if it has no used one, new_index one that
\* nobody had.
Chosen(vb) ==
    /\ pdu.kind = "any" => vb.value \in used[vb.index] \/ used[vb.index] = {}
    /\ pdu.kind = "new" => <<vb.index, vb.value>> \notin handedOut

\* Binding k has passed the test and is not committed yet.
ToCommit(k) == (phase = "test" /\ k < at) \/ (phase = "commit" /\ k >= at)

ChosenOK == \A k \in 1 .. Len(pdu.vbs) : ToCommit(k) => Chosen(pdu.vbs[k])

FreshInv == Untouched => Remembered /\ ChosenOK

\* A closing leaves a session behind that is not open any more.
LEMMA UntouchedBefore ==
    ASSUME IInv, [Next]_vars, Untouched'
    PROVE  Untouched
<1> USE DEF IInv, TypeOK, SessionsOK
<1>1. CASE UNCHANGED sessionVars
  BY <1>1 DEF Untouched, sessionVars
<1>2. ASSUME NEW s \in Sessions, Open(s)
      PROVE  Untouched
  BY <1>2 DEF Open, Untouched
<1>3. ASSUME NEW s \in Sessions, NEW way \in Closings, StartClosing(s, way)
      PROVE  FALSE
  BY <1>3 DEF StartClosing, Untouched
<1>4. ASSUME NEW c \in closing, Unlist(c) \/ AlreadyClosed(c)
      PROVE  FALSE
  BY <1>4 DEF Unlist, AlreadyClosed, Untouched
<1>5. ASSUME NEW c \in closing, RemoveIndexes(c)
      PROVE  FALSE
  <2>1. c.left \in {<<"purge">>, <<"purge", "unlist">>} /\ GoOn(c)
    BY <1>5, DutyLeft DEF RemoveIndexes
  <2>2. CASE c.left = <<"purge">>
    BY <1>5, <2>2 DEF ClosingsOK, RemoveIndexes, Untouched
  <2>3. CASE c.left = <<"purge", "unlist">>
    <3>1. Len(c.left) # 1
      BY <2>3
    <3> QED
      BY <2>1, <3>1 DEF GoOn, Untouched
  <2> QED
    BY <2>1, <2>2, <2>3
<1> QED
  BY <1>1, <1>2, <1>3, <1>4, <1>5
     DEF Next, MasterStep, ClosingStep, Wait, vars, Receive, Test, Refuse, Tested, Commit,
         Committed, Answer

\* What new_index and any_index find
LEMMA TestChooses ==
    ASSUME IInv, Remembered, Test, NEW v \in Values,
           IsLeast(v, Candidates(pdu.kind, Vb)), pdu.kind \in {"new", "any"}, pdu' = Choose(v)
    PROVE  /\ pdu.kind = "any" =>
                 pdu'.vbs[at].value \in used[pdu'.vbs[at].index] \/ used[pdu'.vbs[at].index] = {}
           /\ pdu.kind = "new" => <<pdu'.vbs[at].index, pdu'.vbs[at].value>> \notin handedOut
<1> USE DEF IInv
<1>1. /\ at \in 1 .. Len(pdu.vbs) /\ Vb = pdu.vbs[at] /\ Vb \in Vbs
      /\ UNCHANGED <<syntax, owner, used, handedOut>>
  BY VbType DEF Test, TypeOK, HandlerOK, Vb, tableVars
<1>2. Vb.index \in Indexes /\ Vb.syntax # "gauge32" /\ syntax[Vb.index] # "gauge32"
  BY <1>1, VbFields DEF PduKept, Test, IndexesOK, TypeOK
<1>3. /\ pdu'.vbs[at] = [index |-> Vb.index, syntax |-> SyntaxOf(Vb), value |-> v]
      /\ pdu'.kind = pdu.kind
  BY <1>1, ChooseType DEF Test, TypeOK
<1>4. v \in Candidates(pdu.kind, Vb)
  BY DEF IsLeast
<1>5. CASE pdu.kind = "any"
  BY <1>1, <1>3, <1>4, <1>5 DEF Candidates, AnyCandidates, IsLeast
<1>6. CASE pdu.kind = "new"
  <2>1. SyntaxOf(Vb) # "gauge32" /\ IsSimple(SyntaxOf(Vb))
    BY <1>2, <1>6 DEF SyntaxOf, Test
  <2>2. v \notin used[Vb.index] /\ \A w \in Allocated(Vb.index) : w < v
    BY <1>4, <1>6, <2>1 DEF Candidates, NewCandidates
  <2>3. ~(v < v)
    BY DEF Values
  <2>4. owner[Vb.index][v] = NoSession
    BY <2>2, <2>3 DEF Allocated
  <2>5. syntax[Vb.index] # "octets"
    BY <2>1 DEF SyntaxOf, IsSimple
  <2>6. <<Vb.index, v>> \notin handedOut
    BY <2>2, <2>4, <2>5 DEF Remembered
  <2> QED
    BY <1>1, <1>3, <1>6, <2>6
<1> QED
  BY <1>5, <1>6

LEMMA FreshTest ==
    ASSUME IInv, Remembered, ChosenOK, Test
    PROVE  Remembered' /\ ChosenOK'
<1> USE DEF IInv
<1>1. /\ at \in 1 .. Len(pdu.vbs) /\ Len(pdu.vbs) \in Nat /\ pdu.kind \in Kinds
      /\ phase = "test" /\ phase' = "test" /\ at' = at + 1
      /\ UNCHANGED <<syntax, owner, used, handedOut>>
  BY VbType DEF Test, TypeOK, HandlerOK, PduOK, tableVars
<1>2. Remembered'
  BY <1>1 DEF Remembered
<1>3. CASE pdu.kind \notin {"new", "any"}
  BY <1>1, <1>2, <1>3 DEF Test, ChosenOK, Chosen
<1>4. CASE pdu.kind \in {"new", "any"}
  <2>1. PICK v \in Values : IsLeast(v, Candidates(pdu.kind, Vb)) /\ pdu' = Choose(v)
    BY <1>4 DEF Test
  <2>2. Len(pdu'.vbs) = Len(pdu.vbs) /\ pdu'.kind = pdu.kind
        /\ \A k \in 1 .. Len(pdu.vbs) : k # at => pdu'.vbs[k] = pdu.vbs[k]
    BY <1>1, <2>1, ChooseType DEF Test, TypeOK
  <2>3. ASSUME NEW k \in 1 .. Len(pdu.vbs), k < at + 1
        PROVE  /\ pdu'.kind = "any" =>
                     pdu'.vbs[k].value \in used'[pdu'.vbs[k].index] \/ used'[pdu'.vbs[k].index] = {}
               /\ pdu'.kind = "new" => <<pdu'.vbs[k].index, pdu'.vbs[k].value>> \notin handedOut'
    <3>1. CASE k = at
      BY <1>1, <1>4, <2>1, <2>2, <3>1, TestChooses DEF Chosen
    <3>2. CASE k # at
      <4>1. Chosen(pdu.vbs[k]) /\ pdu'.vbs[k] = pdu.vbs[k]
        BY <1>1, <2>2, <2>3, <3>2 DEF ChosenOK, ToCommit
      <4> QED
        BY <1>1, <2>2, <4>1 DEF Chosen
    <3> QED
      BY <3>1, <3>2
  <2> QED
    BY <1>1, <1>2, <2>2, <2>3 DEF ChosenOK, ToCommit, Chosen
<1> QED
  BY <1>2, <1>3, <1>4

LEMMA FreshTake ==
    ASSUME IInv, Remembered, ChosenOK, Commit, pdu.kind # "deallocate"
    PROVE  Remembered' /\ ChosenOK'
<1> USE DEF IInv
<1> DEFINE s == pdu.session
           i0 == Vb.index
           v0 == Vb.value
<1>1. /\ at \in 1 .. Len(pdu.vbs) /\ Vb = pdu.vbs[at] /\ PduOK(pdu) /\ Len(pdu.vbs) \in Nat
      /\ phase = "commit" /\ phase' = "commit" /\ at' = at + 1 /\ s \in Sessions
      /\ UNCHANGED pdu
      /\ i0 \in Indexes /\ v0 \in Values \union {-1} /\ pdu.kind \in Kinds
      /\ Vb \in Vbs
  BY VbType, BindingType DEF Commit, TypeOK, HandlerOK, Vb, PduOK
<1>2. Reserved(Vb) /\ Chosen(Vb) /\ Take(s, pdu.kind, Vb)
  BY <1>1 DEF BindingsOK, Commit, ChosenOK, ToCommit
<1>3. /\ \A h \in handedOut' : h \in handedOut \/ (v0 \in Values /\ h = <<i0, v0>>)
      /\ handedOut' \subseteq Indexes \X Values
  BY <1>1, <1>2 DEF Take, TypeOK, TableOK
<1>4. \A i \in Indexes, v \in Values :
         owner'[i][v] = IF i = i0 /\ v = v0 THEN s ELSE owner[i][v]
  <2>1. CASE v0 \in Values
    <3>1. owner' = [owner EXCEPT ![i0][v0] = s]
      BY <1>2, <2>1 DEF Take
    <3> QED
      BY <1>1, <2>1, <3>1 DEF TypeOK, TableOK
  <2>2. CASE v0 \notin Values
    BY <1>2, <2>2 DEF Take
  <2> QED
    BY <2>1, <2>2
<1>5. used' = IF pdu.kind = "any"
              THEN [used EXCEPT ![i0] = {v \in @ : ~IsLeast(v, @)}]
              ELSE used
  BY <1>2 DEF Take
<1>6. \A i \in Indexes : i # i0 => used'[i] = used[i] /\ syntax'[i] = syntax[i]
  BY <1>1, <1>2, <1>5 DEF Take, TypeOK, TableOK
<1>7. ASSUME NEW v \in used[i0], v \notin used'[i0]
      PROVE  v = v0
  <2>1. pdu.kind = "any" /\ IsLeast(v, used[i0])
    BY <1>1, <1>5, <1>7 DEF TypeOK, TableOK
  <2>2. v0 \in used[i0] /\ IsLeast(v0, used[i0])
    BY <1>2, <1>7, <2>1 DEF Chosen, Reserved
  <2>3. v \in Nat /\ v0 \in Nat
    BY <1>1, <1>7, <2>2 DEF TypeOK, TableOK, Values
  <2> QED
    BY <2>1, <2>2, <2>3 DEF IsLeast
<1>8. syntax[i0] = "octets" => syntax'[i0] = "octets"
  BY <1>1, <1>2 DEF Take, SyntaxOf, TypeOK, TableOK
<1>9. Remembered'
  <2> SUFFICES ASSUME NEW h \in handedOut'
               PROVE  \/ owner'[h[1]][h[2]] # NoSession
                      \/ h[2] \in used'[h[1]]
                      \/ syntax'[h[1]] = "octets"
    BY DEF Remembered
  <2>1. h[1] \in Indexes /\ h[2] \in Values /\ h = <<h[1], h[2]>>
    BY <1>3
  <2>2. CASE h[1] = i0 /\ h[2] = v0
    <3>1. s # NoSession
      BY <1>1
    <3> QED
      BY <1>4, <2>1, <2>2, <3>1
  <2>3. CASE ~(h[1] = i0 /\ h[2] = v0)
    <3>1. h \in handedOut
      BY <1>3, <2>3
    <3>2. \/ owner[h[1]][h[2]] # NoSession
          \/ h[2] \in used[h[1]]
          \/ syntax[h[1]] = "octets"
      BY <3>1 DEF Remembered
    <3> QED
      BY <1>4, <1>6, <1>7, <1>8, <2>1, <2>3, <3>2
  <2> QED
    BY <2>2, <2>3
<1>10. ChosenOK'
  <2> SUFFICES ASSUME NEW k \in 1 .. Len(pdu.vbs), k >= at + 1
               PROVE  Chosen(pdu.vbs[k])'
    BY <1>1 DEF ChosenOK, ToCommit
  <2>1. pdu.vbs[k].index # i0 /\ pdu.vbs[k].index \in Indexes
    BY <1>1, BindingType DEF PduKept, TypeOK
  <2>2. Chosen(pdu.vbs[k])
    BY <1>1 DEF ChosenOK, ToCommit
  <2> QED
    BY <1>1, <1>3, <1>6, <2>1, <2>2 DEF Chosen
<1> QED
  BY <1>9, <1>10

\* release keeps in mind what new_index must not find again.
LEMMA FreshGiveBack ==
    ASSUME IInv, Remembered, ChosenOK, Commit, pdu.kind = "deallocate"
    PROVE  Remembered' /\ ChosenOK'
<1> USE DEF IInv
<1> DEFINE s == pdu.session
           i0 == Vb.index
           v0 == Vb.value
<1>1. /\ UNCHANGED pdu /\ i0 \in Indexes /\ GiveBack(s, Vb)
  BY VbType, VbFields DEF Commit, TypeOK, HandlerOK
<1>2. ChosenOK'
  BY <1>1 DEF ChosenOK, Chosen
<1>3. CASE ~MayRelease(s, Vb)
  BY <1>1, <1>2, <1>3 DEF GiveBack, tableVars, Remembered
<1>4. CASE MayRelease(s, Vb)
  <2>1. /\ v0 \in Values /\ syntax[i0] # "none"
        /\ owner' = [owner EXCEPT ![i0][v0] = NoSession]
        /\ used' = IF IsSimple(syntax[i0]) THEN [used EXCEPT ![i0] = @ \union {v0}] ELSE used
        /\ UNCHANGED <<syntax, handedOut>>
    BY <1>1, <1>4 DEF GiveBack, MayRelease
  <2>2. \A i \in Indexes, v \in Values :
           owner'[i][v] = IF i = i0 /\ v = v0 THEN NoSession ELSE owner[i][v]
    BY <1>1, <2>1 DEF TypeOK, TableOK
  <2>3. syntax[i0] = "octets" \/ v0 \in used'[i0]
    BY <1>1, <2>1 DEF IsSimple, TypeOK, TableOK
  <2>4. \A i \in Indexes : used[i] \subseteq used'[i]
    BY <1>1, <2>1 DEF TypeOK, TableOK
  <2>5. \A h \in handedOut : h[1] \in Indexes /\ h[2] \in Values
    BY DEF TypeOK, TableOK
  <2> QED
    BY <1>2, <2>1, <2>2, <2>3, <2>4, <2>5 DEF Remembered
<1> QED
  BY <1>3, <1>4

LEMMA FreshStep ==
    ASSUME IInv, FreshInv, [Next]_vars
    PROVE  FreshInv'
<1> SUFFICES ASSUME Untouched' PROVE Remembered' /\ ChosenOK'
  BY DEF FreshInv
<1>1. Untouched /\ Remembered /\ ChosenOK
  BY UntouchedBefore DEF FreshInv
<1>2. CASE Test
  BY <1>1, <1>2, FreshTest
<1>3. CASE Commit
  BY <1>1, <1>3, FreshTake, FreshGiveBack
<1>4. CASE UNCHANGED <<tableVars, phase, pdu, at>>
  BY <1>1, <1>4 DEF Remembered, ChosenOK, ToCommit, Chosen, tableVars
<1>5. CASE Refuse \/ Committed \/ Answer
  BY <1>1, <1>5 DEF Refuse, Committed, Answer, Idle, Remembered, ChosenOK, ToCommit, tableVars
<1>6. CASE Tested
  <2>1. Len(pdu.vbs) \in Nat /\ at \in 1 .. Len(pdu.vbs) + 1
    BY <1>6 DEF Tested, IInv, TypeOK, HandlerOK, PduOK
  <2> QED
    BY <1>1, <1>6, <2>1 DEF Tested, Remembered, ChosenOK, ToCommit, Chosen, tableVars
<1>7. ASSUME NEW p \in Pdus, Receive(p)
      PROVE  Remembered' /\ ChosenOK'
  BY <1>1, <1>7 DEF Receive, Remembered, ChosenOK, ToCommit, tableVars
<1>8. ASSUME NEW c \in closing, RemoveIndexes(c)
      PROVE  FALSE
  BY <1>1 DEF Untouched
<1> QED
  BY <1>2, <1>3, <1>4, <1>5, <1>6, <1>7, <1>8
     DEF Next, MasterStep, ClosingStep, Wait, vars, handlerVars, Open, StartClosing, Unlist,
         AlreadyClosed

\* new_index gives no value a second time until a session is closed, whatever
\* was allocated, released and used again before.
THEOREM NewValuesAreFresh ==
    ASSUME WellBehaved
    PROVE  Spec => []FreshUnlessClosed
<1>1. Init => FreshInv
  BY DEF Init, FreshInv, Remembered, ChosenOK, ToCommit
<1>2. IInv /\ FreshInv /\ [Next]_vars => FreshInv'
  BY FreshStep
<1>3. IInv /\ FreshInv => FreshUnlessClosed
  <2> SUFFICES ASSUME IInv, FreshInv, Untouched, phase = "commit", pdu.kind = "new",
                      NEW k \in at .. Len(pdu.vbs)
               PROVE  <<pdu.vbs[k].index, pdu.vbs[k].value>> \notin handedOut
    BY DEF FreshUnlessClosed, NewIsFresh, Untouched
  <2>1. Len(pdu.vbs) \in Nat /\ at \in 1 .. Len(pdu.vbs) + 1
    BY DEF IInv, TypeOK, HandlerOK, PduOK
  <2> QED
    BY <2>1 DEF FreshInv, ChosenOK, ToCommit, Chosen
<1> QED
  BY <1>1, <1>2, <1>3, Invariant, PTL DEF Spec

-----------------------------------------------------------------------------
(* Nothing stays allocated to a closed session, unless a manager closes it. *)

\* The session whose PDU is handled is open and nobody closes it.
HandledOpen ==
    phase # "idle" => /\ pdu.session \in openSessions
                      /\ \A c \in closing : c.session # pdu.session

\* A session that was taken out of openSessions first is purged later; one
\* that was purged first owns nothing until it is taken out.
Covered(s) ==
    /\ s \in openSessions \/ \E c \in closing : c.session = s /\ c.left = <<"purge">>
    /\ \A c \in closing : c.left = <<"unlist">> => c.session # s

PurgeComes ==
    \A i \in Indexes, v \in Values :
        owner[i][v] # NoSession => Covered(owner[i][v])

OrphanInv == HandledOpen /\ PurgeComes

LEMMA HandledOpenStep ==
    ASSUME "admin" \notin Closings, TypeOK, HandledOpen, [Next]_vars
    PROVE  HandledOpen'
<1> USE DEF TypeOK
<1>1. ASSUME NEW p \in Pdus, Receive(p)
      PROVE  HandledOpen'
  <2>1. \A c \in closing : c.session # p.session
    BY <1>1, ClosingType DEF Receive, MasterFree, Silent, Duties
  <2> QED
    BY <1>1, <2>1 DEF Receive, HandledOpen, sessionVars
<1>2. CASE MasterStep
  <2>1. UNCHANGED <<openSessions, closing>> /\ phase # "idle"
    BY <1>2 DEF MasterStep, Test, Refuse, Tested, Commit, Committed, Answer, sessionVars
  <2>2. phase' = "idle" \/ pdu'.session = pdu.session
    <3>1. CASE Test
      <4>1. pdu' = pdu \/ \E v \in Values : pdu' = Choose(v)
        BY <3>1 DEF Test
      <4>2. ASSUME NEW v \in Values, pdu' = Choose(v)
            PROVE  pdu'.session = pdu.session
        BY <3>1, <4>2, ChooseType DEF Test
      <4> QED
        BY <4>1, <4>2
    <3>2. CASE ~Test
      BY <1>2, <3>2 DEF MasterStep, Refuse, Tested, Commit, Committed, Answer, Idle
    <3> QED
      BY <3>1, <3>2
  <2> QED
    BY <2>1, <2>2 DEF HandledOpen
<1>3. ASSUME NEW s \in Sessions, Open(s)
      PROVE  HandledOpen'
  BY <1>3 DEF Open, MasterFree, HandledOpen, handlerVars
<1>4. ASSUME NEW s \in Sessions, NEW way \in Closings, StartClosing(s, way)
      PROVE  HandledOpen'
  BY <1>4 DEF StartClosing, MasterFree, HandledOpen, handlerVars
<1>5. ASSUME NEW c \in closing, Unlist(c) \/ AlreadyClosed(c) \/ RemoveIndexes(c)
      PROVE  HandledOpen'
  <2>1. /\ UNCHANGED <<phase, pdu>>
        /\ openSessions \ {c.session} \subseteq openSessions'
        /\ GoOn(c) \/ closing' = closing \ {c}
    BY <1>5 DEF Unlist, AlreadyClosed, RemoveIndexes, handlerVars
  <2>2. \A d \in closing' : \E e \in closing : d.session = e.session
    <3>1. \A left : [c EXCEPT !.left = left].session = c.session
      BY DEF SessionsOK
    <3> QED
      BY <2>1, <3>1, GoOnLeft
  <2> QED
    BY <2>1, <2>2 DEF HandledOpen
<1>6. CASE UNCHANGED vars
  BY <1>6 DEF vars, sessionVars, handlerVars, HandledOpen
<1> QED
  BY <1>1, <1>2, <1>3, <1>4, <1>5, <1>6 DEF Next, ClosingStep, Wait

\* A step that covers who was covered, unless the step purges it.
LEMMA StillCovered ==
    ASSUME SessionsOK, [Next]_vars, NEW s \in Sessions, Covered(s),
           \A c \in closing : RemoveIndexes(c) => c.session # s
    PROVE  Covered(s)'
<1>0. /\ <<"purge">> # <<"unlist">> /\ <<"unlist", "purge">> # <<"purge">>
      /\ <<"unlist", "purge">> # <<"unlist">> /\ <<"purge", "unlist">> # <<"unlist">>
      /\ <<"purge", "unlist">> # <<"purge">>
  OBVIOUS
<1>1. CASE UNCHANGED sessionVars
  BY <1>1 DEF Covered, sessionVars
<1>2. ASSUME NEW r \in Sessions, Open(r)
      PROVE  Covered(s)'
  BY <1>2 DEF Open, Covered
<1>3. ASSUME NEW r \in Sessions, NEW way \in Closings, StartClosing(r, way)
      PROVE  Covered(s)'
  <2>1. Duties[way] # <<"unlist">>
    BY <1>0 DEF Duties
  <2> QED
    BY <1>3, <2>1 DEF StartClosing, Covered
<1>4. ASSUME NEW c \in closing, Unlist(c)
      PROVE  Covered(s)'
  <2>1. /\ openSessions' = openSessions \ {c.session} /\ GoOn(c)
        /\ c.left \in {<<"unlist">>, <<"unlist", "purge">>}
    BY <1>4, DutyLeft DEF Unlist
  <2>2. CASE c.left = <<"unlist">>
    <3>1. closing' = closing \ {c} /\ c.session # s
      BY <1>0, <2>1, <2>2, GoOnLeft DEF Covered
    <3> QED
      BY <1>0, <2>1, <2>2, <3>1 DEF Covered
  <2>3. CASE c.left = <<"unlist", "purge">>
    <3> DEFINE d == [c EXCEPT !.left = <<"purge">>]
    <3>1. closing' = (closing \ {c}) \union {d}
      BY <1>0, <2>1, <2>3, GoOnLeft
    <3>2. d.session = c.session /\ d.left = <<"purge">>
      BY DEF SessionsOK
    <3> HIDE DEF d
    <3>3. s \in openSessions' \/ \E e \in closing' : e.session = s /\ e.left = <<"purge">>
      BY <1>0, <2>1, <2>3, <3>1, <3>2 DEF Covered
    <3>4. \A e \in closing' : e.left = <<"unlist">> => e.session # s
      BY <1>0, <3>1, <3>2 DEF Covered
    <3> QED
      BY <3>3, <3>4 DEF Covered
  <2> QED
    BY <2>1, <2>2, <2>3
<1>5. ASSUME NEW c \in closing, AlreadyClosed(c)
      PROVE  Covered(s)'
  <2>1. /\ closing' = closing \ {c} /\ UNCHANGED openSessions
        /\ c.left # <<"purge">>
    BY <1>0, <1>5, DutyLeft DEF AlreadyClosed
  <2> QED
    BY <2>1 DEF Covered
<1>6. ASSUME NEW c \in closing, RemoveIndexes(c)
      PROVE  Covered(s)'
  <2>1. UNCHANGED openSessions /\ GoOn(c) /\ c.session # s
    BY <1>6 DEF RemoveIndexes
  <2>2. PICK d : closing' \subseteq (closing \ {c}) \union {d} /\ d.session = c.session
                 /\ closing \ {c} \subseteq closing'
    <3>1. \A left : [c EXCEPT !.left = left].session = c.session
      BY DEF SessionsOK
    <3> QED
      BY <2>1, <3>1, GoOnLeft
  <2> QED
    BY <2>1, <2>2 DEF Covered
<1> QED
  BY <1>1, <1>2, <1>3, <1>4, <1>5, <1>6
     DEF Next, MasterStep, ClosingStep, Wait, vars, Receive, Test, Refuse, Tested,
         Commit, Committed, Answer

LEMMA PurgeComesStep ==
    ASSUME TypeOK, OrphanInv, [Next]_vars, TypeOK'
    PROVE  PurgeComes'
<1> SUFFICES ASSUME NEW i \in Indexes, NEW v \in Values, NEW s \in Sessions,
                    s = owner'[i][v]
             PROVE  Covered(s)'
  BY DEF PurgeComes, TypeOK, TableOK
<1>0. owner[i][v] = s => Covered(s)
  BY IndexAssumption DEF OrphanInv, PurgeComes
<1>1. ASSUME owner' = owner, \A c \in closing : ~RemoveIndexes(c)
      PROVE  Covered(s)'
  BY <1>0, <1>1, StillCovered DEF TypeOK
<1>2. CASE Commit
  <2>1. Vb \in Vbs /\ Vb.index \in Indexes /\ phase # "idle" /\ UNCHANGED sessionVars
    BY <1>2, VbType, VbFields DEF Commit, TypeOK
  <2>2. s = owner[i][v] \/ s = pdu.session
    <3>1. CASE pdu.kind = "deallocate"
      <4>1. owner' = owner \/ owner' = [owner EXCEPT ![Vb.index][Vb.value] = NoSession]
        BY <1>2, <3>1 DEF Commit, GiveBack, tableVars
      <4>2. owner'[i][v] = owner[i][v] \/ owner'[i][v] = NoSession
        BY <2>1, <4>1 DEF TableOK, TypeOK
      <4>3. NoSession # s
        OBVIOUS
      <4> QED
        BY <4>2, <4>3
    <3>2. CASE pdu.kind # "deallocate"
      <4>1. owner' = owner \/ owner' = [owner EXCEPT ![Vb.index][Vb.value] = pdu.session]
        BY <1>2, <3>2 DEF Commit, Take
      <4>2. owner'[i][v] = owner[i][v] \/ owner'[i][v] = pdu.session
        <5> owner \in [Indexes -> [Values -> Sessions \union {NoSession}]]
          BY DEF TableOK, TypeOK
        <5> HIDE DEF Values
        <5> QED
          BY <4>1
      <4> QED
        BY <2>1, <4>2
    <3> QED
      BY <3>1, <3>2
  <2>3. CASE s = owner[i][v]
    BY <1>0, <2>1, <2>3 DEF sessionVars, Covered
  <2>4. CASE s = pdu.session
    BY <2>1, <2>4 DEF OrphanInv, HandledOpen, sessionVars, Covered
  <2> QED
    BY <2>2, <2>3, <2>4
<1>3. ASSUME NEW c \in closing, RemoveIndexes(c)
      PROVE  Covered(s)'
  <2>1. owner[i][v] = s /\ c.session # s
    BY <1>3, ClosingType, IndexAssumption DEF RemoveIndexes, Purge, TypeOK
  <2>2. UNCHANGED openSessions /\ GoOn(c)
    BY <1>3 DEF RemoveIndexes
  <2>3. closing \ {c} \subseteq closing'
    BY <2>2 DEF GoOn
  <2>4. \A d \in closing' : d.session = s => d \in closing
    BY <2>1, <2>2, GoOnLeft DEF SessionsOK, TypeOK
  <2> QED
    BY <1>0, <2>1, <2>2, <2>3, <2>4 DEF Covered
<1>4. ASSUME ~Commit, \A c \in closing : ~RemoveIndexes(c)
      PROVE  owner' = owner
  BY <1>4 DEF Next, MasterStep, ClosingStep, Wait, vars, tableVars, Receive, Test,
              Refuse, Tested, Committed, Answer, Open, StartClosing, Unlist, AlreadyClosed
<1> QED
  BY <1>1, <1>2, <1>3, <1>4

\* Unless a manager removes the row of a session, no index value stays
\* allocated to a session that was closed: every closing comes to
\* remove_indexes, and no allocation is committed for the session after that.
THEOREM NothingIsOrphaned ==
    ASSUME "admin" \notin Closings
    PROVE  Spec => []NoOrphans
<1>1. Init => OrphanInv
  BY DEF Init, OrphanInv, HandledOpen, PurgeComes
<1>2. TypeOK /\ TypeOK' /\ OrphanInv /\ [Next]_vars => OrphanInv'
  BY HandledOpenStep, PurgeComesStep DEF OrphanInv
<1>3. OrphanInv => NoOrphans
  BY DEF OrphanInv, PurgeComes, Covered, NoOrphans
<1> QED
  BY <1>1, <1>2, <1>3, TypeCorrect, PTL DEF Spec
=============================================================================
