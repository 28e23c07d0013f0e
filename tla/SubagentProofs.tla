---------------------------- MODULE SubagentProofs ----------------------------
(***************************************************************************)
(* Theorems about SubagentRequests for any transactions, entries, pool and *)
(* PDUs that come late: its types, that no lock gets lost, and, unless the *)
(* master closes the session over a SET that is under way or that it has   *)
(* left after its CommitSet, that no deleted request is used and no undone *)
(* SET was ever seen.                                                      *)
(***************************************************************************)
EXTENDS SubagentRequests, TLAPS

-----------------------------------------------------------------------------
(* Types *)

\* The place of an order among those of its transaction
Rank(o) == IF o = "none" THEN 0
           ELSE IF o \in {"test", "get", "close"} THEN 1
           ELSE IF o = "commit" THEN 2 ELSE 3

LEMMA PduFields ==
    ASSUME NEW p \in Pdus
    PROVE  /\ p[2] \in Orders => p[1] \in Sets
           /\ p[2] = "get" => p[1] \in Gets
           /\ p[2] \in Orders \union {"get", "close"}
           /\ p[2] = "close" \/ p[1] = Nobody <=> p = ClosePdu
           /\ p = <<p[1], p[2]>>
           /\ p # NoPdu
BY SubagentAssumption DEF Pdus, Orders, Follows, ClosePdu, NoPdu, SubagentAssumption, Transactions

LEMMA PduParts ==
    /\ \A t \in Sets, o \in Orders : <<t, o>> \in Pdus
    /\ \A t \in Gets : <<t, "get">> \in Pdus
    /\ ClosePdu \in Pdus /\ NoPdu \notin Pdus
BY SubagentAssumption DEF Pdus, Orders, Follows, ClosePdu, NoPdu, SubagentAssumption, Transactions

\* A transaction is in a phase of its kind, and the main thread has a request
\* while it is not receiving.
TypeInv ==
    /\ TypeOK
    /\ \A t \in Sets : order[t] # "get"
    /\ \A t \in Gets : order[t] \in {"none", "get", "done"}
    /\ main = "receive" <=> cur = NoPdu
    /\ main = "take" => old \in Pdus
    /\ \A p \in Pdus : pc[p] = "read" => p[2] = "get"

LEMMA UnlockType ==
    ASSUME TypeOK, NEW R \in SUBSET Pdus, Unlock(R)
    PROVE  /\ holder' \in [Entries -> Transactions \union {Nobody}]
           /\ locks' \in [Pdus -> SUBSET Entries]
BY DEF Unlock, TypeOK

LEMMA CleanUpType ==
    ASSUME TypeOK, NEW R \in SUBSET Pdus, CleanUp(R)
    PROVE  copy' \in [Entries -> SUBSET Writers]
BY DEF CleanUp, TypeOK

LEMMA BecomeType ==
    ASSUME TypeOK, NEW p \in Pdus,
           NEW s \in {"start", "lock", "read", "answer", "unlock", "rest", "done"}, Become(p, s)
    PROVE  /\ pc' \in [Pdus -> {"none", "start", "lock", "read", "answer", "unlock", "rest", "done"}]
           /\ pc'[p] = s
           /\ \A q \in Pdus \ {p} : pc'[q] = pc[q]
BY DEF Become, TypeOK

LEMMA SendType ==
    ASSUME TypeInv, NEW t \in Transactions, NEW o, <<t, o>> \in Pdus, Send(t, o)
    PROVE  /\ order' \in [Transactions -> Orders \union {"none", "get", "done", "abandoned"}]
           /\ \A u \in Transactions : order'[u] = IF u = t THEN o ELSE order[u]
           /\ inbox' \in Seq(Pdus)
<1>1. o \in Orders \union {"get"}
  BY PduFields, SubagentAssumption DEF SubagentAssumption, ClosePdu
<1> QED
  BY <1>1 DEF Send, TypeInv, TypeOK

\* The master ends a transaction with order o, without a PDU.
Ends(t, o) ==
    /\ \/ order[t] \in {"undo", "get"} /\ o = "done"
       \/ order[t] = "commit" /\ o = "abandoned"
    /\ order' = [order EXCEPT ![t] = o] /\ inbox' = inbox

\* The master sends a phase of a SET to follow one, starts a transaction or
\* ends one.
LEMMA MasterSends ==
    ASSUME TypeInv, NEW t \in Transactions, Ask(t) \/ GoOn(t)
    PROVE  \/ \E o : <<t, o>> \in Pdus /\ Send(t, o) /\ Rank(order[t]) < Rank(o)
           \/ \E o : Ends(t, o)
<1>1. t \in Sets \/ t \in Gets
  BY DEF Transactions
<1>2. CASE Ask(t)
  <2>1. CASE t \in Sets
    BY <1>2, <2>1, PduParts DEF Ask, Orders, Rank
  <2>2. CASE t \notin Sets
    BY <1>1, <1>2, <2>2, PduParts DEF Ask, Rank
  <2> QED
    BY <2>1, <2>2
<1>3. CASE GoOn(t)
  <2>1. CASE order[t] \in {"undo", "get"}
    BY <1>3, <2>1 DEF GoOn, End, Ends
  <2>2. CASE order[t] \in {"test", "commit"}
    <3>1. t \in Sets
      BY <1>1, <2>2 DEF TypeInv
    <3>2. \/ Send(t, "commit") /\ Rank(order[t]) < Rank("commit")
          \/ Send(t, "cleanup") /\ Rank(order[t]) < Rank("cleanup")
          \/ Send(t, "undo") /\ Rank(order[t]) < Rank("undo")
          \/ Ends(t, "abandoned")
      BY <1>3, <2>2 DEF GoOn, End, Ends, Rank
    <3>3. <<t, "commit">> \in Pdus /\ <<t, "cleanup">> \in Pdus /\ <<t, "undo">> \in Pdus
      BY <3>1, PduParts DEF Orders, Follows
    <3> QED
      BY <3>2, <3>3
  <2> QED
    BY <1>3, <2>1, <2>2 DEF GoOn
<1> QED
  BY <1>2, <1>3

\* What the work on a request leaves alone, and how it goes on.
LEMMA WorkFrame ==
    ASSUME TypeInv, NEW p \in Pdus, Work(p)
    PROVE  /\ UNCHANGED <<order, closing, inbox, main, cur, old>>
           /\ Active(p) /\ p \notin freed
           /\ \/ UNCHANGED pc
              \/ \E s \in {"lock", "start", "read", "answer", "unlock", "rest", "done"} : Become(p, s)
           /\ list' \subseteq list
BY DEF Work, LockMib, Prepare, Prepared, Enter, Read, Commit, Undo, Cleanup, Close, Answer,
       DeleteRequest, At, Active, masterVars, mainVars, Become

LEMMA RestoredType ==
    ASSUME TypeOK, NEW p \in Pdus
    PROVE  Restored(p) \in [Entries -> Writers]
<1> SUFFICES ASSUME NEW e \in Entries, copy[e] # {}
             PROVE  (CHOOSE v \in copy[e] : TRUE) \in Writers
  BY DEF Restored, TypeOK
<1>1. copy[e] \subseteq Writers
  BY DEF TypeOK
<1>2. (CHOOSE v \in copy[e] : TRUE) \in copy[e]
  OBVIOUS
<1> QED
  BY <1>1, <1>2

LEMMA WorkTypes ==
    ASSUME TypeInv, NEW p \in Pdus, Work(p)
    PROVE  TypeInv'
<1> USE DEF TypeInv
<1>1. /\ UNCHANGED <<order, closing, inbox, main, cur, old>>
      /\ list' \subseteq Pdus
      /\ pc' \in [Pdus -> {"none", "start", "lock", "read", "answer", "unlock", "rest", "done"}]
  BY WorkFrame, BecomeType DEF TypeOK
<1>2. /\ replies' \subseteq Pdus /\ failed' \subseteq Pdus /\ freed' \subseteq Pdus
      /\ mib' \in Pdus \union {NoPdu}
  BY DEF TypeOK, Work, LockMib, Prepare, Prepared, Enter, Read, Commit, Undo, Cleanup, Close,
         Answer, DeleteRequest, entryVars, Terminate
<1>3. /\ locks' \in [Pdus -> SUBSET Entries]
      /\ holder' \in [Entries -> Transactions \union {Nobody}]
  <2>1. CASE Read(p) \/ Undo(p) \/ Cleanup(p)
    BY <2>1, UnlockType DEF Read, Undo, Cleanup, Terminate
  <2>2. CASE Close(p)
    <3> DEFINE R == {r \in list : r[2] \in {"test", "commit"}}
    <3>1. R \in SUBSET Pdus /\ Unlock(R)
      BY <2>2 DEF Close, TypeOK
    <3> HIDE DEF R
    <3> QED
      BY <3>1, UnlockType
  <2>3. ASSUME NEW e \in Entries, Prepare(p, e) \/ Enter(p, e)
        PROVE  <1>3
    <3>1. p[1] \in Transactions
      BY <2>3, PduFields DEF Prepare, Enter, Orders, Transactions
    <3>2. /\ holder' = [holder EXCEPT ![e] = p[1]]
          /\ \E L \in SUBSET Entries : locks' = [locks EXCEPT ![p] = L]
      BY <2>3 DEF Prepare, Enter, TypeOK
    <3> QED
      BY <3>1, <3>2 DEF TypeOK
  <2>4. CASE LockMib(p) \/ Prepared(p) \/ Commit(p) \/ Answer(p) \/ DeleteRequest(p)
    BY <2>4 DEF LockMib, Prepared, Commit, Answer, DeleteRequest, entryVars, TypeOK
  <2> QED
    BY <2>1, <2>2, <2>3, <2>4 DEF Work
<1>4. val' \in [Entries -> Writers] /\ copy' \in [Entries -> SUBSET Writers]
  <2>1. CASE Commit(p)
    <3>1. p[1] \in Writers
      BY <2>1, PduFields DEF Commit, Orders, Follows, Writers
    <3>2. PICK D \in SUBSET locks[p] :
             /\ val' = [e \in Entries |-> IF e \in D THEN p[1] ELSE val[e]]
             /\ copy' = [e \in Entries |-> IF e \in D THEN {val[e]} ELSE copy[e]]
      BY <2>1 DEF Commit
    <3> QED
      BY <3>1, <3>2 DEF TypeOK
  <2>2. CASE Undo(p)
    BY <2>2, RestoredType, CleanUpType DEF Undo
  <2>3. CASE Cleanup(p)
    BY <2>3, CleanUpType DEF Cleanup, Terminate, TypeOK
  <2>4. CASE Close(p)
    <3> DEFINE R == {r \in list : r[2] \in {"test", "commit"}}
    <3>1. R \in SUBSET Pdus /\ CleanUp(R) /\ val' = val
      BY <2>4 DEF Close, TypeOK
    <3> HIDE DEF R
    <3> QED
      BY <3>1, CleanUpType DEF TypeOK
  <2>5. CASE UNCHANGED <<val, copy>>
    BY <2>5 DEF TypeOK
  <2> QED
    BY <2>1, <2>2, <2>3, <2>4, <2>5
       DEF Work, LockMib, Prepare, Prepared, Enter, Read, Answer, DeleteRequest, entryVars
<1>5. got' \subseteq Transactions \X Entries \X Writers
  <2>1. CASE Read(p)
    <3>1. p[1] \in Transactions
      BY <2>1, PduFields DEF Read, At, Transactions
    <3>2. locks[p] \subseteq Entries
      BY DEF TypeOK
    <3> QED
      BY <2>1, <3>1, <3>2 DEF Read, TypeOK
  <2>2. CASE got' = got
    BY <2>2 DEF TypeOK
  <2> QED
    BY <2>1, <2>2
       DEF Work, LockMib, Prepare, Prepared, Enter, Commit, Undo, Cleanup, Close, Answer,
           DeleteRequest, entryVars
<1>6. undone' \subseteq Sets
  BY PduFields DEF TypeOK, Work, LockMib, Prepare, Prepared, Enter, Read, Commit, Undo, Cleanup,
     Close, Answer, DeleteRequest, entryVars, Orders, Follows
<1>7. \A q \in Pdus : pc'[q] = "read" => q[2] = "get"
  <2> SUFFICES ASSUME NEW q \in Pdus, pc'[q] = "read", pc[q] # "read"
               PROVE  q[2] = "get"
    OBVIOUS
  <2>1. \E e \in Entries : Enter(p, e) /\ q = p
    BY DEF TypeOK, Become, Work, LockMib, Prepare, Prepared, Enter, Read, Commit, Undo, Cleanup,
       Close, Answer, DeleteRequest
  <2> QED
    BY <2>1 DEF Enter
<1> QED
  BY <1>1, <1>2, <1>3, <1>4, <1>5, <1>6, <1>7 DEF TypeOK

LEMMA MainTypes ==
    ASSUME TypeInv, MainStep
    PROVE  TypeInv'
<1> USE DEF TypeInv
<1>1. CASE Receive
  <2>1. Head(inbox) \in Pdus /\ Tail(inbox) \in Seq(Pdus)
    BY <1>1 DEF Receive, TypeOK
  <2>2. /\ UNCHANGED <<order, closing, replies, failed, list, pc, freed, locks, mib, holder, val,
                       copy, got, undone>>
        /\ inbox' = Tail(inbox)
        /\ \/ main' = main /\ cur' = cur /\ old' = old
           \/ main' = "take" /\ cur' = Head(inbox) /\ old' \in list
           \/ main' = "add" /\ cur' = Head(inbox) /\ old' = old
        /\ main = "receive"
    BY <1>1 DEF Receive, masterVars, mainVars, entryVars, Of
  <2> QED
    BY <2>1, <2>2, PduFields DEF TypeOK
<1>2. CASE Take
  <2>1. cur \in Pdus /\ old \in Pdus
    BY <1>2 DEF Take, TypeOK
  <2>2. /\ UNCHANGED <<order, closing, replies, failed, inbox, cur, pc, mib, holder, val, copy,
                       got, undone>>
        /\ locks' = [locks EXCEPT ![cur] = locks[old], ![old] = {}]
        /\ list' = list \ {old} /\ freed' = freed \union {old}
        /\ main' = "add" /\ old' = NoPdu /\ main = "take"
    BY <1>2 DEF Take, TakeOver, masterVars
  <2>3. locks' \in [Pdus -> SUBSET Entries]
    BY <2>1, <2>2 DEF TypeOK
  <2> QED
    BY <2>1, <2>2, <2>3 DEF TypeOK
<1>3. CASE Add
  <2>1. PICK R \in SUBSET Overdue : Terminate(R) /\ list' = (list \ R) \union ({cur} \ {ClosePdu})
    BY <1>3 DEF Add
  <2>2. cur \in Pdus /\ R \in SUBSET Pdus
    BY <1>3 DEF Add, TypeOK, Overdue
  <2>3. /\ UNCHANGED <<order, closing, replies, failed, inbox, cur, old, pc, mib, val, got, undone>>
        /\ main' = "hand" /\ main = "add"
    BY <1>3 DEF Add, masterVars
  <2>4. /\ locks' \in [Pdus -> SUBSET Entries]
        /\ holder' \in [Entries -> Transactions \union {Nobody}]
        /\ copy' \in [Entries -> SUBSET Writers]
        /\ freed' \subseteq Pdus
    BY <2>1, <2>2, UnlockType, CleanUpType DEF Terminate, TypeOK
  <2> QED
    BY <2>1, <2>2, <2>3, <2>4 DEF TypeOK
<1>4. CASE Hand
  <2>1. cur \in Pdus
    BY <1>4 DEF Hand, TypeOK
  <2>2. /\ UNCHANGED <<order, closing, replies, failed, inbox, old, list, freed, locks, mib, holder,
                       val, copy, got, undone>>
        /\ main' = "receive" /\ cur' = NoPdu /\ pc' = [pc EXCEPT ![cur] = "start"]
    BY <1>4 DEF Hand, masterVars, entryVars
  <2> QED
    BY <2>1, <2>2, PduFields DEF TypeOK
<1> QED
  BY <1>1, <1>2, <1>3, <1>4 DEF MainStep

LEMMA MasterTypes ==
    ASSUME TypeInv, (\E t \in Transactions : MasterStep(t)) \/ CloseSession
    PROVE  TypeInv'
<1> USE DEF TypeInv
<1>1. /\ UNCHANGED <<replies, failed, main, cur, old, list, pc, freed, locks, mib, holder, val,
                     copy, got, undone>>
      /\ closing' \in BOOLEAN
  BY DEF MasterStep, CloseSession, mainVars, entryVars, TypeOK
<1>2. CASE CloseSession
  <2>1. order' = order /\ inbox' \in Seq(Pdus)
    BY <1>2, PduParts DEF CloseSession, TypeOK
  <2> QED
    BY <1>1, <2>1 DEF TypeOK
<1>3. ASSUME NEW t \in Transactions, MasterStep(t)
      PROVE  TypeInv'
  <2>1. \/ \E o : <<t, o>> \in Pdus /\ Send(t, o) /\ Rank(order[t]) < Rank(o)
        \/ \E o : Ends(t, o)
    BY <1>3, MasterSends DEF MasterStep
  <2>2. ASSUME NEW o, <<t, o>> \in Pdus, Send(t, o)
        PROVE  TypeInv'
    <3>1. /\ order' \in [Transactions -> Orders \union {"none", "get", "done", "abandoned"}]
          /\ \A u \in Transactions : order'[u] = IF u = t THEN o ELSE order[u]
          /\ inbox' \in Seq(Pdus)
      BY <2>2, SendType
    <3>2. (t \in Sets => o # "get") /\ (t \in Gets => o = "get")
      BY <2>2, PduFields, SubagentAssumption DEF SubagentAssumption, Orders, Follows, ClosePdu,
         Transactions
    <3> QED
      BY <1>1, <3>1, <3>2 DEF TypeOK, Transactions
  <2>3. ASSUME NEW o, Ends(t, o)
        PROVE  TypeInv'
    <3>1. o \in {"done", "abandoned"} /\ (t \in Gets => o = "done")
      BY <2>3 DEF Ends, TypeInv
    <3>2. order' = [order EXCEPT ![t] = o] /\ inbox' = inbox
      BY <2>3 DEF Ends
    <3> QED
      BY <1>1, <3>1, <3>2 DEF TypeOK
  <2> QED
    BY <2>1, <2>2, <2>3
<1> QED
  BY <1>2, <1>3

LEMMA TypeStep == ASSUME TypeInv, [Next]_vars PROVE TypeInv'
<1>1. CASE UNCHANGED vars
  BY <1>1 DEF vars, masterVars, mainVars, entryVars, TypeInv, TypeOK
<1> QED
  BY <1>1, WorkTypes, MainTypes, MasterTypes DEF Next

LEMMA TypeInit == Init => TypeInv
<1> SUFFICES ASSUME Init PROVE TypeInv
  OBVIOUS
<1>1. /\ \A t \in Transactions : order[t] = "none"
      /\ order \in [Transactions -> Orders \union {"none", "get", "done", "abandoned"}]
  BY DEF Init
<1>2. inbox \in Seq(Pdus)
  BY DEF Init
<1>3. TypeOK
  BY <1>1, <1>2 DEF Init, TypeOK, Writers
<1> QED
  BY <1>1, <1>3 DEF Init, TypeInv, Transactions

\* The variables of a subagent keep their types, whatever comes late, is
\* refused or expires: nothing but a GET ever gets a value.
THEOREM TypeCorrect == Spec => []TypeOK
<1>1. TypeInv => TypeOK
  BY DEF TypeInv
<1> QED
  BY <1>1, TypeInit, TypeStep, PTL DEF Spec

-----------------------------------------------------------------------------
(* The orders of a transaction come one after the other. *)

\* How far the master has come with a transaction
Progress(t) == IF t = Nobody THEN IF closing THEN 1 ELSE 0 ELSE Rank(order[t])

\* The main thread has received PDU p and has not ignored it.
Known(p) == p = cur \/ pc[p] # "none"

SocketOK ==
    \A i \in 1 .. Len(inbox) :
        /\ Rank(inbox[i][2]) <= Progress(inbox[i][1])
        /\ \A j \in 1 .. Len(inbox) :
              i < j /\ inbox[i][1] = inbox[j][1] => Rank(inbox[i][2]) < Rank(inbox[j][2])
        /\ \A p \in Pdus : Known(p) /\ p[1] = inbox[i][1] => Rank(p[2]) < Rank(inbox[i][2])

KnownOK ==
    \A p \in Pdus : Known(p) =>
        /\ Rank(p[2]) <= Progress(p[1])
        /\ \A q \in Pdus : pc[q] # "none" /\ p # q /\ p[1] = q[1] =>
              /\ Rank(p[2]) # Rank(q[2])
              /\ p = cur => Rank(q[2]) < Rank(p[2])

OrderInv == TypeInv /\ SocketOK /\ KnownOK

LEMMA RankType == \A o : Rank(o) \in 0 .. 3
BY DEF Rank

LEMMA ProgressType == \A t : Progress(t) \in 0 .. 3 /\ Progress(t)' \in 0 .. 3
BY RankType DEF Progress

LEMMA SocketType ==
    ASSUME TypeOK
    PROVE  /\ Len(inbox) \in Nat
           /\ \A i \in 1 .. Len(inbox) : inbox[i] \in Pdus
BY DEF TypeOK

\* Steps that receive, send and begin nothing.
LEMMA OrderQuiet ==
    ASSUME OrderInv, UNCHANGED <<inbox, cur>>,
           \A t \in Transactions \union {Nobody} : Progress(t) <= Progress(t)',
           \A p \in Pdus : pc'[p] = "none" <=> pc[p] = "none"
    PROVE  SocketOK' /\ KnownOK'
<1>1. \A p \in Pdus : p[1] \in Transactions \union {Nobody} /\ (Known(p)' <=> Known(p))
  BY PduFields DEF Known, Transactions, ClosePdu
<1>2. \A p \in Pdus, n \in 0 .. 3 : n <= Progress(p[1]) => n <= Progress(p[1])'
  BY <1>1, ProgressType
<1>3. SocketOK'
  BY <1>1, <1>2, RankType, SocketType DEF SocketOK, OrderInv, TypeInv
<1>4. KnownOK'
  BY <1>1, <1>2, RankType DEF KnownOK, OrderInv
<1> QED
  BY <1>3, <1>4

\* The master sends what it has not sent before.
LEMMA OrderSend ==
    ASSUME OrderInv, NEW p \in Pdus, inbox' = Append(inbox, p), UNCHANGED <<cur, pc>>,
           Progress(p[1]) < Rank(p[2]),
           \A t \in Transactions \union {Nobody} :
               Progress(t)' = IF t = p[1] THEN Rank(p[2]) ELSE Progress(t)
    PROVE  SocketOK' /\ KnownOK'
<1>1. \A q \in Pdus : q[1] \in Transactions \union {Nobody} /\ (Known(q)' <=> Known(q))
  BY PduFields DEF Known, Transactions, ClosePdu
<1>2. \A q \in Pdus : Rank(q[2]) <= Progress(q[1]) =>
         /\ Rank(q[2]) <= Progress(q[1])'
         /\ q[1] = p[1] => Rank(q[2]) < Rank(p[2])
  BY <1>1, RankType, ProgressType
<1>3. KnownOK'
  BY <1>1, <1>2 DEF KnownOK, OrderInv
<1>4. inbox \in Seq(Pdus) /\ Len(inbox) \in Nat /\ Len(inbox') = Len(inbox) + 1
  BY DEF OrderInv, TypeInv, TypeOK
<1>5. /\ inbox'[Len(inbox) + 1] = p
      /\ \A i \in 1 .. Len(inbox) : inbox'[i] = inbox[i] /\ inbox[i] \in Pdus
  BY <1>4
<1>6. SocketOK'
  <2> SUFFICES ASSUME NEW i \in 1 .. Len(inbox'), NEW b, b = inbox'[i]
               PROVE  /\ Rank(b[2]) <= Progress(b[1])'
                      /\ \A j \in 1 .. Len(inbox') : i < j /\ b[1] = inbox'[j][1] =>
                            Rank(b[2]) < Rank(inbox'[j][2])
                      /\ \A q \in Pdus : Known(q)' /\ q[1] = b[1] => Rank(q[2]) < Rank(b[2])
    BY DEF SocketOK, Progress, Known
  <2>1. CASE i = Len(inbox) + 1
    <3>1. b = p /\ \A j \in 1 .. Len(inbox') : ~(i < j)
      BY <1>4, <1>5, <2>1
    <3>2. Rank(p[2]) <= Progress(p[1])'
      BY <1>1, RankType
    <3>3. \A q \in Pdus : Known(q) /\ q[1] = p[1] => Rank(q[2]) < Rank(p[2])
      BY <1>2 DEF OrderInv, KnownOK
    <3> QED
      BY <1>1, <3>1, <3>2, <3>3
  <2>2. CASE i \in 1 .. Len(inbox)
    <3>1. b = inbox[i] /\ b \in Pdus
      BY <1>5, <2>2
    <3>2. /\ Rank(inbox[i][2]) <= Progress(inbox[i][1])
          /\ \A j \in 1 .. Len(inbox) : i < j /\ inbox[i][1] = inbox[j][1] =>
                Rank(inbox[i][2]) < Rank(inbox[j][2])
          /\ \A q \in Pdus : Known(q) /\ q[1] = inbox[i][1] => Rank(q[2]) < Rank(inbox[i][2])
      BY <2>2 DEF OrderInv, SocketOK
    <3>3. ASSUME NEW j \in 1 .. Len(inbox'), i < j, inbox[i][1] = inbox'[j][1]
          PROVE  Rank(inbox[i][2]) < Rank(inbox'[j][2])
      <4>1. CASE j = Len(inbox) + 1
        BY <1>2, <1>5, <3>1, <3>2, <3>3, <4>1
      <4>2. CASE j \in 1 .. Len(inbox)
        BY <1>5, <3>2, <3>3, <4>2
      <4> QED
        BY <1>4, <4>1, <4>2
    <3>4. Rank(b[2]) <= Progress(b[1])'
      BY <1>2, <3>1, <3>2
    <3>5. \A q \in Pdus : Known(q)' /\ q[1] = b[1] => Rank(q[2]) < Rank(b[2])
      BY <1>1, <3>1, <3>2
    <3> QED
      BY <3>1, <3>3, <3>4, <3>5
  <2> QED
    BY <1>4, <2>1, <2>2
<1> QED
  BY <1>3, <1>6

LEMMA OrderReceive == ASSUME OrderInv, Receive PROVE SocketOK' /\ KnownOK'
<1>1. inbox \in Seq(Pdus) /\ inbox # <<>>
  BY DEF OrderInv, TypeInv, TypeOK, Receive
<1>2. /\ Head(inbox) \in Pdus /\ inbox' = Tail(inbox) /\ Len(inbox) \in Nat
      /\ 1 \in 1 .. Len(inbox) /\ inbox[1] = Head(inbox)
      /\ Len(inbox') = Len(inbox) - 1
      /\ \A i \in 1 .. Len(inbox') : /\ inbox'[i] = inbox[i + 1]
                                    /\ i + 1 \in 1 .. Len(inbox) /\ 1 < i + 1
                                    /\ inbox[i + 1] \in Pdus
  BY <1>1 DEF Receive
<1>3. /\ UNCHANGED <<order, closing, pc>> /\ cur' \in {cur, Head(inbox)} /\ cur = NoPdu
  BY DEF Receive, masterVars, mainVars, OrderInv, TypeInv
<1>4. \A p \in Pdus : Known(p)' => Known(p) \/ p = Head(inbox)
  BY <1>3 DEF Known
<1>5. \A t : Progress(t)' = Progress(t)
  BY <1>3 DEF Progress
<1>6. SocketOK'
  <2> SUFFICES ASSUME NEW i \in 1 .. Len(inbox'), NEW b, b = inbox'[i]
               PROVE  /\ Rank(b[2]) <= Progress(b[1])'
                      /\ \A j \in 1 .. Len(inbox') : i < j /\ b[1] = inbox'[j][1] =>
                            Rank(b[2]) < Rank(inbox'[j][2])
                      /\ \A q \in Pdus : Known(q)' /\ q[1] = b[1] => Rank(q[2]) < Rank(b[2])
    BY DEF SocketOK, Progress, Known
  <2> DEFINE k == i + 1
  <2>1. k \in 1 .. Len(inbox) /\ b = inbox[k] /\ 1 < k
    BY <1>2
  <2> HIDE DEF k
  <2>2. /\ Rank(inbox[k][2]) <= Progress(inbox[k][1])
        /\ \A j \in 1 .. Len(inbox) : k < j /\ inbox[k][1] = inbox[j][1] =>
              Rank(inbox[k][2]) < Rank(inbox[j][2])
        /\ \A q \in Pdus : Known(q) /\ q[1] = inbox[k][1] => Rank(q[2]) < Rank(inbox[k][2])
    BY <2>1 DEF OrderInv, SocketOK
  <2>3. ASSUME NEW j \in 1 .. Len(inbox'), i < j, inbox[k][1] = inbox'[j][1]
        PROVE  Rank(inbox[k][2]) < Rank(inbox'[j][2])
    <3>1. j + 1 \in 1 .. Len(inbox) /\ k < j + 1 /\ inbox'[j] = inbox[j + 1]
      BY <1>2, <2>3 DEF k
    <3> QED
      BY <2>2, <2>3, <3>1
  <2>4. Head(inbox)[1] = inbox[k][1] => Rank(Head(inbox)[2]) < Rank(inbox[k][2])
    BY <1>2, <2>1 DEF OrderInv, SocketOK
  <2>5. Rank(b[2]) <= Progress(b[1])'
    BY <1>5, <2>1, <2>2
  <2>6. \A q \in Pdus : Known(q)' /\ q[1] = b[1] => Rank(q[2]) < Rank(b[2])
    BY <1>4, <2>1, <2>2, <2>4
  <2> QED
    BY <2>1, <2>3, <2>5, <2>6
<1>7. KnownOK'
  <2>1. /\ Rank(Head(inbox)[2]) <= Progress(Head(inbox)[1])
        /\ \A q \in Pdus : Known(q) /\ q[1] = Head(inbox)[1] => Rank(q[2]) < Rank(Head(inbox)[2])
    BY <1>2 DEF OrderInv, SocketOK
  <2>2. \A p \in Pdus : p # NoPdu /\ (Known(p) <=> pc[p] # "none")
    BY <1>3, PduFields DEF Known
  <2> SUFFICES ASSUME NEW p \in Pdus, Known(p)'
               PROVE  /\ Rank(p[2]) <= Progress(p[1])
                      /\ \A q \in Pdus : pc[q] # "none" /\ p # q /\ p[1] = q[1] =>
                            /\ Rank(p[2]) # Rank(q[2])
                            /\ p = cur' => Rank(q[2]) < Rank(p[2])
    BY <1>3, <1>5 DEF KnownOK
  <2>3. CASE p = Head(inbox)
    BY <2>1, <2>2, <2>3, RankType
  <2>4. CASE p # Head(inbox)
    BY <1>3, <1>4, <2>2, <2>4 DEF OrderInv, KnownOK
  <2> QED
    BY <2>3, <2>4
<1> QED
  BY <1>6, <1>7

LEMMA OrderHand == ASSUME OrderInv, Hand PROVE SocketOK' /\ KnownOK'
<1>1. /\ UNCHANGED <<order, closing, inbox>>
      /\ cur \in Pdus /\ cur' = NoPdu /\ pc' = [pc EXCEPT ![cur] = "start"]
  BY DEF Hand, masterVars, OrderInv, TypeInv, TypeOK
<1>2. \A p \in Pdus : pc'[p] = IF p = cur THEN "start" ELSE pc[p]
  BY <1>1 DEF OrderInv, TypeInv, TypeOK
<1>3. \A p \in Pdus : Known(p)' <=> Known(p)
  BY <1>1, <1>2, PduFields DEF Known
<1>4. \A t : Progress(t)' = Progress(t)
  BY <1>1 DEF Progress
<1>5. SocketOK'
  BY <1>1, <1>3, <1>4 DEF OrderInv, SocketOK
<1>6. KnownOK'
  <2> SUFFICES ASSUME NEW p \in Pdus, Known(p)
               PROVE  /\ Rank(p[2]) <= Progress(p[1])
                      /\ \A q \in Pdus : pc'[q] # "none" /\ p # q /\ p[1] = q[1] =>
                            /\ Rank(p[2]) # Rank(q[2])
                            /\ p = cur' => Rank(q[2]) < Rank(p[2])
    BY <1>3, <1>4 DEF KnownOK
  <2>1. p # cur'
    BY <1>1, PduFields
  <2>2. \A q \in Pdus : q = cur /\ p # q /\ p[1] = q[1] => Rank(p[2]) # Rank(q[2])
    BY RankType DEF OrderInv, KnownOK, Known
  <2> QED
    BY <1>2, <2>1, <2>2 DEF OrderInv, KnownOK
<1> QED
  BY <1>5, <1>6

LEMMA OrderStep == ASSUME OrderInv, [Next]_vars PROVE OrderInv'
<1> SUFFICES SocketOK' /\ KnownOK'
  BY TypeStep DEF OrderInv
<1>2. ASSUME NEW t \in Transactions, MasterStep(t)
      PROVE  SocketOK' /\ KnownOK'
  <2>1. UNCHANGED <<closing, cur, pc>> /\ t # Nobody
    BY <1>2, SubagentAssumption DEF MasterStep, mainVars, SubagentAssumption
  <2>2. TypeInv /\ (Ask(t) \/ GoOn(t))
    BY <1>2 DEF MasterStep, OrderInv
  <2>3. CASE \E o : <<t, o>> \in Pdus /\ Send(t, o) /\ Rank(order[t]) < Rank(o)
    <3>1. PICK o : <<t, o>> \in Pdus /\ Send(t, o) /\ Rank(order[t]) < Rank(o)
      BY <2>3
    <3>2. \A u \in Transactions : order'[u] = IF u = t THEN o ELSE order[u]
      BY <2>2, <3>1, SendType
    <3>3. \A u \in Transactions \union {Nobody} :
             Progress(u)' = IF u = t THEN Rank(o) ELSE Progress(u)
      BY <2>1, <3>2 DEF Progress
    <3>4. Progress(t) < Rank(o) /\ inbox' = Append(inbox, <<t, o>>)
      BY <2>1, <3>1 DEF Progress, Send
    <3> QED
      BY <2>1, <3>1, <3>3, <3>4, OrderSend
  <2>4. CASE \E o : Ends(t, o)
    <3>1. PICK o : Ends(t, o)
      BY <2>4
    <3>2. o \in {"done", "abandoned"} /\ inbox' = inbox
      BY <3>1 DEF Ends
    <3>3. \A u \in Transactions : order'[u] = IF u = t THEN o ELSE order[u]
      BY <2>2, <3>1 DEF Ends, TypeInv, TypeOK
    <3>4. Rank(o) = 3
      BY <3>2 DEF Rank
    <3>5. \A u \in Transactions \union {Nobody} : Progress(u) <= Progress(u)'
      BY <2>1, <3>3, <3>4, RankType, ProgressType DEF Progress, Rank
    <3> QED
      BY <2>1, <3>2, <3>5, OrderQuiet
  <2> QED
    BY <2>2, <2>3, <2>4, MasterSends
<1>3. CASE CloseSession
  <2>1. /\ UNCHANGED <<order, cur, pc>> /\ closing = FALSE /\ closing' = TRUE
        /\ inbox' = Append(inbox, ClosePdu) /\ ClosePdu \in Pdus
    BY <1>3, PduParts DEF CloseSession, mainVars, OrderInv, TypeInv, TypeOK
  <2>2. ClosePdu[1] = Nobody /\ Rank(ClosePdu[2]) = 1
    BY DEF ClosePdu, Rank
  <2>3. \A t : Progress(t)' = IF t = Nobody THEN 1 ELSE Progress(t)
    BY <2>1 DEF Progress
  <2>4. Progress(Nobody) = 0
    BY <2>1 DEF Progress
  <2> QED
    BY <2>1, <2>2, <2>3, <2>4, OrderSend
<1>4. ASSUME UNCHANGED <<order, closing, inbox, cur>>,
             \A p \in Pdus : pc'[p] = "none" <=> pc[p] = "none"
      PROVE  SocketOK' /\ KnownOK'
  <2>1. \A t : Progress(t) <= Progress(t)'
    BY <1>4, ProgressType DEF Progress
  <2> QED
    BY <1>4, <2>1, OrderQuiet
<1>5. CASE Take \/ Add \/ UNCHANGED vars
  BY <1>4, <1>5 DEF Take, Add, vars, masterVars, mainVars
<1>6. ASSUME NEW p \in Pdus, Work(p)
      PROVE  SocketOK' /\ KnownOK'
  <2>1. \A q \in Pdus : pc'[q] = "none" <=> pc[q] = "none"
    BY <1>6, WorkFrame, BecomeType DEF OrderInv, TypeInv, Active
  <2> QED
    BY <1>4, <1>6, <2>1, WorkFrame DEF OrderInv
<1> QED
  BY <1>2, <1>3, <1>5, <1>6, OrderReceive, OrderHand DEF Next, MainStep

-----------------------------------------------------------------------------
(* The list and the locks *)

MainOK ==
    /\ main # "receive" => pc[cur] = "none"
    /\ main = "take" => /\ cur[2] \in Follows /\ old[1] = cur[1]
                        /\ old \in list \union freed
    /\ main = "add" => Of(cur[1]) = {}

\* The list has at most one request of a transaction.
ListOK ==
    /\ ClosePdu \notin list
    /\ \A r \in list : /\ r \notin freed
                       /\ pc[r] # "none" \/ (r = cur /\ main = "hand")
                       /\ pc[r] = "unlock" => Kept(r)
    /\ \A r, q \in list : r[1] = q[1] => r = q
    /\ \A p \in freed : pc[p] # "none" \/ (p = cur /\ main = "hand")

\* Which requests may have locks
LocksOK ==
    \A p \in Pdus : locks[p] # {} =>
        /\ p # ClosePdu
        /\ pc[p] = "none" => p = cur /\ main \in {"add", "hand"} /\ p[2] \in Follows
        /\ p[2] = "get" => pc[p] = "read"
        /\ p[2] \in {"undo", "cleanup"} => pc[p] \in {"none", "start"}

\* The parts of LocksHaveOwner
OwnersOK ==
    /\ \A p \in Pdus : \A e \in locks[p] : p \notin freed /\ holder[e] = p[1]
    /\ \A e \in Entries : holder[e] # Nobody => \E p \in Pdus : e \in locks[p]
    /\ \A p, q \in Pdus, e \in Entries : e \in locks[p] /\ e \in locks[q] => p = q

LockInv == OrderInv /\ MainOK /\ ListOK /\ LocksOK /\ OwnersOK

LEMMA OwnersSuffice == ASSUME TypeOK, OwnersOK PROVE LocksHaveOwner
BY DEF OwnersOK, LocksHaveOwner, TypeOK

\* What a follower is received for, and the PDU received, are told apart by
\* their ranks.
LEMMA Follower ==
    ASSUME LockInv, main = "take"
    PROVE  /\ cur \in Pdus /\ old \in Pdus /\ old # cur /\ old # ClosePdu
           /\ pc[cur] = "none" /\ pc[old] # "none"
           /\ Rank(old[2]) < Rank(cur[2])
           /\ old[2] \in {"test", "commit"}
           /\ cur \notin list /\ cur \notin freed /\ locks[cur] = {}
<1>1. cur \in Pdus /\ old \in Pdus /\ pc[cur] = "none" /\ cur[2] \in Follows /\ old[1] = cur[1]
  BY DEF LockInv, OrderInv, TypeInv, TypeOK, MainOK
<1>2. cur \notin list /\ cur \notin freed /\ locks[cur] = {} /\ pc[old] # "none"
  BY <1>1 DEF LockInv, ListOK, LocksOK, MainOK
<1>3. Rank(old[2]) < Rank(cur[2])
  BY <1>1, <1>2 DEF LockInv, OrderInv, KnownOK, Known
<1>4. cur[1] \in Sets /\ old # ClosePdu
  BY <1>1, PduFields, SubagentAssumption
     DEF Orders, ClosePdu, SubagentAssumption, Transactions
<1>5. old[2] \in Orders
  BY <1>1, <1>4, PduFields, SubagentAssumption DEF SubagentAssumption
<1> QED
  BY <1>1, <1>2, <1>3, <1>4, <1>5 DEF Rank, Orders, Follows

LEMMA ReceiveLocks == ASSUME LockInv, Receive PROVE MainOK' /\ ListOK' /\ LocksOK' /\ OwnersOK'
<1> DEFINE h == Head(inbox)
<1>1. h \in Pdus /\ 1 \in 1 .. Len(inbox) /\ inbox[1] = h
  BY DEF LockInv, OrderInv, TypeInv, TypeOK, Receive
<1>2. pc[h] = "none"
  <2>1. ~(Rank(h[2]) < Rank(h[2]))
    BY RankType
  <2> QED
    BY <1>1, <2>1 DEF LockInv, OrderInv, SocketOK, Known
<1> HIDE DEF h
<1>3. /\ UNCHANGED <<list, pc, freed, locks, holder>>
      /\ main = "receive"
      /\ \/ UNCHANGED <<main, cur, old>>
         \/ /\ main' = "take" /\ cur' = h /\ h[2] \in Follows
            /\ old' \in list /\ old'[1] = h[1]
         \/ main' = "add" /\ cur' = h /\ Of(h[1]) = {}
  BY DEF Receive, mainVars, entryVars, Of, Ignored, h
<1>4. MainOK'
  BY <1>2, <1>3 DEF LockInv, MainOK, Of
<1>5. ListOK'
  BY <1>3 DEF LockInv, ListOK
<1>6. LocksOK'
  BY <1>3 DEF LockInv, LocksOK
<1>7. OwnersOK'
  BY <1>3 DEF LockInv, OwnersOK
<1> QED
  BY <1>4, <1>5, <1>6, <1>7

LEMMA TakeLocks == ASSUME LockInv, Take PROVE MainOK' /\ ListOK' /\ LocksOK' /\ OwnersOK'
<1>1. /\ main = "take" /\ old \notin freed /\ pc[old] = "rest"
      /\ list' = list \ {old} /\ freed' = freed \union {old}
      /\ main' = "add" /\ UNCHANGED <<cur, pc, holder>>
  BY DEF Take, LetGo, TakeOver
<1>2. /\ cur \in Pdus /\ old \in Pdus /\ old # cur /\ pc[cur] = "none"
      /\ cur \notin list /\ cur \notin freed /\ locks[cur] = {}
      /\ cur[2] \in Follows /\ cur # ClosePdu
      /\ old \in list /\ old[1] = cur[1]
  BY <1>1, Follower, PduFields DEF LockInv, MainOK, Follows
<1>3. \A p \in Pdus : locks'[p] = IF p = cur THEN locks[old] ELSE IF p = old THEN {} ELSE locks[p]
  BY <1>2 DEF Take, TakeOver, LockInv, OrderInv, TypeInv, TypeOK
<1>4. MainOK'
  BY <1>1, <1>2 DEF LockInv, MainOK, Of, ListOK
<1>5. ListOK'
  BY <1>1, <1>2 DEF LockInv, ListOK
<1>6. LocksOK'
  BY <1>1, <1>2, <1>3 DEF LockInv, LocksOK, Follows
<1>7. OwnersOK'
  <2>1. \A p \in Pdus : \A e \in locks'[p] : p \notin freed' /\ holder'[e] = p[1]
    BY <1>1, <1>2, <1>3 DEF LockInv, OwnersOK
  <2>2. \A e \in Entries : holder'[e] # Nobody => \E p \in Pdus : e \in locks'[p]
    BY <1>1, <1>2, <1>3 DEF LockInv, OwnersOK
  <2>3. \A p, q \in Pdus, e \in Entries : e \in locks'[p] /\ e \in locks'[q] => p = q
    BY <1>2, <1>3 DEF LockInv, OwnersOK
  <2> QED
    BY <2>1, <2>2, <2>3 DEF OwnersOK
<1> QED
  BY <1>4, <1>5, <1>6, <1>7

\* Who unlocks all that some requests have locked may delete them.
LEMMA UnlockOwners ==
    ASSUME TypeOK, OwnersOK, NEW R \in SUBSET Pdus, Unlock(R),
           \A p \in freed' : p \in freed \/ p \in R \/ locks[p] = {}
    PROVE  /\ OwnersOK'
           /\ \A p \in Pdus : locks'[p] = IF p \in R THEN {} ELSE locks[p]
<1>1. /\ \A p \in Pdus : locks'[p] = IF p \in R THEN {} ELSE locks[p]
      /\ \A e \in Entries :
            holder'[e] = IF \E r \in R : e \in locks[r] THEN Nobody ELSE holder[e]
      /\ \A p \in Pdus : locks[p] \subseteq Entries
  BY DEF Unlock, TypeOK
<1>2. \A p \in Pdus : \A e \in locks'[p] : p \notin freed' /\ holder'[e] = p[1]
  BY <1>1 DEF OwnersOK
<1>3. \A e \in Entries : holder'[e] # Nobody => \E p \in Pdus : e \in locks'[p]
  BY <1>1 DEF OwnersOK
<1>4. \A p, q \in Pdus, e \in Entries : e \in locks'[p] /\ e \in locks'[q] => p = q
  BY <1>1 DEF OwnersOK
<1> QED
  BY <1>1, <1>2, <1>3, <1>4 DEF OwnersOK

LEMMA AddLocks == ASSUME LockInv, Add PROVE MainOK' /\ ListOK' /\ LocksOK' /\ OwnersOK'
<1>1. PICK R \in SUBSET Overdue : Terminate(R) /\ list' = (list \ R) \union ({cur} \ {ClosePdu})
  BY DEF Add
<1>2. /\ main = "add" /\ main' = "hand" /\ UNCHANGED <<cur, pc>>
      /\ freed' = freed \union R /\ Unlock(R)
      /\ R \in SUBSET Pdus /\ \A r \in R : r \in list /\ pc[r] = "rest"
      /\ TypeOK /\ OwnersOK
  BY <1>1 DEF Add, Overdue, Terminate, LockInv, OrderInv, TypeInv, TypeOK
<1>3. /\ cur \in Pdus /\ pc[cur] = "none" /\ cur \notin R /\ cur \notin freed
      /\ \A r \in list : r[1] # cur[1]
  BY <1>2 DEF LockInv, OrderInv, TypeInv, TypeOK, MainOK, ListOK, Of
<1>4. OwnersOK' /\ \A p \in Pdus : locks'[p] = IF p \in R THEN {} ELSE locks[p]
  BY <1>2, UnlockOwners
<1>5. MainOK'
  BY <1>2 DEF LockInv, MainOK
<1>6. ListOK'
  BY <1>1, <1>2, <1>3 DEF LockInv, ListOK
<1>7. LocksOK'
  BY <1>2, <1>4 DEF LockInv, LocksOK
<1> QED
  BY <1>4, <1>5, <1>6, <1>7

LEMMA HandLocks == ASSUME LockInv, Hand PROVE MainOK' /\ ListOK' /\ LocksOK' /\ OwnersOK'
<1>1. /\ main = "hand" /\ main' = "receive" /\ UNCHANGED <<list, freed, locks, holder>>
      /\ cur \in Pdus /\ pc[cur] = "none" /\ pc' = [pc EXCEPT ![cur] = "start"]
  BY DEF Hand, entryVars, LockInv, OrderInv, TypeInv, TypeOK, MainOK
<1>2. \A p \in Pdus : pc'[p] = IF p = cur THEN "start" ELSE pc[p]
  BY <1>1 DEF LockInv, OrderInv, TypeInv, TypeOK
<1>3. list \subseteq Pdus /\ freed \subseteq Pdus
  BY DEF LockInv, OrderInv, TypeInv, TypeOK
<1>4. ListOK'
  BY <1>1, <1>2, <1>3 DEF LockInv, ListOK
<1>5. LocksOK'
  BY <1>1, <1>2 DEF LockInv, LocksOK, Follows
<1> QED
  BY <1>1, <1>4, <1>5 DEF LockInv, MainOK, OwnersOK

\* Where the work on request p may take a lock, or let go of one
LEMMA WorkOnLocks ==
    ASSUME LockInv, NEW p \in Pdus, Work(p)
    PROVE  /\ OwnersOK'
           /\ \A q \in Pdus \ {p} : locks'[q] \in {{}, locks[q]}
           /\ \/ locks'[p] \in {{}, locks[p]}
              \/ p[2] = "get" /\ pc'[p] = "read"
              \/ p[2] = "test" /\ pc'[p] = "lock"
<1>1. TypeOK /\ OwnersOK /\ Active(p) /\ p \notin freed /\ TypeInv
  BY WorkFrame DEF LockInv, OrderInv, TypeInv
<1>2. \A q \in Pdus : locks[q] # {} => q[1] # Nobody
  BY PduFields DEF LockInv, LocksOK
<1>3. CASE Read(p) \/ Undo(p)
  <2>1. Unlock({p}) /\ freed' = freed
    BY <1>3 DEF Read, Undo
  <2> QED
    BY <1>1, <2>1, UnlockOwners
<1>4. CASE Cleanup(p)
  <2>1. Unlock({p}) /\ freed' = freed \union {p}
    BY <1>4 DEF Cleanup, Terminate
  <2> QED
    BY <1>1, <2>1, UnlockOwners
<1>5. CASE Close(p)
  <2> DEFINE R == {r \in list : r[2] \in {"test", "commit"}}
  <2>1. R \in SUBSET Pdus /\ Unlock(R) /\ freed' = freed \union R \union {p} /\ locks[p] = {}
    BY <1>1, <1>5, PduFields DEF Close, TypeOK, LockInv, LocksOK
  <2> HIDE DEF R
  <2> QED
    BY <1>1, <2>1, UnlockOwners
<1>6. ASSUME NEW e \in Entries, Prepare(p, e) \/ Enter(p, e)
      PROVE  /\ OwnersOK'
             /\ \A q \in Pdus \ {p} : locks'[q] = locks[q]
             /\ \/ p[2] = "get" /\ pc'[p] = "read"
                \/ p[2] = "test" /\ pc'[p] = "lock"
  <2>1. /\ holder[e] = Nobody /\ freed' = freed
        /\ holder' = [holder EXCEPT ![e] = p[1]]
        /\ p[2] \in {"test", "get"}
        /\ \/ p[2] = "get" /\ pc' = [pc EXCEPT ![p] = "read"]
           \/ p[2] = "test" /\ pc' = pc /\ pc[p] = "lock"
    BY <1>6 DEF Prepare, Enter, At, Become
  <2>2. Enter(p, e) => locks[p] = {}
    BY DEF Enter, At, LockInv, LocksOK
  <2>3. locks' = [locks EXCEPT ![p] = locks[p] \union {e}]
    BY <1>6, <2>2 DEF Prepare, Enter
  <2>4. \A q \in Pdus : locks'[q] = IF q = p THEN locks[p] \union {e} ELSE locks[q]
    BY <1>1, <2>3 DEF TypeOK
  <2>5. \A d \in Entries : holder'[d] = IF d = e THEN p[1] ELSE holder[d]
    BY <1>1, <2>1 DEF TypeOK
  <2>6. \A q \in Pdus : e \notin locks[q]
    BY <1>1, <1>2, <2>1 DEF OwnersOK
  <2>7. \A q \in Pdus : locks[q] \subseteq Entries
    BY <1>1 DEF TypeOK
  <2>8. \A q \in Pdus : \A d \in locks'[q] : q \notin freed' /\ holder'[d] = q[1]
    BY <1>1, <2>1, <2>4, <2>5, <2>6, <2>7 DEF OwnersOK
  <2>9. \A d \in Entries : holder'[d] # Nobody => \E q \in Pdus : d \in locks'[q]
    BY <1>1, <2>4, <2>5 DEF OwnersOK
  <2>10. \A q, r \in Pdus, d \in Entries : d \in locks'[q] /\ d \in locks'[r] => q = r
    BY <1>1, <2>4, <2>6 DEF OwnersOK
  <2>11. pc'[p] = "read" \/ (p[2] = "test" /\ pc'[p] = "lock")
    BY <1>1, <2>1 DEF TypeOK
  <2> QED
    BY <2>1, <2>4, <2>8, <2>9, <2>10, <2>11 DEF OwnersOK
<1>7. CASE LockMib(p) \/ Prepared(p) \/ Commit(p) \/ Answer(p)
  <2>1. UNCHANGED <<holder, locks, freed>>
    BY <1>7 DEF LockMib, Prepared, Commit, Answer, entryVars
  <2> QED
    BY <1>1, <2>1 DEF OwnersOK
<1>8. CASE DeleteRequest(p)
  <2>1. UNCHANGED <<holder, locks>> /\ freed' \subseteq freed \union ({p} \ {q \in Pdus : Kept(q)})
    BY <1>8 DEF DeleteRequest, entryVars
  <2>2. Kept(p) \/ locks[p] = {}
    BY <1>8, PduFields DEF DeleteRequest, At, LockInv, LocksOK, Kept, Orders, Follows
  <2> QED
    BY <1>1, <2>1, <2>2 DEF OwnersOK
<1> QED
  BY <1>3, <1>4, <1>5, <1>6, <1>7, <1>8 DEF Work

LEMMA WorkLocks ==
    ASSUME LockInv, NEW p \in Pdus, Work(p)
    PROVE  MainOK' /\ ListOK' /\ LocksOK' /\ OwnersOK'
<1>1. /\ TypeOK /\ TypeInv /\ Active(p) /\ p \notin freed
      /\ UNCHANGED <<main, cur, old>> /\ list' \subseteq list
      /\ list \subseteq Pdus /\ freed \subseteq Pdus
  BY WorkFrame DEF LockInv, OrderInv, TypeInv, TypeOK
<1>2. /\ \A q \in Pdus \ {p} : pc'[q] = pc[q]
      /\ pc[p] # "none" /\ pc'[p] # "none"
  BY WorkFrame, BecomeType DEF LockInv, OrderInv, TypeInv, Active
<1>3. /\ \A q \in list : Kept(q) => q \in list' \union freed'
      /\ freed \subseteq freed' /\ freed' \subseteq freed \union list \union {p}
      /\ \A q \in list' : q \notin freed'
      /\ pc'[p] = "unlock" => Kept(p) \/ p \notin list'
  <2>1. \A q \in list : q \notin freed /\ q # ClosePdu /\ (pc[q] = "unlock" => Kept(q))
    BY DEF LockInv, ListOK
  <2>2. CASE Answer(p)
    BY <1>1, <2>1, <2>2 DEF Answer
  <2>3. CASE DeleteRequest(p)
    BY <1>1, <2>1, <2>3 DEF DeleteRequest, At, Become, TypeOK
  <2>4. CASE Cleanup(p)
    BY <1>1, <2>1, <2>4 DEF Cleanup, Terminate, Become, Kept, TypeOK
  <2>5. CASE Close(p)
    <3>1. p = ClosePdu
      BY <2>5, PduFields DEF Close
    <3>2. /\ list' = list \ {r \in list : r[2] \in {"test", "commit"}}
          /\ freed' = freed \union {r \in list : r[2] \in {"test", "commit"}} \union {p}
          /\ pc'[p] = "done"
      BY <1>1, <2>5 DEF Close, Become, TypeOK
    <3> QED
      BY <1>1, <2>1, <3>1, <3>2 DEF Kept
  <2>6. ASSUME \/ LockMib(p) \/ Prepared(p) \/ Read(p) \/ Commit(p) \/ Undo(p)
               \/ \E e \in Entries : Prepare(p, e) \/ Enter(p, e)
        PROVE  <1>3
    <3>1. list' = list /\ freed' = freed /\ pc'[p] # "unlock"
      BY <1>1, <2>6 DEF LockMib, Prepared, Read, Commit, Undo, Prepare, Enter, At, Become, TypeOK
    <3> QED
      BY <2>1, <3>1
  <2> QED
    BY <2>2, <2>3, <2>4, <2>5, <2>6 DEF Work
<1>4. MainOK'
  <2>1. main = "take" => old[2] \in {"test", "commit"}
    BY Follower
  <2>2. main = "take" => old \in list' \union freed'
    BY <1>3, <2>1 DEF LockInv, MainOK, Kept
  <2>3. main # "receive" => cur \in Pdus /\ cur # p
    BY <1>1, <1>2 DEF TypeInv, TypeOK, LockInv, MainOK
  <2> QED
    BY <1>1, <1>2, <2>2, <2>3 DEF LockInv, MainOK, Of
<1>5. ListOK'
  BY <1>1, <1>2, <1>3 DEF LockInv, ListOK
<1>6. OwnersOK' /\ LocksOK'
  <2>1. /\ OwnersOK'
        /\ \A q \in Pdus \ {p} : locks'[q] \in {{}, locks[q]}
        /\ \/ locks'[p] \in {{}, locks[p]}
           \/ p[2] = "get" /\ pc'[p] = "read"
           \/ p[2] = "test" /\ pc'[p] = "lock"
    BY WorkOnLocks
  <2>2. locks'[p] # {} /\ locks'[p] = locks[p] => (p[2] = "get" => pc'[p] = "read")
    BY <1>1, PduFields DEF Work, LockMib, Prepare, Prepared, Enter, Read, Commit, Undo, Cleanup,
       Close, Answer, DeleteRequest, At, LockInv, LocksOK, Become, TypeOK, Unlock
  <2>3. locks'[p] # {} /\ locks'[p] = locks[p] => p[2] \notin {"undo", "cleanup"}
    BY <1>1 DEF Work, LockMib, Prepare, Prepared, Enter, Read, Commit, Undo, Cleanup,
       Close, Answer, DeleteRequest, At, LockInv, LocksOK, TypeOK, Unlock, Terminate
  <2>4. p[2] \in {"test", "get"} => p # ClosePdu
    BY DEF ClosePdu
  <2> QED
    BY <1>1, <1>2, <2>1, <2>2, <2>3, <2>4 DEF LockInv, LocksOK
<1> QED
  BY <1>4, <1>5, <1>6

LEMMA LockStep == ASSUME LockInv, [Next]_vars PROVE LockInv'
<1>1. OrderInv'
  BY OrderStep DEF LockInv
<1>2. CASE UNCHANGED vars \/ (\E t \in Transactions : MasterStep(t)) \/ CloseSession
  <2>1. UNCHANGED <<main, cur, old, list, pc, freed, locks, holder>>
    BY <1>2 DEF vars, mainVars, entryVars, MasterStep, CloseSession
  <2> QED
    BY <1>1, <2>1 DEF LockInv, MainOK, ListOK, LocksOK, OwnersOK, Of, Kept
<1>3. CASE MainStep \/ \E p \in Pdus : Work(p)
  BY <1>1, <1>3, ReceiveLocks, TakeLocks, AddLocks, HandLocks, WorkLocks DEF LockInv, MainStep
<1> QED
  BY <1>2, <1>3 DEF Next

LEMMA LockInit == Init => LockInv
<1> SUFFICES ASSUME Init PROVE LockInv
  OBVIOUS
<1>1. /\ TypeInv /\ inbox = <<>> /\ cur = NoPdu /\ main = "receive" /\ list = {} /\ freed = {}
      /\ \A p \in Pdus : pc[p] = "none" /\ locks[p] = {}
      /\ \A e \in Entries : holder[e] = Nobody
  BY TypeInit DEF Init
<1>2. \A p \in Pdus : ~Known(p)
  BY <1>1, PduFields DEF Known
<1>3. SocketOK /\ KnownOK
  BY <1>1, <1>2 DEF SocketOK, KnownOK
<1> QED
  BY <1>1, <1>3 DEF LockInv, OrderInv, MainOK, ListOK, LocksOK, OwnersOK

LEMMA LockInvariant == Spec => []LockInv
BY LockInit, LockStep, PTL DEF Spec

\* No lock of an entry gets lost or is given away between the phases of a SET,
\* whenever the master gives up a phase or closes the session: from the TestSet
\* that takes it to the request that unlocks it, each has one owner.
THEOREM LocksAreOwned == Spec => []LocksHaveOwner
<1>1. LockInv => LocksHaveOwner
  BY OwnersSuffice DEF LockInv, OrderInv, TypeInv
<1> QED
  BY <1>1, LockInvariant, PTL

-----------------------------------------------------------------------------
(* No deleted request is used, if the session is not closed over a SET. *)

\* Nothing follows the Close PDU.
CloseLast ==
    /\ \A i \in 1 .. Len(inbox) : inbox[i] = ClosePdu => i = Len(inbox)
    /\ Known(ClosePdu) => inbox = <<>>
    /\ pc[ClosePdu] # "none" => cur = NoPdu

\* The last order of a SET, once the master has sent it
Last(t) == <<t, IF order[t] = "cleanup" THEN "cleanup" ELSE "undo">>

\* The last order is on its way, or no request of the SET can be in its way.
FollowedUp ==
    /\ \A t \in Sets : order[t] \in {"undo", "cleanup", "done"} =>
          \/ \E i \in 1 .. Len(inbox) : inbox[i] = Last(t)
          \/ cur = Last(t)
          \/ /\ \A i \in 1 .. Len(inbox) : inbox[i][1] # t
             /\ cur[1] # t
             /\ Of(t) \subseteq {Last(t)}
    /\ main = "hand" => Of(cur[1]) \subseteq {cur}

QuietInv == LockInv /\ CloseLast /\ FollowedUp /\ NoStaleUse

LEMMA NotClosed ==
    ASSUME OrderInv, ~closing
    PROVE  ~Known(ClosePdu) /\ \A i \in 1 .. Len(inbox) : inbox[i] # ClosePdu
<1>1. ClosePdu \in Pdus /\ Progress(ClosePdu[1]) = 0 /\ Rank(ClosePdu[2]) = 1
  BY PduParts DEF Progress, ClosePdu, Rank
<1> QED
  BY <1>1 DEF OrderInv, SocketOK, KnownOK

LEMMA CloseLastStep ==
    ASSUME LockInv, CloseLast, [Next]_vars
    PROVE  CloseLast'
<1>1. TypeOK /\ OrderInv /\ ClosePdu \in Pdus /\ ClosePdu # NoPdu
  BY PduFields, PduParts DEF LockInv, OrderInv, TypeInv
<1>2. ASSUME NEW t \in Transactions, MasterStep(t)
      PROVE  CloseLast'
  <2>1. ~closing /\ ~closing' /\ UNCHANGED <<cur, pc>> /\ t # Nobody
    BY <1>2, SubagentAssumption DEF MasterStep, mainVars, SubagentAssumption
  <2>2. \/ inbox' = inbox
        \/ \E o : inbox' = Append(inbox, <<t, o>>)
    BY <1>2 DEF MasterStep, Ask, GoOn, Send, End
  <2>3. \A o : <<t, o>> # ClosePdu
    BY <2>1 DEF ClosePdu
  <2>4. inbox \in Seq(Pdus)
    BY <1>1 DEF TypeOK
  <2>5. ~Known(ClosePdu) /\ \A i \in 1 .. Len(inbox) : inbox[i] # ClosePdu
    BY <1>1, <2>1, NotClosed
  <2> QED
    BY <2>1, <2>2, <2>3, <2>4, <2>5 DEF CloseLast, Known
<1>3. CASE CloseSession
  <2>1. ~closing /\ inbox' = Append(inbox, ClosePdu) /\ UNCHANGED <<order, cur, pc>>
    BY <1>3 DEF CloseSession, mainVars
  <2>2. ~Known(ClosePdu) /\ \A i \in 1 .. Len(inbox) : inbox[i] # ClosePdu
    BY <1>1, <2>1, NotClosed
  <2>3. inbox \in Seq(Pdus)
    BY <1>1 DEF TypeOK
  <2> QED
    BY <2>1, <2>2, <2>3 DEF CloseLast, Known
<1>4. CASE Receive
  <2>1. UNCHANGED <<order, closing, pc>> /\ inbox # <<>> /\ inbox' = Tail(inbox)
        /\ cur' \in {cur, Head(inbox)}
    BY <1>4 DEF Receive, masterVars, mainVars
  <2>2. inbox \in Seq(Pdus) /\ pc[ClosePdu] = "none" /\ cur # ClosePdu
    BY <1>1, <2>1 DEF TypeOK, CloseLast, Known
  <2>3. \A i \in 1 .. Len(inbox') : inbox'[i] = inbox[i + 1] /\ Len(inbox) = Len(inbox') + 1
    BY <2>1, <2>2
  <2>4. Head(inbox) = ClosePdu => inbox' = <<>>
    <3>1. Head(inbox) = inbox[1] /\ 1 \in 1 .. Len(inbox) /\ Len(inbox') = Len(inbox) - 1
      BY <2>1, <2>2
    <3>2. Head(inbox) = ClosePdu => Len(inbox) = 1
      BY <3>1 DEF CloseLast
    <3> QED
      BY <2>1, <2>2, <3>1, <3>2
  <2>5. \A i \in 1 .. Len(inbox') : inbox'[i] = ClosePdu => i = Len(inbox')
    BY <2>1, <2>2, <2>3 DEF CloseLast
  <2> QED
    BY <2>1, <2>2, <2>4, <2>5 DEF CloseLast, Known
<1>5. CASE Hand
  <2>1. UNCHANGED <<order, closing, inbox>> /\ cur' = NoPdu /\ pc' = [pc EXCEPT ![cur] = "start"]
    BY <1>5 DEF Hand, masterVars
  <2>2. Known(ClosePdu)' => Known(ClosePdu)
    BY <1>1, <2>1 DEF Known, TypeOK
  <2> QED
    BY <2>1, <2>2 DEF CloseLast
<1>6. ASSUME UNCHANGED <<order, closing, inbox, cur>>, pc'[ClosePdu] = "none" <=> pc[ClosePdu] = "none"
      PROVE  CloseLast'
  BY <1>6 DEF CloseLast, Known
<1>7. CASE Take \/ Add \/ UNCHANGED vars
  BY <1>6, <1>7 DEF Take, Add, vars, masterVars, mainVars
<1>8. ASSUME NEW p \in Pdus, Work(p)
      PROVE  CloseLast'
  <2>1. pc'[ClosePdu] = "none" <=> pc[ClosePdu] = "none"
    BY <1>1, <1>8, WorkFrame, BecomeType DEF OrderInv, Active
  <2> QED
    BY <1>1, <1>6, <1>8, <2>1, WorkFrame DEF OrderInv
<1> QED
  BY <1>2, <1>3, <1>4, <1>5, <1>7, <1>8 DEF Next, MainStep

\* The three cases of FollowedUp, for one SET
Coming(t) == \E i \in 1 .. Len(inbox) : inbox[i] = Last(t)
Alone(t) ==
    /\ \A i \in 1 .. Len(inbox) : inbox[i][1] # t
    /\ cur[1] # t
    /\ Of(t) \subseteq {Last(t)}

LEMMA LastRank ==
    ASSUME NEW t \in Sets
    PROVE  Last(t) \in Pdus /\ Last(t)[1] = t /\ Rank(Last(t)[2]) = 3 /\ Last(t)[2] \in Follows
BY PduParts DEF Last, Rank, Orders, Follows

LEMMA SetNotNobody == \A t \in Sets : t # Nobody /\ NoPdu[1] # t /\ ClosePdu[1] # t
BY SubagentAssumption DEF SubagentAssumption, Transactions, NoPdu, ClosePdu

LEMMA FollowMaster ==
    ASSUME LockInv, FollowedUp, (\E t \in Transactions : MasterStep(t)) \/ CloseSession
    PROVE  FollowedUp'
<1>1. /\ UNCHANGED <<main, cur, list>> /\ TypeInv /\ inbox \in Seq(Pdus)
  BY DEF MasterStep, CloseSession, mainVars, LockInv, OrderInv, TypeInv, TypeOK
<1>2. \A t : Of(t)' = Of(t)
  BY <1>1 DEF Of
<1>3. ASSUME NEW u \in Sets, NEW t, NEW o, inbox' = Append(inbox, <<t, o>>), t # u,
             order'[u] = order[u], order'[u] \in {"undo", "cleanup", "done"}
      PROVE  Coming(u)' \/ cur' = Last(u)' \/ Alone(u)'
  <2>1. Last(u)' = Last(u)
    BY <1>3 DEF Last
  <2> QED
    BY <1>1, <1>2, <1>3, <2>1 DEF FollowedUp, Coming, Alone
<1>4. CASE CloseSession
  <2>1. inbox' = Append(inbox, <<Nobody, "close">>) /\ order' = order
    BY <1>4 DEF CloseSession, ClosePdu
  <2> QED
    BY <1>1, <1>2, <1>3, <2>1, SetNotNobody DEF FollowedUp, Coming, Alone
<1>5. ASSUME NEW t \in Transactions, MasterStep(t)
      PROVE  FollowedUp'
  <2>1. \/ \E o : <<t, o>> \in Pdus /\ Send(t, o) /\ Rank(order[t]) < Rank(o)
        \/ \E o : Ends(t, o)
    BY <1>1, <1>5, MasterSends DEF MasterStep
  <2>2. ASSUME NEW o, <<t, o>> \in Pdus, Send(t, o), NEW u \in Sets,
               order'[u] \in {"undo", "cleanup", "done"}
        PROVE  Coming(u)' \/ cur' = Last(u)' \/ Alone(u)'
    <3>1. /\ \A v \in Transactions : order'[v] = IF v = t THEN o ELSE order[v]
          /\ inbox' = Append(inbox, <<t, o>>)
      BY <1>1, <2>2, SendType DEF Send
    <3>2. CASE u = t
      <4>1. o # "done"
        BY <2>2, <3>2, PduFields, SetNotNobody DEF Orders, Follows, ClosePdu
      <4>2. order'[u] = o
        BY <3>1, <3>2
      <4>3. Last(u)' = <<t, o>>
        BY <2>2, <3>2, <4>1, <4>2 DEF Last
      <4>4. Coming(u)'
        BY <1>1, <3>1, <4>3 DEF Coming
      <4> QED
        BY <4>4
    <3>3. CASE u # t
      BY <1>3, <2>2, <3>1, <3>3 DEF Transactions
    <3> QED
      BY <3>2, <3>3
  <2>3. ASSUME NEW o, Ends(t, o), NEW u \in Sets, order'[u] \in {"undo", "cleanup", "done"}
        PROVE  Coming(u)' \/ cur' = Last(u)' \/ Alone(u)'
    <3>1. /\ inbox' = inbox /\ u \in Transactions
          /\ order'[u] = IF u = t THEN o ELSE order[u]
          /\ u = t => order[u] = "undo" /\ o = "done"
      BY <1>1, <2>3 DEF Ends, TypeInv, TypeOK, Transactions
    <3>2. order[u] \in {"undo", "cleanup", "done"} /\ Last(u)' = Last(u)
      BY <2>3, <3>1 DEF Last
    <3> QED
      BY <1>1, <1>2, <3>1, <3>2 DEF FollowedUp, Coming, Alone
  <2>4. main' = "hand" => Of(cur[1])' \subseteq {cur'}
    BY <1>1, <1>2 DEF FollowedUp
  <2> QED
    BY <1>1, <1>2, <2>1, <2>2, <2>3, <2>4 DEF FollowedUp, Coming, Alone
<1> QED
  BY <1>4, <1>5

LEMMA FollowReceive == ASSUME LockInv, FollowedUp, Receive PROVE FollowedUp'
<1> DEFINE h == Head(inbox)
<1>1. /\ UNCHANGED <<order, list>> /\ main = "receive" /\ cur = NoPdu
      /\ inbox \in Seq(Pdus) /\ inbox # <<>> /\ h \in Pdus /\ h = inbox[1]
      /\ inbox' = Tail(inbox)
      /\ \/ cur' = cur /\ main' = "receive" /\ (h[2] \in Follows => Of(h[1]) = {})
         \/ cur' = h /\ main' \in {"take", "add"}
  BY DEF Receive, masterVars, mainVars, LockInv, OrderInv, TypeInv, TypeOK, Ignored
<1>2. /\ \A i \in 1 .. Len(inbox') : /\ i + 1 \in 1 .. Len(inbox) /\ 1 < i + 1
                                    /\ inbox'[i] = inbox[i + 1]
      /\ \A i \in 1 .. Len(inbox) : i # 1 => i - 1 \in 1 .. Len(inbox') /\ inbox'[i - 1] = inbox[i]
      /\ 1 \in 1 .. Len(inbox)
  BY <1>1
<1>3. \A i \in 1 .. Len(inbox') : inbox'[i][1] = h[1] => Rank(h[2]) < Rank(inbox'[i][2])
  BY <1>1, <1>2 DEF LockInv, OrderInv, SocketOK
<1>4. \A t : Of(t)' = Of(t) /\ Last(t)' = Last(t)
  BY <1>1 DEF Of, Last
<1> HIDE DEF h
<1> SUFFICES ASSUME NEW t \in Sets, order[t] \in {"undo", "cleanup", "done"}
             PROVE  Coming(t)' \/ cur' = Last(t)' \/ Alone(t)'
  BY <1>1, <1>4 DEF FollowedUp, Coming, Alone
<1>5. cur[1] # t /\ cur # Last(t)
  BY <1>1, SetNotNobody, LastRank
<1>6. CASE h = Last(t) /\ cur' = h
  BY <1>4, <1>6
<1>7. CASE h = Last(t) /\ cur' # h
  <2>1. Of(t) = {} /\ cur' = cur
    BY <1>1, <1>7, LastRank
  <2>2. \A i \in 1 .. Len(inbox') : inbox'[i][1] # t
    <3> SUFFICES ASSUME NEW i \in 1 .. Len(inbox'), inbox'[i][1] = t PROVE FALSE
      OBVIOUS
    <3>1. Rank(h[2]) = 3 /\ h[1] = t
      BY <1>7, LastRank
    <3>2. 3 < Rank(inbox'[i][2])
      BY <1>3, <3>1
    <3> QED
      BY <3>2, RankType
  <2> QED
    BY <1>4, <1>5, <2>1, <2>2 DEF Alone
<1>8. CASE h # Last(t) /\ Coming(t)
  BY <1>1, <1>2, <1>4, <1>8 DEF Coming
<1>9. CASE Alone(t)
  <2>1. h[1] # t /\ cur'[1] # t
    BY <1>1, <1>2, <1>5, <1>9 DEF Alone
  <2> QED
    BY <1>2, <1>4, <1>9, <2>1 DEF Alone
<1> QED
  BY <1>5, <1>6, <1>7, <1>8, <1>9 DEF FollowedUp, Coming, Alone

LEMMA FollowStep == ASSUME LockInv, FollowedUp, [Next]_vars PROVE FollowedUp'
<1>1. ASSUME UNCHANGED <<order, inbox, cur>>, list' \subseteq list,
             main' = "hand" => main = "hand"
      PROVE  FollowedUp'
  <2>1. \A t : Of(t)' \subseteq Of(t) /\ Last(t)' = Last(t)
    BY <1>1 DEF Of, Last
  <2> QED
    BY <1>1, <2>1 DEF FollowedUp
<1>2. CASE Take \/ UNCHANGED vars
  BY <1>1, <1>2 DEF Take, vars, masterVars, mainVars
<1>3. CASE Add
  <2>1. /\ UNCHANGED <<order, inbox, cur>> /\ main = "add"
        /\ list' \subseteq list \union {cur}
    BY <1>3 DEF Add, masterVars
  <2>2. \A t : Last(t)' = Last(t) /\ Of(t)' \subseteq Of(t) \union {cur}
               /\ (cur[1] # t => Of(t)' \subseteq Of(t))
    BY <2>1 DEF Of, Last
  <2>3. Of(cur[1]) = {}
    BY <2>1 DEF LockInv, MainOK
  <2> QED
    BY <2>1, <2>2, <2>3 DEF FollowedUp
<1>4. CASE Hand
  <2>1. UNCHANGED <<order, inbox, list>> /\ main = "hand" /\ main' = "receive" /\ cur' = NoPdu
    BY <1>4 DEF Hand, masterVars
  <2>2. \A t : Last(t)' = Last(t) /\ Of(t)' = Of(t)
    BY <2>1 DEF Of, Last
  <2> SUFFICES ASSUME NEW t \in Sets, order[t] \in {"undo", "cleanup", "done"}
               PROVE  Coming(t)' \/ Alone(t)'
    BY <2>1 DEF FollowedUp, Coming, Alone
  <2>3. cur'[1] # t
    BY <2>1, SetNotNobody
  <2>4. CASE cur = Last(t)
    <3>1. \A i \in 1 .. Len(inbox) : inbox[i][1] # t
      <4> SUFFICES ASSUME NEW i \in 1 .. Len(inbox), inbox[i][1] = t PROVE FALSE
        OBVIOUS
      <4>1. Rank(cur[2]) = 3 /\ cur[1] = t /\ cur \in Pdus /\ Known(cur)
        BY <2>4, LastRank DEF Known
      <4>2. 3 < Rank(inbox[i][2])
        BY <4>1 DEF LockInv, OrderInv, SocketOK
      <4> QED
        BY <4>2, RankType
    <3>2. Of(t) \subseteq {Last(t)}
      BY <2>1, <2>4, LastRank DEF FollowedUp
    <3> QED
      BY <2>1, <2>2, <2>3, <3>1, <3>2 DEF Alone
  <2>5. CASE cur # Last(t)
    BY <2>1, <2>2, <2>3, <2>5 DEF FollowedUp, Coming, Alone
  <2> QED
    BY <2>4, <2>5
<1>5. ASSUME NEW p \in Pdus, Work(p) PROVE FollowedUp'
  BY <1>1, <1>5, WorkFrame DEF LockInv, OrderInv
<1> QED
  BY <1>2, <1>3, <1>4, <1>5, FollowMaster, FollowReceive DEF Next, MainStep

\* A Close PDU finds no TestSet and no CommitSet any more.
LEMMA CloseFindsNone ==
    ASSUME LockInv, CloseLast, FollowedUp, ClosedCleanly, Known(ClosePdu), pc[ClosePdu] # "none"
    PROVE  /\ cur = NoPdu /\ main = "receive"
           /\ \A r \in list : r[2] \notin {"test", "commit"}
<1>1. cur = NoPdu /\ main = "receive" /\ inbox = <<>> /\ closing
  <2>1. closing
    BY NotClosed DEF LockInv
  <2> QED
    BY <2>1 DEF CloseLast, LockInv, OrderInv, TypeInv
<1> SUFFICES ASSUME NEW r \in list, r[2] \in {"test", "commit"} PROVE FALSE
  BY <1>1
<1>2. r \in Pdus /\ Known(r) /\ r[1] \in Sets
  BY <1>1, PduFields DEF LockInv, OrderInv, TypeInv, TypeOK, ListOK, Known, Orders, Follows
<1>3. Rank(r[2]) <= Rank(order[r[1]])
  BY <1>2, SetNotNobody DEF LockInv, OrderInv, KnownOK, Progress
<1>4. order[r[1]] # "none"
  BY <1>3 DEF Rank
<1>5. ~InFlight(r[1]) /\ order[r[1]] # "abandoned"
  BY <1>1, <1>2 DEF ClosedCleanly, AllOver
<1>6. order[r[1]] \in {"cleanup", "done"}
  BY <1>2, <1>4, <1>5 DEF InFlight, LockInv, OrderInv, TypeInv, TypeOK, Transactions
<1>7. Of(r[1]) \subseteq {Last(r[1])}
  BY <1>1, <1>2, <1>6, LastRank, PduFields DEF FollowedUp
<1>8. r = Last(r[1])
  BY <1>7 DEF Of
<1> QED
  BY <1>2, <1>8, LastRank DEF Rank

LEMMA StaleMain ==
    ASSUME LockInv, NoStaleUse, MainStep
    PROVE  NoStaleUse'
<1>1. TypeOK /\ list \subseteq Pdus /\ freed \subseteq Pdus
  BY DEF LockInv, OrderInv, TypeInv, TypeOK
<1>2. CASE Receive
  <2>1. /\ UNCHANGED <<list, pc, freed>>
        /\ \/ UNCHANGED <<main, cur, old>>
           \/ main' = "take" /\ old' \in list
           \/ main' = "add" /\ cur' = Head(inbox)
    BY <1>2 DEF Receive, mainVars, Of
  <2>2. MainOK' /\ ListOK'
    BY <1>2, ReceiveLocks
  <2>3. \A r \in list : r \notin freed
    BY DEF LockInv, ListOK
  <2>4. main' = "add" => cur' \notin freed'
    BY <2>2 DEF MainOK, ListOK
  <2> QED
    BY <2>1, <2>3, <2>4 DEF NoStaleUse, Active
<1>3. CASE Take
  <2>1. /\ UNCHANGED <<cur, pc>> /\ main = "take" /\ main' = "add"
        /\ freed' = freed \union {old} /\ pc[old] = "rest"
    BY <1>3 DEF Take, LetGo
  <2> QED
    BY <2>1, Follower DEF NoStaleUse, Active
<1>4. CASE Add
  <2>1. PICK R \in SUBSET Overdue : Terminate(R)
    BY <1>4 DEF Add
  <2>2. /\ UNCHANGED <<cur, pc>> /\ main = "add" /\ main' = "hand" /\ freed' = freed \union R
        /\ \A r \in R : r \in list /\ pc[r] = "rest"
    BY <1>4, <2>1 DEF Add, Terminate, Overdue
  <2>3. pc[cur] = "none"
    BY <2>2 DEF LockInv, MainOK
  <2> QED
    BY <2>2, <2>3 DEF NoStaleUse, Active
<1>5. CASE Hand
  <2>1. /\ main = "hand" /\ main' = "receive" /\ freed' = freed /\ pc' = [pc EXCEPT ![cur] = "start"]
    BY <1>5 DEF Hand
  <2>2. \A p \in Pdus : p # cur => pc'[p] = pc[p]
    BY <1>1, <2>1 DEF TypeOK
  <2> QED
    BY <2>1, <2>2 DEF NoStaleUse, Active
<1> QED
  BY <1>2, <1>3, <1>4, <1>5 DEF MainStep

LEMMA StaleWork ==
    ASSUME QuietInv, ClosedCleanly, NEW p \in Pdus, Work(p)
    PROVE  NoStaleUse'
<1>1. /\ UNCHANGED <<main, cur, old>> /\ Active(p) /\ p \notin freed
      /\ LockInv /\ NoStaleUse /\ TypeInv /\ TypeOK
  BY WorkFrame DEF QuietInv, LockInv, OrderInv, TypeInv
<1>2. \A q \in Pdus \ {p} : pc'[q] = pc[q]
  BY <1>1, WorkFrame, BecomeType
<1>3. main # "receive" => cur # p
  BY <1>1 DEF LockInv, MainOK, Active
<1>4. ASSUME freed' \subseteq freed \union {p},
             p \in freed' => pc'[p] = "done" /\ ~Kept(p)
      PROVE  NoStaleUse'
  <2>1. main = "take" => Kept(old)
    BY <1>1, Follower DEF Kept
  <2> QED
    BY <1>1, <1>2, <1>3, <1>4, <2>1 DEF NoStaleUse, Active
<1>5. CASE Close(p)
  <2>1. p = ClosePdu /\ pc[ClosePdu] # "none" /\ Known(ClosePdu)
    BY <1>1, <1>5, PduFields DEF Close, Active, Known
  <2>2. \A r \in list : r[2] \notin {"test", "commit"}
    BY <2>1, CloseFindsNone DEF QuietInv
  <2>3. freed' = freed \union {p} /\ pc'[p] = "done"
    BY <1>1, <1>5, <2>2 DEF Close, Become, TypeOK
  <2>4. ~Kept(p)
    BY <2>1 DEF Kept, ClosePdu
  <2> QED
    BY <1>4, <2>3, <2>4
<1>6. CASE ~Close(p)
  <2>1. /\ freed' \subseteq freed \union {p}
        /\ p \in freed' => pc'[p] = "done" /\ ~Kept(p)
    BY <1>1, <1>6 DEF Work, LockMib, Prepare, Prepared, Enter, Read, Commit, Undo, Cleanup, Answer,
       DeleteRequest, Become, TypeOK, Terminate, Kept
  <2> QED
    BY <1>4, <2>1
<1> QED
  BY <1>5, <1>6

LEMMA QuietStep == ASSUME QuietInv, ClosedCleanly, [Next]_vars PROVE QuietInv'
<1>1. LockInv' /\ CloseLast' /\ FollowedUp'
  BY LockStep, CloseLastStep, FollowStep DEF QuietInv
<1>2. CASE UNCHANGED vars \/ (\E t \in Transactions : MasterStep(t)) \/ CloseSession
  <2>1. UNCHANGED <<main, cur, old, pc, freed>>
    BY <1>2 DEF vars, mainVars, MasterStep, CloseSession
  <2> QED
    BY <1>1, <2>1 DEF QuietInv, NoStaleUse, Active
<1>3. CASE MainStep \/ \E p \in Pdus : Work(p)
  BY <1>1, <1>3, StaleMain, StaleWork DEF QuietInv
<1> QED
  BY <1>2, <1>3 DEF Next

LEMMA QuietInit == Init => QuietInv
<1> SUFFICES ASSUME Init PROVE QuietInv
  OBVIOUS
<1>1. /\ LockInv /\ inbox = <<>> /\ cur = NoPdu /\ main = "receive" /\ ~closing /\ freed = {}
      /\ \A p \in Pdus : pc[p] = "none"
      /\ \A t \in Sets : order[t] = "none"
  BY LockInit DEF Init, Transactions
<1>2. \A p \in Pdus : ~Known(p)
  BY <1>1, PduFields DEF Known
<1>3. ClosePdu \in Pdus
  BY PduParts
<1> QED
  BY <1>1, <1>2, <1>3 DEF QuietInv, CloseLast, FollowedUp, NoStaleUse

\* Once it has closed the session, the master does nothing any more.
LEMMA CleanBefore == ASSUME ClosedCleanly', [Next]_vars PROVE ClosedCleanly
<1> SUFFICES ASSUME closing PROVE AllOver
  BY DEF ClosedCleanly
<1>1. closing' = closing /\ order' = order
  BY DEF Next, Work, LockMib, Prepare, Prepared, Enter, Read, Commit, Undo, Cleanup, Close, Answer,
     DeleteRequest, MasterStep, CloseSession, MainStep, Receive, Take, Add, Hand, vars, masterVars
<1> QED
  BY <1>1 DEF ClosedCleanly, AllOver, InFlight

\* A master that closes sessions in an orderly way, as in the run, does so cleanly.
THEOREM OrderlyIsClean == ASSUME CloseWhen \in {"never", "orderly"} PROVE Spec => []ClosedCleanly
<1>1. Init => ClosedCleanly
  BY DEF Init, ClosedCleanly
<1>2. ClosedCleanly /\ [Next]_vars => ClosedCleanly'
  <2> SUFFICES ASSUME ClosedCleanly, [Next]_vars, closing' PROVE AllOver'
    BY DEF ClosedCleanly
  <2>1. CASE closing
    <3>1. order' = order
      BY <2>1 DEF Next, Work, LockMib, Prepare, Prepared, Enter, Read, Commit, Undo, Cleanup, Close,
         Answer, DeleteRequest, MasterStep, CloseSession, MainStep, Receive, Take, Add, Hand, vars,
         masterVars
    <3> QED
      BY <2>1, <3>1 DEF ClosedCleanly, AllOver, InFlight
  <2>2. CASE ~closing
    <3>1. CloseSession
      BY <2>2 DEF Next, Work, LockMib, Prepare, Prepared, Enter, Read, Commit, Undo, Cleanup, Close,
         Answer, DeleteRequest, MasterStep, MainStep, Receive, Take, Add, Hand, vars, masterVars
    <3>2. AllOver /\ order' = order
      BY <3>1 DEF CloseSession
    <3> QED
      BY <3>2 DEF AllOver, InFlight
  <2> QED
    BY <2>1, <2>2
<1> QED
  BY <1>1, <1>2, PTL DEF Spec

\* Unless the session was closed over a SET, no thread of the subagent works on
\* a request another thread has deleted, whatever the master gives up waiting
\* for and the subagent refuses or times out.
THEOREM NoDeletedRequestUsed == Spec => [](ClosedCleanly => NoStaleUse)
<1>1. Init => (ClosedCleanly => QuietInv)
  BY QuietInit
<1>2. (ClosedCleanly => QuietInv) /\ [Next]_vars => (ClosedCleanly => QuietInv)'
  BY CleanBefore, QuietStep
<1>3. (ClosedCleanly => QuietInv) => (ClosedCleanly => NoStaleUse)
  BY DEF QuietInv
<1> QED
  BY <1>1, <1>2, <1>3, PTL DEF Spec

-----------------------------------------------------------------------------
(* An undone SET was never seen. *)

\* The main thread has made a request of PDU p.
Made(p) == pc[p] # "none" \/ (p = cur /\ main \in {"add", "hand"})

\* A request has all that was left of those it follows.
Heir ==
    \A p, q \in Pdus :
        p[1] = q[1] /\ Rank(q[2]) < Rank(p[2]) /\ Made(p) =>
            q \notin list /\ ~Active(q) /\ locks[q] = {}

\* What SET t has written stays: no UndoSet of it will be accepted.
Settled(t) ==
    \/ pc[<<t, "cleanup">>] # "none"
    \/ pc[<<t, "commit">>] # "none" /\ pc[<<t, "undo">>] = "none" /\ Of(t) = {} /\ cur[1] # t

LEMMA SetPdus ==
    ASSUME NEW t \in Sets
    PROVE  /\ <<t, "test">> \in Pdus /\ <<t, "commit">> \in Pdus
           /\ <<t, "undo">> \in Pdus /\ <<t, "cleanup">> \in Pdus
BY PduParts DEF Orders, Follows

LEMMA HeirStep == ASSUME LockInv, Heir, [Next]_vars PROVE Heir'
<1>1. TypeInv /\ TypeOK /\ list \subseteq Pdus
  BY DEF LockInv, OrderInv, TypeInv, TypeOK
<1>2. ASSUME UNCHANGED <<main, cur, list, pc, locks>> PROVE Heir'
  BY <1>2 DEF Heir, Made, Active
<1>3. CASE UNCHANGED vars \/ (\E t \in Transactions : MasterStep(t)) \/ CloseSession
  BY <1>2, <1>3 DEF vars, mainVars, MasterStep, CloseSession
<1>4. CASE Receive
  <2>1. UNCHANGED <<list, pc, locks>>
    BY <1>4 DEF Receive
  <2>2. \/ UNCHANGED <<main, cur>>
        \/ main' = "take"
        \/ main' = "add" /\ cur' \in Pdus /\ cur'[2] \notin Follows
    <3>1. Head(inbox) \in Pdus
      BY <1>1, <1>4 DEF Receive, TypeOK
    <3> QED
      BY <1>4, <3>1 DEF Receive, mainVars
  <2>3. \A p, q \in Pdus : p[2] \notin Follows => ~(Rank(q[2]) < Rank(p[2]))
    BY PduFields DEF Rank, Orders, Follows
  <2> QED
    BY <2>1, <2>2, <2>3 DEF Heir, Made, Active
<1>5. CASE Take
  <2>1. /\ main = "take" /\ old \notin freed /\ pc[old] = "rest"
        /\ list' = list \ {old} /\ main' = "add" /\ UNCHANGED <<cur, pc>>
    BY <1>5 DEF Take, LetGo, TakeOver
  <2>2. /\ cur \in Pdus /\ old \in Pdus /\ old # cur /\ old[1] = cur[1] /\ old \in list
        /\ pc[cur] = "none" /\ pc[old] # "none"
    BY <2>1, Follower DEF LockInv, MainOK
  <2>3. \A p \in Pdus : locks'[p] = IF p = cur THEN locks[old] ELSE IF p = old THEN {} ELSE locks[p]
    BY <1>1, <1>5, <2>2 DEF Take, TakeOver, TypeOK
  <2> SUFFICES ASSUME NEW p \in Pdus, NEW q \in Pdus, p[1] = q[1], Rank(q[2]) < Rank(p[2]), Made(p)'
               PROVE  q \notin list' /\ ~Active(q)' /\ locks'[q] = {}
    BY DEF Heir
  <2>4. CASE p # cur
    <3>1. pc[p] # "none" /\ Made(p)
      BY <2>1, <2>4 DEF Made
    <3>2. q # cur
      BY <2>2, <2>4, <3>1, RankType DEF LockInv, OrderInv, KnownOK, Known
    <3> QED
      BY <2>1, <2>3, <3>1, <3>2 DEF Heir, Active
  <2>5. CASE p = cur
    <3>1. q # cur
      BY <2>5, RankType
    <3>2. q \notin list'
      BY <1>1, <2>1, <2>2, <2>5 DEF LockInv, ListOK
    <3>3. CASE q = old
      BY <2>1, <2>2, <2>3, <3>2, <3>3 DEF Active
    <3>4. CASE q # old /\ pc[q] = "none"
      BY <2>1, <2>2, <2>3, <3>1, <3>2, <3>4 DEF Active, LockInv, LocksOK
    <3>5. CASE q # old /\ pc[q] # "none"
      <4>1. Rank(q[2]) # Rank(old[2])
        BY <2>2, <2>5, <3>5 DEF LockInv, OrderInv, KnownOK, Known
      <4>2. ~(Rank(old[2]) < Rank(q[2]))
        BY <2>2, <2>5, <3>5 DEF Heir, Made
      <4>3. Rank(q[2]) < Rank(old[2])
        BY <4>1, <4>2, RankType
      <4>4. ~Active(q) /\ locks[q] = {}
        BY <2>2, <2>5, <4>3 DEF Heir, Made
      <4> QED
        BY <2>1, <2>3, <3>1, <3>2, <3>5, <4>4 DEF Active
    <3> QED
      BY <3>3, <3>4, <3>5
  <2> QED
    BY <2>4, <2>5
<1>6. CASE Add \/ Hand
  <2>1. /\ cur \in Pdus /\ cur' \in {cur, NoPdu} /\ main \in {"add", "hand"}
        /\ list' \subseteq list \union {cur}
        /\ \A q \in Pdus : q # cur => pc'[q] = pc[q]
        /\ main' \in {"hand", "receive"}
    BY <1>1, <1>6 DEF Add, Hand, TypeInv, TypeOK
  <2>2. \A q \in Pdus : locks'[q] \in {{}, locks[q]}
    BY <1>1, <1>6 DEF Add, Hand, Terminate, Unlock, TypeOK
  <2>3. \A p \in Pdus : Made(p)' => Made(p)
    BY <2>1, PduFields DEF Made
  <2>4. \A p \in Pdus : p[1] = cur[1] /\ Rank(cur[2]) < Rank(p[2]) => ~Made(p)
    BY <2>1, RankType DEF LockInv, OrderInv, KnownOK, Known, Made
  <2> QED
    BY <2>1, <2>2, <2>3, <2>4 DEF Heir, Active
<1>7. ASSUME NEW r \in Pdus, Work(r) PROVE Heir'
  <2>1. /\ UNCHANGED <<main, cur>> /\ list' \subseteq list /\ Active(r)
        /\ \A q \in Pdus \ {r} : pc'[q] = pc[q] /\ locks'[q] \in {{}, locks[q]}
    BY <1>1, <1>7, WorkFrame, WorkOnLocks, BecomeType
  <2>2. \A p \in Pdus : Made(p)' => Made(p)
    BY <2>1 DEF Made, Active
  <2> QED
    BY <2>1, <2>2 DEF Heir, Active
<1> QED
  BY <1>3, <1>4, <1>5, <1>6, <1>7 DEF Next, MainStep

\* The request of a SET that comes back to a list without one is ignored.
LEMMA SettledStays ==
    ASSUME LockInv, [Next]_vars, NEW t \in Sets, Settled(t)
    PROVE  Settled(t)'
<1>1. /\ <<t, "commit">> \in Pdus /\ <<t, "undo">> \in Pdus /\ <<t, "cleanup">> \in Pdus
      /\ TypeInv /\ TypeOK /\ t # Nobody /\ NoPdu[1] # t
  BY SetPdus, SetNotNobody DEF LockInv, OrderInv, TypeInv
<1>2. ASSUME UNCHANGED <<cur, pc>>, list' \subseteq list \/ list' \subseteq list \union {cur}
      PROVE  Settled(t)'
  BY <1>2 DEF Settled, Of
<1>3. CASE UNCHANGED vars \/ (\E u \in Transactions : MasterStep(u)) \/ CloseSession
  BY <1>2, <1>3 DEF vars, mainVars, MasterStep, CloseSession
<1>4. CASE Receive
  <2> DEFINE h == Head(inbox)
  <2>1. h \in Pdus /\ 1 \in 1 .. Len(inbox) /\ h = inbox[1]
    BY <1>1, <1>4 DEF Receive, TypeOK
  <2>2. UNCHANGED <<list, pc>> /\ (cur' = cur \/ (cur' = h /\ ~Ignored(h)))
    BY <1>4 DEF Receive, mainVars
  <2> HIDE DEF h
  <2>3. CASE pc[<<t, "cleanup">>] # "none"
    BY <2>2, <2>3 DEF Settled
  <2>4. CASE /\ pc[<<t, "commit">>] # "none" /\ pc[<<t, "undo">>] = "none"
             /\ Of(t) = {} /\ cur[1] # t
    <3>1. ASSUME h[1] = t, ~Ignored(h) PROVE FALSE
      <4>1. Rank("commit") < Rank(h[2])
        BY <1>1, <2>1, <2>4, <3>1 DEF LockInv, OrderInv, SocketOK, Known
      <4>2. h[2] \in Follows
        BY <2>1, <3>1, <4>1, PduFields DEF Rank, Orders, Follows
      <4> QED
        BY <2>4, <3>1, <4>2 DEF Ignored
    <3> QED
      BY <2>2, <2>4, <3>1 DEF Settled, Of
  <2> QED
    BY <2>3, <2>4 DEF Settled
<1>5. CASE Take \/ Add
  BY <1>2, <1>5 DEF Take, Add
<1>6. CASE Hand
  <2>1. list' = list /\ cur' = NoPdu /\ cur \in Pdus /\ pc' = [pc EXCEPT ![cur] = "start"]
    BY <1>1, <1>6 DEF Hand, TypeInv, TypeOK
  <2> QED
    BY <1>1, <2>1 DEF Settled, Of, TypeOK
<1>7. ASSUME NEW p \in Pdus, Work(p) PROVE Settled(t)'
  <2>1. /\ cur' = cur /\ list' \subseteq list
        /\ \A q \in Pdus : pc'[q] = "none" <=> pc[q] = "none"
    BY <1>1, <1>7, WorkFrame, BecomeType DEF Active
  <2> QED
    BY <1>1, <2>1 DEF Settled, Of
<1> QED
  BY <1>3, <1>4, <1>5, <1>6, <1>7 DEF Next, MainStep

\* A SET writes nothing before its CommitSet.
FreshWriter ==
    \A t \in Sets : pc[<<t, "commit">>] \in {"none", "start"} =>
        \A e \in Entries : val[e] # t /\ t \notin copy[e]

\* A request of SET t can still undo what it has written to entry e.
Guarded(e, t) ==
    /\ \E r \in Pdus : r[1] = t /\ r[2] \in Follows /\ e \in locks[r]
    /\ val[e] = t
    /\ \E w \in Writers \ {t} : copy[e] = {w}

WrittenOK ==
    \A t \in Sets, e \in Entries :
        val[e] = t \/ t \in copy[e] => Settled(t) \/ Guarded(e, t)

ReadOK == \A g \in Gets, e \in Entries, t \in Sets : <<g, e, t>> \in got => Settled(t)

UndoneOK == \A t \in undone : pc[<<t, "undo">>] \notin {"none", "start"}

SeenInv == QuietInv /\ Heir /\ FreshWriter /\ WrittenOK /\ ReadOK /\ UndoneOK

LEMMA SeenSuffices == ASSUME SeenInv PROVE UndoneUnseen
<1>1. LockInv /\ OrderInv /\ TypeOK
  BY DEF SeenInv, QuietInv, LockInv, OrderInv, TypeInv
<1> SUFFICES ASSUME NEW t \in undone, NEW e \in Entries
             PROVE  /\ val[e] # t /\ t \notin copy[e]
                    /\ \A g \in Gets : <<g, e, t>> \notin got
  BY DEF UndoneUnseen
<1> DEFINE u == <<t, "undo">>
           c == <<t, "cleanup">>
<1>2. /\ t \in Sets /\ u \in Pdus /\ c \in Pdus /\ u # c
      /\ pc[u] \notin {"none", "start"}
  BY <1>1, SetPdus DEF TypeOK, SeenInv, UndoneOK
<1>3. /\ u[1] = t /\ c[1] = t /\ Rank(u[2]) = 3 /\ Rank(c[2]) = 3
      /\ u[2] = "undo" /\ c[2] = "cleanup"
  BY DEF Rank
<1> HIDE DEF u, c
<1>4. pc[c] = "none" /\ c # cur
  BY <1>1, <1>2, <1>3 DEF OrderInv, KnownOK, Known
<1>5. ~Settled(t)
  BY <1>2, <1>4 DEF Settled, u, c
<1>6. ~Guarded(e, t)
  <2> SUFFICES ASSUME NEW r \in Pdus, r[1] = t, r[2] \in Follows, e \in locks[r]
               PROVE  FALSE
    BY DEF Guarded
  <2>1. CASE r[2] = "commit"
    <3>1. Rank(r[2]) < Rank(u[2])
      BY <1>3, <2>1 DEF Rank
    <3> QED
      BY <1>2, <1>3, <3>1 DEF SeenInv, Heir, Made
  <2>2. CASE r[2] # "commit"
    <3>1. r \in {u, c}
      BY <2>2, PduFields DEF Follows, u, c
    <3> QED
      BY <1>1, <1>2, <1>3, <1>4, <3>1 DEF LockInv, LocksOK
  <2> QED
    BY <2>1, <2>2
<1> QED
  BY <1>2, <1>5, <1>6 DEF SeenInv, WrittenOK, ReadOK

\* As WrittenOK, FreshWriter and ReadOK speak of entries, steps that leave
\* the entries' values alone keep them.
LEMMA SeenQuiet ==
    ASSUME SeenInv, LockInv, [Next]_vars, UNCHANGED <<val, copy, got, undone>>,
           \A t \in Sets : pc'[<<t, "commit">>] \in {"none", "start"} =>
                              pc[<<t, "commit">>] \in {"none", "start"},
           \A r \in Pdus, e \in Entries : r[2] \in Follows /\ e \in locks[r] =>
              \E q \in Pdus : q[1] = r[1] /\ q[2] \in Follows /\ e \in locks'[q]
    PROVE  FreshWriter' /\ WrittenOK' /\ ReadOK'
<1>1. \A t \in Sets : Settled(t) => Settled(t)'
  BY SettledStays
<1>2. \A t \in Sets, e \in Entries : Guarded(e, t) => Guarded(e, t)'
  BY DEF Guarded
<1>3. FreshWriter'
  BY DEF SeenInv, FreshWriter
<1>4. WrittenOK'
  BY <1>1, <1>2 DEF SeenInv, WrittenOK
<1>5. ReadOK'
  BY <1>1 DEF SeenInv, ReadOK
<1> QED
  BY <1>3, <1>4, <1>5

\* An entry that another request has locked was not written by a SET that can
\* still be undone.
LEMMA LockedIsSettled ==
    ASSUME SeenInv, NEW p \in Pdus, NEW e \in Entries, e \in locks[p],
           NEW t \in Sets, val[e] = t \/ t \in copy[e], p[1] # t \/ p[2] \notin Follows
    PROVE  Settled(t)
<1>1. ~Guarded(e, t)
  BY DEF Guarded, SeenInv, QuietInv, LockInv, OwnersOK
<1> QED
  BY <1>1 DEF SeenInv, WrittenOK

LEMMA SeenCommit ==
    ASSUME SeenInv, NEW p \in Pdus, Commit(p), [Next]_vars
    PROVE  FreshWriter' /\ WrittenOK'
<1>1. /\ TypeOK /\ LockInv /\ p[2] = "commit" /\ pc[p] = "start" /\ p[1] \in Sets
      /\ p = <<p[1], "commit">> /\ pc' = [pc EXCEPT ![p] = "answer"] /\ locks' = locks
      /\ p[2] \in Follows
  BY PduFields DEF SeenInv, QuietInv, LockInv, OrderInv, TypeInv, Commit, At, Become, Orders, Follows
<1>2. PICK D \in SUBSET locks[p] :
         /\ val' = [e \in Entries |-> IF e \in D THEN p[1] ELSE val[e]]
         /\ copy' = [e \in Entries |-> IF e \in D THEN {val[e]} ELSE copy[e]]
  BY DEF Commit
<1>3. \A e \in Entries : val[e] # p[1] /\ p[1] \notin copy[e]
  BY <1>1 DEF SeenInv, FreshWriter
<1>4. FreshWriter'
  <2> SUFFICES ASSUME NEW t \in Sets, pc'[<<t, "commit">>] \in {"none", "start"}, NEW e \in Entries
               PROVE  val'[e] # t /\ t \notin copy'[e]
    BY DEF FreshWriter
  <2>1. <<t, "commit">> # p /\ t # p[1] /\ pc[<<t, "commit">>] \in {"none", "start"}
    BY <1>1, SetPdus DEF TypeOK
  <2>2. val[e] # t /\ t \notin copy[e]
    BY <2>1 DEF SeenInv, FreshWriter
  <2> QED
    BY <1>2, <2>1, <2>2
<1>5. WrittenOK'
  <2> SUFFICES ASSUME NEW t \in Sets, NEW e \in Entries, val'[e] = t \/ t \in copy'[e]
               PROVE  Settled(t)' \/ Guarded(e, t)'
    BY DEF WrittenOK
  <2>1. CASE e \in D /\ t = p[1]
    <3>1. val'[e] = t /\ copy'[e] = {val[e]} /\ val[e] \in Writers \ {t}
      BY <1>1, <1>2, <1>3, <2>1 DEF TypeOK
    <3>2. e \in locks'[p]
      BY <1>1, <2>1
    <3> QED
      BY <1>1, <2>1, <3>1, <3>2 DEF Guarded
  <2>2. CASE e \in D /\ t # p[1]
    <3>1. val[e] = t
      BY <1>2, <2>2
    <3>2. Settled(t)
      BY <2>2, <3>1, LockedIsSettled
    <3> QED
      BY <1>1, <3>2, SettledStays
  <2>3. CASE e \notin D
    <3>1. val'[e] = val[e] /\ copy'[e] = copy[e]
      BY <1>2, <2>3
    <3>2. Guarded(e, t) => Guarded(e, t)'
      BY <1>1, <3>1 DEF Guarded
    <3>3. Settled(t) => Settled(t)'
      BY <1>1, SettledStays
    <3> QED
      BY <3>1, <3>2, <3>3 DEF SeenInv, WrittenOK
  <2> QED
    BY <2>1, <2>2, <2>3
<1> QED
  BY <1>4, <1>5

LEMMA SeenUndo ==
    ASSUME SeenInv, NEW p \in Pdus, Undo(p), [Next]_vars
    PROVE  FreshWriter' /\ WrittenOK'
<1>1. /\ TypeOK /\ LockInv /\ p[2] = "undo" /\ pc' = [pc EXCEPT ![p] = "answer"]
      /\ val' = Restored(p) /\ CleanUp({p}) /\ Unlock({p}) /\ p[2] \in Follows
  BY DEF SeenInv, QuietInv, LockInv, OrderInv, TypeInv, Undo, Become, Follows
<1>2. /\ \A e \in Entries : val'[e] = val[e] \/ (e \in locks[p] /\ val'[e] \in copy[e])
      /\ \A e \in Entries : e \in locks[p] => copy'[e] = {}
      /\ \A e \in Entries : e \notin locks[p] => copy'[e] = copy[e]
      /\ \A q \in Pdus : q # p => locks'[q] = locks[q]
      /\ \A e \in Entries : e \in locks[p] /\ copy[e] # {} => val'[e] \in copy[e]
  <2>1. \A S : S # {} => (CHOOSE v \in S : TRUE) \in S
    OBVIOUS
  <2> QED
    BY <1>1, <2>1 DEF Restored, CleanUp, Unlock
<1>3. FreshWriter'
  <2> SUFFICES ASSUME NEW t \in Sets, pc'[<<t, "commit">>] \in {"none", "start"}, NEW e \in Entries
               PROVE  val'[e] # t /\ t \notin copy'[e]
    BY DEF FreshWriter
  <2>1. pc[<<t, "commit">>] \in {"none", "start"}
    BY <1>1, SetPdus DEF TypeOK
  <2>2. val[e] # t /\ t \notin copy[e]
    BY <2>1 DEF SeenInv, FreshWriter
  <2> QED
    BY <1>2, <2>2
<1>4. WrittenOK'
  <2> SUFFICES ASSUME NEW t \in Sets, NEW e \in Entries, val'[e] = t \/ t \in copy'[e]
               PROVE  Settled(t)' \/ Guarded(e, t)'
    BY DEF WrittenOK
  <2>1. Settled(t) => Settled(t)'
    BY <1>1, SettledStays
  <2>2. (val[e] = t \/ t \in copy[e]) /\ (Settled(t) \/ Guarded(e, t))
    BY <1>2 DEF SeenInv, WrittenOK
  <2>3. CASE e \in locks[p]
    <3>1. ~Guarded(e, t)
      <4> SUFFICES ASSUME NEW w \in Writers \ {t}, copy[e] = {w} PROVE FALSE
        BY DEF Guarded
      <4>1. val'[e] = w /\ copy'[e] = {}
        BY <1>2, <2>3
      <4> QED
        BY <4>1
    <3> QED
      BY <2>1, <2>2, <3>1
  <2>4. CASE e \notin locks[p]
    <3>1. val'[e] = val[e] /\ copy'[e] = copy[e]
      BY <1>2, <2>4
    <3>2. Guarded(e, t) => Guarded(e, t)'
      BY <1>2, <2>4, <3>1 DEF Guarded
    <3> QED
      BY <2>1, <2>2, <3>2
  <2> QED
    BY <2>3, <2>4
<1> QED
  BY <1>3, <1>4

\* Undo copies are given up for entries whose SETs are settled by the step.
LEMMA SeenCleared ==
    ASSUME SeenInv, [Next]_vars, NEW R \in SUBSET Pdus, CleanUp(R), Unlock(R),
           UNCHANGED <<val, got>>,
           \A t \in Sets : pc'[<<t, "commit">>] \in {"none", "start"} =>
                              pc[<<t, "commit">>] \in {"none", "start"},
           \A r \in R, t \in Sets :
              r[1] = t /\ r[2] \in Follows /\ locks[r] # {} => Settled(t)'
    PROVE  FreshWriter' /\ WrittenOK' /\ ReadOK'
<1>1. /\ LockInv /\ \A q \in Pdus : q \notin R => locks'[q] = locks[q]
      /\ \A e \in Entries : copy'[e] = IF \E r \in R : e \in locks[r] THEN {} ELSE copy[e]
  BY DEF SeenInv, QuietInv, CleanUp, Unlock
<1>2. \A t \in Sets : Settled(t) => Settled(t)'
  BY <1>1, SettledStays
<1>3. FreshWriter'
  BY <1>1 DEF SeenInv, FreshWriter
<1>4. WrittenOK'
  <2> SUFFICES ASSUME NEW t \in Sets, NEW e \in Entries, val[e] = t \/ t \in copy'[e],
                      Guarded(e, t)
               PROVE  Settled(t)' \/ Guarded(e, t)'
    BY <1>1, <1>2 DEF SeenInv, WrittenOK
  <2>1. PICK r \in Pdus : r[1] = t /\ r[2] \in Follows /\ e \in locks[r]
    BY DEF Guarded
  <2>2. CASE r \in R
    BY <2>1, <2>2
  <2>3. CASE r \notin R
    <3>1. \A q \in R : e \notin locks[q]
      BY <1>1, <2>1, <2>3 DEF LockInv, OwnersOK
    <3>2. copy'[e] = copy[e] /\ e \in locks'[r]
      BY <1>1, <2>1, <2>3, <3>1
    <3> QED
      BY <2>1, <3>2 DEF Guarded
  <2> QED
    BY <2>2, <2>3
<1>5. ReadOK'
  BY <1>2 DEF SeenInv, ReadOK
<1> QED
  BY <1>3, <1>4, <1>5

LEMMA SeenAdd ==
    ASSUME SeenInv, Add, [Next]_vars
    PROVE  FreshWriter' /\ WrittenOK' /\ ReadOK'
<1>1. PICK R \in SUBSET Overdue : Terminate(R) /\ list' = (list \ R) \union ({cur} \ {ClosePdu})
  BY DEF Add
<1>2. /\ TypeOK /\ LockInv /\ main = "add" /\ UNCHANGED <<cur, pc, val, got>>
      /\ CleanUp(R) /\ Unlock(R) /\ R \in SUBSET Pdus
      /\ \A r \in R : r \in list /\ r[2] \in {"test", "commit"} /\ pc[r] = "rest"
  BY <1>1 DEF Add, Overdue, Terminate, SeenInv, QuietInv, LockInv, OrderInv, TypeInv, TypeOK
<1>3. ASSUME NEW r \in R, r[2] \in Follows
      PROVE  Settled(r[1])'
  <2> DEFINE u == <<r[1], "undo">>
  <2>1. /\ r[2] = "commit" /\ r = <<r[1], "commit">> /\ r[1] \in Sets
        /\ u \in Pdus /\ u[1] = r[1] /\ u[2] = "undo"
    BY <1>2, <1>3, PduFields, SetPdus DEF Follows, Orders
  <2>2. Rank(r[2]) < Rank(u[2])
    BY <2>1 DEF Rank
  <2>3. pc[u] = "none"
    BY <1>2, <2>1, <2>2 DEF SeenInv, Heir, Made
  <2>4. Of(cur[1]) = {} /\ r \in Of(r[1])
    BY <1>2 DEF LockInv, MainOK, Of
  <2>5. cur[1] # r[1]
    BY <2>4
  <2>6. \A q \in list : q[1] = r[1] => q = r
    BY <1>2 DEF LockInv, ListOK
  <2>7. {q \in list' : q[1] = r[1]} = {}
    BY <1>1, <2>5, <2>6
  <2> QED
    BY <1>2, <2>1, <2>3, <2>5, <2>7 DEF Settled, Of
<1>4. \A r \in R, t \in Sets : r[1] = t /\ r[2] \in Follows /\ locks[r] # {} => Settled(t)'
  BY <1>3
<1> QED
  BY <1>2, <1>4, SeenCleared

LEMMA SeenRead ==
    ASSUME SeenInv, NEW p \in Pdus, Read(p), [Next]_vars
    PROVE  FreshWriter' /\ WrittenOK' /\ ReadOK'
<1>1. /\ TypeOK /\ TypeInv /\ LockInv /\ UNCHANGED <<val, copy>> /\ Unlock({p})
      /\ pc[p] = "read" /\ p[2] = "get"
      /\ got' = got \union {<<p[1], e, val[e]>> : e \in locks[p]}
  BY DEF Read, At, SeenInv, QuietInv, LockInv, OrderInv, TypeInv
<1>2. \A t \in Sets : Settled(t) => Settled(t)'
  BY <1>1, SettledStays
<1>3. FreshWriter'
  <2>1. \A t \in Sets : <<t, "commit">> \in Pdus /\ <<t, "commit">> # p
    <3>1. \A t : <<t, "commit">>[2] # "get"
      OBVIOUS
    <3> QED
      BY <1>1, <3>1, SetPdus
  <2>2. \A t \in Sets : pc'[<<t, "commit">>] = pc[<<t, "commit">>]
    BY <1>1, <2>1 DEF Read, Become, TypeOK
  <2> QED
    BY <1>1, <2>2 DEF SeenInv, FreshWriter
<1>4. WrittenOK'
  <2>1. \A r \in Pdus : r[2] \in Follows => locks'[r] = locks[r]
    BY <1>1 DEF Unlock, Follows
  <2>2. \A t \in Sets, e \in Entries : Guarded(e, t) => Guarded(e, t)'
    BY <1>1, <2>1 DEF Guarded
  <2> QED
    BY <1>1, <1>2, <2>2 DEF SeenInv, WrittenOK
<1>5. ReadOK'
  <2> SUFFICES ASSUME NEW t \in Sets, NEW e \in locks[p], val[e] = t
               PROVE  Settled(t)
    BY <1>1, <1>2 DEF SeenInv, ReadOK
  <2>1. e \in Entries /\ p[2] \notin Follows
    BY <1>1 DEF TypeOK, Follows
  <2> QED
    BY <2>1, LockedIsSettled
<1> QED
  BY <1>3, <1>4, <1>5

LEMMA UndoneStep == ASSUME SeenInv, [Next]_vars PROVE UndoneOK'
<1>1. TypeOK /\ TypeInv /\ LockInv
  BY DEF SeenInv, QuietInv, LockInv, OrderInv, TypeInv
<1>2. \A t \in undone : <<t, "undo">> \in Pdus
  BY <1>1, SetPdus DEF TypeOK
<1>3. ASSUME UNCHANGED <<pc, undone>> PROVE UndoneOK'
  BY <1>3 DEF SeenInv, UndoneOK
<1>4. CASE UNCHANGED vars \/ (\E t \in Transactions : MasterStep(t)) \/ CloseSession
  BY <1>3, <1>4 DEF vars, entryVars, MasterStep, CloseSession
<1>5. CASE Receive \/ Take \/ Add
  BY <1>3, <1>5 DEF Receive, Take, Add, entryVars
<1>6. CASE Hand
  <2>1. undone' = undone /\ pc' = [pc EXCEPT ![cur] = "start"] /\ pc[cur] = "none"
    BY <1>1, <1>6 DEF Hand, entryVars, LockInv, MainOK
  <2> QED
    BY <1>1, <1>2, <2>1 DEF SeenInv, UndoneOK, TypeOK
<1>7. ASSUME NEW p \in Pdus, Work(p) PROVE UndoneOK'
  <2>1. \A q \in Pdus : q # p => pc'[q] = pc[q]
    BY <1>1, <1>7, WorkFrame, BecomeType
  <2>2. pc'[p] \in {"none", "start"} => p[2] = "get" \/ pc[p] \in {"none", "start"}
    BY <1>1, <1>7 DEF Work, LockMib, Prepare, Prepared, Enter, Read, Commit, Undo, Cleanup, Close,
       Answer, DeleteRequest, Become, TypeOK, TypeInv, At
  <2>3. CASE Undo(p)
    <3>1. undone' = undone \union {p[1]} /\ pc' = [pc EXCEPT ![p] = "answer"] /\ p = <<p[1], "undo">>
      BY <1>7, <2>3, PduFields DEF Undo, Become
    <3>2. pc'[p] = "answer"
      BY <1>1, <3>1 DEF TypeOK
    <3> QED
      BY <1>2, <2>1, <3>1, <3>2 DEF SeenInv, UndoneOK
  <2>4. CASE ~Undo(p)
    <3>1. undone' = undone
      BY <1>7, <2>4 DEF Work, LockMib, Prepare, Prepared, Enter, Read, Commit, Cleanup, Close,
         Answer, DeleteRequest, entryVars
    <3>2. \A t : p = <<t, "undo">> => p[2] # "get"
      OBVIOUS
    <3> QED
      BY <1>2, <2>1, <2>2, <3>1, <3>2 DEF SeenInv, UndoneOK
  <2> QED
    BY <2>3, <2>4
<1> QED
  BY <1>4, <1>5, <1>6, <1>7 DEF Next, MainStep

\* The work on a CommitSet does not begin again.
LEMMA CommitOnce ==
    ASSUME LockInv, [Next]_vars, NEW t \in Sets, pc'[<<t, "commit">>] \in {"none", "start"}
    PROVE  pc[<<t, "commit">>] \in {"none", "start"}
<1> DEFINE c == <<t, "commit">>
<1>1. TypeOK /\ TypeInv /\ c \in Pdus /\ c[2] = "commit"
  BY SetPdus DEF LockInv, OrderInv, TypeInv
<1> SUFFICES ASSUME pc'[c] # pc[c] PROVE pc[c] \in {"none", "start"}
  OBVIOUS
<1> HIDE DEF c
<1>2. CASE UNCHANGED vars \/ (\E u \in Transactions : MasterStep(u)) \/ CloseSession
  BY <1>2 DEF vars, MasterStep, CloseSession
<1>3. CASE MainStep
  BY <1>1, <1>3 DEF MainStep, Receive, Take, Add, Hand, LockInv, MainOK, TypeOK
<1>4. ASSUME NEW p \in Pdus, Work(p) PROVE pc[c] \in {"none", "start"}
  <2>1. p = c
    BY <1>1, <1>4, WorkFrame, BecomeType
  <2>2. pc'[c] \notin {"none", "start"}
    BY <1>1, <1>4, <2>1 DEF Work, LockMib, Prepare, Prepared, Enter, Read, Commit, Undo, Cleanup,
       Close, Answer, DeleteRequest, Become, TypeOK, TypeInv, At
  <2> QED
    BY <2>2 DEF c
<1> QED
  BY <1>2, <1>3, <1>4 DEF Next

LEMMA SeenWork ==
    ASSUME SeenInv, ClosedCleanly, NEW p \in Pdus, Work(p), [Next]_vars
    PROVE  FreshWriter' /\ WrittenOK' /\ ReadOK'
<1>1. /\ TypeOK /\ TypeInv /\ LockInv /\ QuietInv
      /\ \A t \in Sets : pc'[<<t, "commit">>] \in {"none", "start"} =>
                            pc[<<t, "commit">>] \in {"none", "start"}
  BY CommitOnce DEF SeenInv, QuietInv, LockInv, OrderInv, TypeInv
<1>2. CASE Commit(p) \/ Undo(p)
  <2>1. got' = got
    BY <1>2 DEF Commit, Undo
  <2>2. ReadOK'
    BY <1>1, <2>1, SettledStays DEF SeenInv, ReadOK
  <2> QED
    BY <1>2, <2>2, SeenCommit, SeenUndo
<1>3. CASE Read(p)
  BY <1>3, SeenRead
<1>4. CASE Cleanup(p)
  <2>1. /\ CleanUp({p}) /\ Unlock({p}) /\ UNCHANGED <<val, got>>
        /\ p[2] = "cleanup" /\ pc'[p] = "done" /\ p = <<p[1], "cleanup">>
    BY <1>1, <1>4, PduFields DEF Cleanup, Terminate, Become, TypeOK
  <2>2. \A r \in {p}, t \in Sets : r[1] = t /\ r[2] \in Follows /\ locks[r] # {} => Settled(t)'
    BY <2>1 DEF Settled
  <2> QED
    BY <1>1, <2>1, <2>2, SeenCleared
<1>5. CASE Close(p)
  <2> DEFINE R == {r \in list : r[2] \in {"test", "commit"}}
  <2>1. p = ClosePdu /\ pc[p] # "none"
    BY <1>5, PduFields DEF Close, At
  <2>2. R = {}
    BY <1>1, <2>1, CloseFindsNone DEF QuietInv, Known
  <2>3. CleanUp(R) /\ Unlock(R) /\ UNCHANGED <<val, got>>
    BY <1>5 DEF Close
  <2> HIDE DEF R
  <2> QED
    BY <1>1, <2>2, <2>3, SeenCleared
<1>6. ASSUME \/ LockMib(p) \/ Prepared(p) \/ Answer(p) \/ DeleteRequest(p)
             \/ \E e \in Entries : Prepare(p, e) \/ Enter(p, e)
      PROVE  FreshWriter' /\ WrittenOK' /\ ReadOK'
  <2>1. UNCHANGED <<val, copy, got, undone>>
    BY <1>6 DEF LockMib, Prepared, Answer, DeleteRequest, Prepare, Enter, entryVars
  <2>2. \A r \in Pdus : r[2] \in Follows => locks'[r] = locks[r]
    BY <1>1, <1>6 DEF LockMib, Prepared, Answer, DeleteRequest, Prepare, Enter, entryVars, TypeOK,
       Follows
  <2> QED
    BY <1>1, <2>1, <2>2, SeenQuiet
<1> QED
  BY <1>2, <1>3, <1>4, <1>5, <1>6 DEF Work

LEMMA SeenTake ==
    ASSUME SeenInv, Take, [Next]_vars
    PROVE  FreshWriter' /\ WrittenOK' /\ ReadOK'
<1>1. TypeOK /\ LockInv /\ UNCHANGED <<val, copy, got, undone, pc>> /\ main = "take"
  BY DEF SeenInv, QuietInv, LockInv, OrderInv, TypeInv, Take
<1>2. cur \in Pdus /\ old \in Pdus /\ old # cur /\ old[1] = cur[1] /\ cur[2] \in Follows
      /\ locks[cur] = {}
  BY <1>1, Follower DEF LockInv, MainOK
<1>3. \A p \in Pdus : locks'[p] = IF p = cur THEN locks[old] ELSE IF p = old THEN {} ELSE locks[p]
  BY <1>1, <1>2 DEF Take, TakeOver, TypeOK
<1>4. \A r \in Pdus, e \in Entries : r[2] \in Follows /\ e \in locks[r] =>
         \E q \in Pdus : q[1] = r[1] /\ q[2] \in Follows /\ e \in locks'[q]
  BY <1>2, <1>3
<1> QED
  BY <1>1, <1>4, SeenQuiet

LEMMA SeenStep == ASSUME SeenInv, ClosedCleanly, [Next]_vars PROVE SeenInv'
<1>1. QuietInv' /\ Heir' /\ UndoneOK' /\ LockInv
  BY QuietStep, HeirStep, UndoneStep DEF SeenInv, QuietInv
<1>2. \A t \in Sets : pc'[<<t, "commit">>] \in {"none", "start"} =>
                        pc[<<t, "commit">>] \in {"none", "start"}
  BY <1>1, CommitOnce
<1>3. CASE \/ UNCHANGED vars \/ (\E t \in Transactions : MasterStep(t)) \/ CloseSession
           \/ Receive \/ Hand
  <2>1. UNCHANGED <<val, copy, got, undone, locks>>
    BY <1>3 DEF vars, entryVars, MasterStep, CloseSession, Receive, Hand
  <2>2. FreshWriter' /\ WrittenOK' /\ ReadOK'
    BY <1>1, <1>2, <2>1, SeenQuiet
  <2> QED
    BY <1>1, <2>2 DEF SeenInv
<1>4. CASE Take
  BY <1>1, <1>4, SeenTake DEF SeenInv
<1>5. CASE Add
  BY <1>1, <1>5, SeenAdd DEF SeenInv
<1>6. CASE \E p \in Pdus : Work(p)
  BY <1>1, <1>6, SeenWork DEF SeenInv
<1> QED
  BY <1>3, <1>4, <1>5, <1>6 DEF Next, MainStep

LEMMA SeenInit == Init => SeenInv
<1> SUFFICES ASSUME Init PROVE SeenInv
  OBVIOUS
<1>1. /\ QuietInv /\ main = "receive" /\ undone = {} /\ got = {}
      /\ \A p \in Pdus : pc[p] = "none"
      /\ \A e \in Entries : val[e] = Nobody /\ copy[e] = {}
  BY QuietInit DEF Init
<1>2. Heir
  BY <1>1 DEF Heir, Made
<1> QED
  BY <1>1, <1>2, SetNotNobody DEF SeenInv, FreshWriter, WrittenOK, ReadOK, UndoneOK

\* Unless the session was closed over a SET: when a subagent has undone a SET,
\* none of its values is left in an entry or in an undo copy, and no GET has ever
\* read one.
THEOREM UndoneNeverSeen == Spec => [](ClosedCleanly => UndoneUnseen)
<1>1. Init => (ClosedCleanly => SeenInv)
  BY SeenInit
<1>2. (ClosedCleanly => SeenInv) /\ [Next]_vars => (ClosedCleanly => SeenInv)'
  BY CleanBefore, SeenStep
<1>3. (ClosedCleanly => SeenInv) => (ClosedCleanly => UndoneUnseen)
  BY SeenSuffices
<1> QED
  BY <1>1, <1>2, <1>3, PTL DEF Spec
=============================================================================
