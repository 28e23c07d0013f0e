--------------------------- MODULE LockQueueProofs ---------------------------
(***************************************************************************)
(* Theorems about LockQueue for every number of requests and objects: its  *)
(* types, that no two requests hold an object, and that the queue          *)
(* implements LockTable.                                                   *)
(***************************************************************************)
EXTENDS LockQueue, TLAPS

-----------------------------------------------------------------------------
(* The lists *)

Once(list) == \A i, j \in DOMAIN list : list[i] = list[j] => i = j

LEMMA AppendAmong ==
    ASSUME NEW S, NEW list \in Seq(S), NEW x \in S
    PROVE  /\ Append(list, x) \in Seq(S)
           /\ \A r : Among(r, Append(list, x)) <=> r = x \/ Among(r, list)
           /\ Once(list) /\ ~Among(x, list) => Once(Append(list, x))
  <1>1. /\ Append(list, x) \in Seq(S)
        /\ DOMAIN list = 1 .. Len(list) /\ Len(list) \in Nat
        /\ DOMAIN Append(list, x) = 1 .. Len(list) + 1
        /\ Append(list, x)[Len(list) + 1] = x
        /\ \A i \in 1 .. Len(list) : Append(list, x)[i] = list[i]
    OBVIOUS
  <1>2. \A r : Among(r, Append(list, x)) <=> r = x \/ Among(r, list)
    BY <1>1 DEF Among
  <1>3. Once(list) /\ ~Among(x, list) => Once(Append(list, x))
    BY <1>1 DEF Among, Once
  <1> QED BY <1>1, <1>2, <1>3

LEMMA TailAmong ==
    ASSUME NEW S, NEW list \in Seq(S), list # <<>>, Once(list)
    PROVE  /\ Head(list) \in S /\ Tail(list) \in Seq(S) /\ Len(list) = Len(Tail(list)) + 1
           /\ Among(Head(list), list)
           /\ \A r : Among(r, Tail(list)) <=> r # Head(list) /\ Among(r, list)
           /\ Once(Tail(list))
  <1>1. /\ Head(list) \in S /\ Tail(list) \in Seq(S)
        /\ DOMAIN list = 1 .. Len(list) /\ Len(list) \in Nat /\ Len(list) > 0
        /\ Len(Tail(list)) = Len(list) - 1
        /\ DOMAIN Tail(list) = 1 .. Len(list) - 1
        /\ Head(list) = list[1]
        /\ \A i \in 1 .. Len(list) - 1 : Tail(list)[i] = list[i + 1]
    OBVIOUS
  <1>2. Among(Head(list), list)
    BY <1>1 DEF Among
  <1>3. ASSUME NEW r, Among(r, Tail(list)) PROVE r # Head(list) /\ Among(r, list)
    <2>1. PICK i \in 1 .. Len(list) - 1 : Tail(list)[i] = r
      BY <1>1, <1>3 DEF Among
    <2>2. i + 1 \in DOMAIN list /\ list[i + 1] = r /\ 1 \in DOMAIN list /\ i + 1 # 1
      BY <1>1, <2>1
    <2> QED BY <1>1, <2>2 DEF Among, Once
  <1>4. ASSUME NEW r, r # Head(list), Among(r, list) PROVE Among(r, Tail(list))
    <2>1. PICK i \in DOMAIN list : list[i] = r
      BY <1>4 DEF Among
    <2>2. i - 1 \in 1 .. Len(list) - 1 /\ Tail(list)[i - 1] = list[i]
      BY <1>1, <1>4, <2>1
    <2> QED BY <1>1, <2>1, <2>2 DEF Among
  <1>5. Once(Tail(list))
    <2> SUFFICES ASSUME NEW i \in DOMAIN Tail(list), NEW j \in DOMAIN Tail(list),
                        Tail(list)[i] = Tail(list)[j]
                 PROVE  i = j
      BY DEF Once
    <2>1. /\ i + 1 \in DOMAIN list /\ j + 1 \in DOMAIN list
          /\ list[i + 1] = list[j + 1] /\ i \in Nat /\ j \in Nat
      BY <1>1
    <2>2. i + 1 = j + 1
      BY <2>1 DEF Once
    <2> QED BY <2>1, <2>2
  <1> QED BY <1>1, <1>2, <1>3, <1>4, <1>5

-----------------------------------------------------------------------------
(* Types *)

LEMMA TypeStep == ASSUME TypeOK, [Next]_vars PROVE TypeOK'
  <1> USE LockQueueAssumption
  <1>1. ASSUME NEW r \in Requests, LockMib(r) PROVE TypeOK'
    BY <1>1 DEF TypeOK, LockMib, Goto, SetPlaces, GetPlaces, queueVars, ownerVars
  <1>2. ASSUME NEW r \in Requests, Destroy(r) PROVE TypeOK'
    BY <1>2 DEF TypeOK, Destroy, Goto, Notified, SetPlaces, GetPlaces, QueuePlaces, ownerVars
  <1>3. ASSUME NEW r \in Setters, Acquire(r) PROVE TypeOK'
    <2>1. pendingLock' \in Seq(Setters) /\ Len(pendingLock') = Len(pendingLock) + 1
      BY <1>3 DEF TypeOK, Acquire
    <2>2. left' \in 0 .. Len(pendingLock')
      BY <1>3, <2>1 DEF TypeOK, Acquire
    <2> QED BY <1>3, <2>1, <2>2 DEF TypeOK, Acquire, Goto, Notified, Busy, SetPlaces, GetPlaces, Calls,
                QueuePlaces, ownerVars, Requests
  <1>4. ASSUME NEW r \in Setters, Wait(r) PROVE TypeOK'
    BY <1>4 DEF TypeOK, Wait, Calls, queueVars, ownerVars
  <1>5. ASSUME NEW r \in Setters, Return(r) PROVE TypeOK'
    <2>1. tgt[r] \in Targets /\ r \in Requests
      BY <1>5 DEF TypeOK, Return, Requests
    <2>2. locks' \in [Setters -> SUBSET Targets] /\ pc' \in [Requests -> SetPlaces \union GetPlaces]
      BY <1>5, <2>1 DEF TypeOK, Return, Goto, SetPlaces
    <2>3. tgt' = [tgt EXCEPT ![r] = NoOne] /\ call' = [call EXCEPT ![r] = "none"]
      BY <1>5 DEF Return
    <2> QED BY <1>5, <2>1, <2>2, <2>3 DEF TypeOK, Return, Calls, queueVars, ownerVars, Requests
  <1>6. ASSUME NEW r \in Setters, Prepared(r) PROVE TypeOK'
    BY <1>6 DEF TypeOK, Prepared, Goto, SetPlaces, GetPlaces, queueVars, ownerVars
  <1>7. ASSUME NEW r \in Setters, Release(r) PROVE TypeOK'
    <2>1. pendingRelease' \in Seq(Setters)
      BY <1>7 DEF TypeOK, Release
    <2> QED BY <1>7, <2>1 DEF TypeOK, Release, Goto, Notified, Busy, SetPlaces, GetPlaces, Calls,
                QueuePlaces, ownerVars, Requests
  <1>8. ASSUME NEW r \in Setters, Answered(r) PROVE TypeOK'
    BY <1>8 DEF TypeOK, Answered, Goto, SetPlaces, GetPlaces, queueVars, ownerVars
  <1>9. ASSUME NEW g \in Getters, GetStep(g) PROVE TypeOK'
    <2>1. g \in Requests /\ tgt[g] \in Targets
      BY DEF TypeOK, Requests
    <2>2. CASE StartSynch(g)
      BY <2>1, <2>2 DEF TypeOK, StartSynch, Goto, SetPlaces, GetPlaces, queueVars, ownerVars
    <2>3. CASE EndSynch(g)
      BY <2>1, <2>3 DEF TypeOK, EndSynch, Goto, SetPlaces, GetPlaces, queueVars, ownerVars
    <2> QED BY <1>9, <2>2, <2>3 DEF GetStep
  <1>10. CASE Enter
    BY <1>10 DEF TypeOK, Enter, QueuePlaces, requestVars, ownerVars
  <1>11. CASE Unlock
    <2>1. Head(pendingRelease) \in Setters /\ pendingRelease' \in Seq(Setters)
      BY <1>11 DEF TypeOK, Unlock
    <2> QED BY <1>11, <2>1 DEF TypeOK, Unlock, QueuePlaces, requestVars, ownerVars, Requests
  <1>12. CASE StartScan
    BY <1>12 DEF TypeOK, StartScan, QueuePlaces, requestVars, ownerVars
  <1>13. CASE TryLock
    <2>1. pendingLock # <<>>
      BY <1>13 DEF TypeOK, TryLock
    <2>2. /\ Head(pendingLock) \in Setters /\ pendingLock' \in Seq(Setters)
          /\ Len(pendingLock') = Len(pendingLock) - 1 /\ Len(pendingLock) \in Nat
      BY <1>13, <2>1 DEF TypeOK, TryLock
    <2>3. left' \in 0 .. Len(pendingLock')
      BY <1>13, <2>2 DEF TypeOK, TryLock
    <2> QED BY <1>13, <2>2, <2>3 DEF TypeOK, TryLock, QueuePlaces, requestVars, ownerVars, Requests
  <1>14. CASE PutBack
    <2>1. pendingLock # <<>>
      BY <1>14 DEF TypeOK, PutBack
    <2>2. /\ Head(pendingLock) \in Setters /\ Tail(pendingLock) \in Seq(Setters)
          /\ Len(Tail(pendingLock)) = Len(pendingLock) - 1 /\ Len(pendingLock) \in Nat
      BY <2>1 DEF TypeOK
    <2>3. /\ pendingLock' \in Seq(Setters) /\ Len(pendingLock') = Len(pendingLock)
      BY <1>14, <2>2 DEF PutBack
    <2>4. left' \in 0 .. Len(pendingLock')
      BY <1>14, <2>2, <2>3 DEF TypeOK, PutBack
    <2> QED BY <1>14, <2>3, <2>4 DEF TypeOK, PutBack, requestVars, ownerVars
  <1>15. CASE NotifyRequest
    <2>1. current \in Setters /\ call[current] # "none"
      BY <1>15 DEF TypeOK, NotifyRequest
    <2> QED BY <1>15, <2>1 DEF TypeOK, NotifyRequest, QueuePlaces, Calls, requestVars, ownerVars
  <1>16. CASE Sleep \/ Timeout
    BY <1>16 DEF TypeOK, Sleep, Timeout, QueuePlaces, requestVars, ownerVars
  <1>17. CASE DeleteStep \/ Gone \/ UNCHANGED vars
    BY <1>17 DEF TypeOK, DeleteStep, Delete, NotifyQueue, Join, Gone, Notified, QueuePlaces, vars, requestVars,
                 queueVars, ownerVars
  <1> QED BY <1>1, <1>2, <1>3, <1>4, <1>5, <1>6, <1>7, <1>8, <1>9, <1>10, <1>11, <1>12, <1>13, <1>14,
             <1>15, <1>16, <1>17 DEF Next, SetStep, QueueStep

\* The variables keep their types: the queue's thread looks at no more
\* requests than there are, and has one to notify exactly when it says so.
THEOREM TypeCorrect == Spec => []TypeOK
  <1>1. Init => TypeOK
    BY LockQueueAssumption DEF Init, TypeOK, SetPlaces, GetPlaces, Calls, QueuePlaces, Requests
  <1> QED BY <1>1, TypeStep, PTL DEF Spec
-----------------------------------------------------------------------------
(* Where requests are *)

\* A request is in acquire or release exactly while it says so, and its
\* LockRequest is then in one list, or the queue's thread or the request has it.
CallsKnown ==
    /\ \A r \in Setters : pc[r] \in SetPlaces /\ (call[r] # "none" <=> pc[r] \in {"lock", "unlock"})
    /\ \A g \in Getters : pc[g] \in GetPlaces

ListsKnown ==
    /\ \A r \in Setters : Among(r, pendingLock) => pc[r] = "lock"
    /\ \A r \in Setters : Among(r, pendingRelease) => pc[r] = "unlock"
    /\ \A r \in Setters : Among(r, pendingLock) \/ Among(r, pendingRelease) =>
                            call[r] # "woken" /\ current # r
    /\ current # NoOne => /\ call[current] # "woken"
                          /\ pc[current] = IF qpc = "granted" THEN "lock" ELSE "unlock"
    /\ Once(pendingLock) /\ Once(pendingRelease)

Known == TypeOK /\ CallsKnown /\ ListsKnown

LEMMA KnownStep == ASSUME Known, [Next]_vars PROVE Known'
  <1> USE LockQueueAssumption
  <1> SUFFICES CallsKnown' /\ ListsKnown'
    BY TypeStep DEF Known
  <1>t. TypeOK /\ CallsKnown /\ ListsKnown
    BY DEF Known
  <1>1. ASSUME NEW r \in Requests, LockMib(r) \/ Destroy(r) PROVE CallsKnown' /\ ListsKnown'
    <2>1. /\ pc' = [pc EXCEPT ![r] = pc'[r]] /\ pc[r] \in {"start", "destroy"}
          /\ pc'[r] \in IF r \in Setters THEN {"prepare", "done"} ELSE {"find", "done"}
          /\ qpc' = qpc \/ current = NoOne
          /\ UNCHANGED <<call, pendingLock, pendingRelease, current>>
      BY <1>1, <1>t DEF TypeOK, LockMib, Destroy, Goto, Notified, queueVars
    <2>2. CASE r \in Setters
      <3>1. call[r] = "none" /\ pc'[r] \in SetPlaces \ {"lock", "unlock"} /\ \A g \in Getters : g # r
        BY <1>t, <2>1, <2>2 DEF CallsKnown, SetPlaces
      <3> QED BY <1>t, <2>1, <2>2, <3>1 DEF TypeOK, CallsKnown, ListsKnown, Requests
    <2>3. CASE r \in Getters
      <3>1. pc'[r] \in GetPlaces /\ \A s \in Setters : s # r
        BY <2>1, <2>3 DEF GetPlaces
      <3> QED BY <1>t, <2>1, <2>3, <3>1 DEF TypeOK, CallsKnown, ListsKnown, Requests
    <2> QED BY <2>2, <2>3 DEF Requests
  <1>2. ASSUME NEW r \in Setters, Acquire(r) PROVE CallsKnown' /\ ListsKnown'
    <2>1. /\ pc[r] = "prepare" /\ pc' = [pc EXCEPT ![r] = "lock"] /\ call' = [call EXCEPT ![r] = "added"]
          /\ pendingLock' = Append(pendingLock, r) /\ UNCHANGED <<pendingRelease, current>>
          /\ current = NoOne
      BY <1>2, <1>t DEF TypeOK, Acquire, Goto, Busy
    <2>2. CallsKnown'
      BY <1>t, <2>1 DEF TypeOK, CallsKnown, SetPlaces, Calls, Requests
    <2>3. ~Among(r, pendingLock) /\ ~Among(r, pendingRelease)
      BY <1>t, <2>1 DEF ListsKnown
    <2>4. /\ \A x : Among(x, pendingLock') <=> x = r \/ Among(x, pendingLock)
          /\ Once(pendingLock')
      BY <1>t, <2>1, <2>3, AppendAmong DEF TypeOK, ListsKnown
    <2>5. ListsKnown'
      BY <1>t, <2>1, <2>3, <2>4 DEF TypeOK, ListsKnown, Requests
    <2> QED BY <2>2, <2>5
  <1>3. ASSUME NEW r \in Setters, Wait(r) PROVE CallsKnown' /\ ListsKnown'
    <2>1. CallsKnown'
      BY <1>3, <1>t DEF TypeOK, CallsKnown, Wait
    <2>2. ListsKnown'
      BY <1>3, <1>t DEF TypeOK, ListsKnown, Wait, queueVars
    <2> QED BY <2>1, <2>2
  <1>4. ASSUME NEW r \in Setters, Return(r) PROVE CallsKnown' /\ ListsKnown'
    <2>1. /\ call[r] = "woken" /\ call' = [call EXCEPT ![r] = "none"]
          /\ pc' = [pc EXCEPT ![r] = IF pc[r] = "lock" THEN "prepare" ELSE "commit"]
          /\ UNCHANGED <<pendingLock, pendingRelease, current, qpc>>
      BY <1>4 DEF Return, Goto, queueVars
    <2>2. CallsKnown'
      BY <1>t, <2>1 DEF TypeOK, CallsKnown, SetPlaces, Requests
    <2>3. ~Among(r, pendingLock) /\ ~Among(r, pendingRelease) /\ current # r
      BY <1>t, <2>1 DEF TypeOK, ListsKnown, Requests
    <2>4. ListsKnown'
      BY <1>t, <2>1, <2>3 DEF TypeOK, ListsKnown, Requests
    <2> QED BY <2>2, <2>4
  <1>5. ASSUME NEW r \in Setters, Prepared(r) \/ Answered(r) PROVE CallsKnown' /\ ListsKnown'
    <2>1. /\ pc[r] \in {"prepare", "commit"} /\ pc' = [pc EXCEPT ![r] = pc'[r]]
          /\ pc'[r] \in {"commit", "destroy"}
          /\ UNCHANGED <<call, pendingLock, pendingRelease, current, qpc>>
      BY <1>5, <1>t DEF TypeOK, Prepared, Answered, Goto, queueVars, Requests
    <2>2. CallsKnown'
      <3>1. call[r] = "none" /\ pc'[r] \in SetPlaces \ {"lock", "unlock"} /\ \A g \in Getters : g # r
        BY <1>t, <2>1 DEF CallsKnown, SetPlaces
      <3> QED BY <1>t, <2>1, <3>1 DEF TypeOK, CallsKnown, Requests
    <2>3. ListsKnown'
      BY <1>t, <2>1 DEF TypeOK, ListsKnown, Requests
    <2> QED BY <2>2, <2>3
  <1>6. ASSUME NEW r \in Setters, Release(r) PROVE CallsKnown' /\ ListsKnown'
    <2>1. /\ pc[r] = "commit" /\ pc' = [pc EXCEPT ![r] = "unlock"] /\ call' = [call EXCEPT ![r] = "added"]
          /\ pendingRelease' = Append(pendingRelease, r) /\ UNCHANGED <<pendingLock, current>>
          /\ current = NoOne
      BY <1>6, <1>t DEF TypeOK, Release, Goto, Busy
    <2>2. CallsKnown'
      BY <1>t, <2>1 DEF TypeOK, CallsKnown, SetPlaces, Calls, Requests
    <2>3. ~Among(r, pendingLock) /\ ~Among(r, pendingRelease)
      BY <1>t, <2>1 DEF ListsKnown
    <2>4. /\ \A x : Among(x, pendingRelease') <=> x = r \/ Among(x, pendingRelease)
          /\ Once(pendingRelease')
      BY <1>t, <2>1, <2>3, AppendAmong DEF TypeOK, ListsKnown
    <2>5. ListsKnown'
      BY <1>t, <2>1, <2>3, <2>4 DEF TypeOK, ListsKnown, Requests
    <2> QED BY <2>2, <2>5
  <1>7. ASSUME NEW g \in Getters, GetStep(g) PROVE CallsKnown' /\ ListsKnown'
    <2>1. /\ pc' = [pc EXCEPT ![g] = pc'[g]] /\ pc'[g] \in {"read", "destroy"}
          /\ UNCHANGED <<call, pendingLock, pendingRelease, current, qpc>>
      BY <1>7, <1>t DEF TypeOK, GetStep, StartSynch, EndSynch, Goto, queueVars, Requests
    <2>2. CallsKnown'
      <3>1. pc'[g] \in GetPlaces /\ \A s \in Setters : s # g
        BY <2>1 DEF GetPlaces
      <3> QED BY <1>t, <2>1, <3>1 DEF TypeOK, CallsKnown, Requests
    <2>3. ListsKnown'
      BY <1>t, <2>1 DEF TypeOK, ListsKnown, Requests
    <2> QED BY <2>2, <2>3
  <1>8. CASE Enter \/ StartScan \/ Sleep \/ Timeout \/ DeleteStep \/ Gone \/ UNCHANGED vars
    <2>1. /\ UNCHANGED <<pc, call, pendingLock, pendingRelease, current>>
          /\ qpc' = qpc \/ current = NoOne
      BY <1>8, <1>t DEF TypeOK, Enter, StartScan, Sleep, Timeout, DeleteStep, Delete, NotifyQueue, Join, Gone,
                        Notified, vars, requestVars, queueVars
    <2> QED BY <1>t, <2>1 DEF CallsKnown, ListsKnown
  <1>9. CASE Unlock
    <2>1. /\ pendingRelease # <<>> /\ current' = Head(pendingRelease) /\ pendingRelease' = Tail(pendingRelease)
          /\ qpc' = "released" /\ UNCHANGED <<pc, call, pendingLock>>
      BY <1>9 DEF Unlock, requestVars
    <2>2. /\ Head(pendingRelease) \in Setters /\ Among(Head(pendingRelease), pendingRelease)
          /\ \A x : Among(x, pendingRelease') <=> x # Head(pendingRelease) /\ Among(x, pendingRelease)
          /\ Once(pendingRelease')
      BY <1>t, <2>1, TailAmong DEF TypeOK, ListsKnown
    <2> QED BY <1>t, <2>1, <2>2 DEF CallsKnown, ListsKnown
  <1>10. CASE TryLock
    <2>1. /\ pendingLock # <<>> /\ current' = Head(pendingLock) /\ pendingLock' = Tail(pendingLock)
          /\ qpc' = "granted" /\ UNCHANGED <<pc, call, pendingRelease>>
      BY <1>10, <1>t DEF TypeOK, TryLock, requestVars
    <2>2. /\ Head(pendingLock) \in Setters /\ Among(Head(pendingLock), pendingLock)
          /\ \A x : Among(x, pendingLock') <=> x # Head(pendingLock) /\ Among(x, pendingLock)
          /\ Once(pendingLock')
      BY <1>t, <2>1, TailAmong DEF TypeOK, ListsKnown
    <2> QED BY <1>t, <2>1, <2>2 DEF CallsKnown, ListsKnown
  <1>11. CASE PutBack
    <2>1. /\ pendingLock # <<>> /\ pendingLock' = Append(Tail(pendingLock), Head(pendingLock))
          /\ UNCHANGED <<pc, call, pendingRelease, qpc, current>>
      BY <1>11, <1>t DEF TypeOK, PutBack, requestVars
    <2>2. /\ Head(pendingLock) \in Setters /\ Among(Head(pendingLock), pendingLock)
          /\ Tail(pendingLock) \in Seq(Setters)
          /\ \A x : Among(x, Tail(pendingLock)) <=> x # Head(pendingLock) /\ Among(x, pendingLock)
          /\ Once(Tail(pendingLock))
      BY <1>t, <2>1, TailAmong DEF TypeOK, ListsKnown
    <2>3. /\ \A x : Among(x, pendingLock') <=> Among(x, pendingLock)
          /\ Once(pendingLock')
      BY <2>1, <2>2, AppendAmong
    <2> QED BY <1>t, <2>1, <2>3 DEF CallsKnown, ListsKnown
  <1>12. CASE NotifyRequest
    <2>1. /\ current \in Setters /\ current' = NoOne /\ call[current] = "waits"
          /\ call' = [call EXCEPT ![current] = "woken"]
          /\ UNCHANGED <<pc, pendingLock, pendingRelease>>
      BY <1>12, <1>t DEF TypeOK, NotifyRequest
    <2>2. ~Among(current, pendingLock) /\ ~Among(current, pendingRelease)
      BY <1>t, <2>1 DEF ListsKnown
    <2>3. CallsKnown'
      BY <1>t, <2>1 DEF TypeOK, CallsKnown
    <2>4. ListsKnown'
      BY <1>t, <2>1, <2>2 DEF TypeOK, ListsKnown, Requests
    <2> QED BY <2>3, <2>4
  <1> QED BY <1>1, <1>2, <1>3, <1>4, <1>5, <1>6, <1>7, <1>8, <1>9, <1>10, <1>11, <1>12
          DEF Next, SetStep, QueueStep
-----------------------------------------------------------------------------
(* Nobody shares an object *)

\* A GET holds what it reads, and a SET no longer what it is giving back.
Used ==
    /\ \A g \in Getters : pc[g] = "read" => mutex[tgt[g]] = g
    /\ \A r \in Setters : pc[r] = "unlock" => tgt[r] \notin locks[r]

Inv == Known /\ Used /\ Exclusive

HoldsSame == \A r \in Requests, t \in Targets : Holds(r, t)' <=> Holds(r, t)

\* Request r has got object t, which was free, or has given it back.
HasGot(r, t) ==
    /\ \A s \in Requests : ~Holds(s, t)
    /\ \A s \in Requests, u \in Targets : Holds(s, u)' <=> Holds(s, u) \/ (s = r /\ u = t)

HasFreed(r, t) ==
    /\ Holds(r, t)
    /\ \A s \in Requests, u \in Targets : Holds(s, u)' <=> Holds(s, u) /\ ~(s = r /\ u = t)

\* What a step does to the objects that are held, and to the mutexes.
Moves ==
    \/ HoldsSame /\ UNCHANGED mutex
    \/ \E r \in Requests, t \in Targets :
         /\ HasGot(r, t) /\ mutex[t] = NoOne
         /\ mutex' = [mutex EXCEPT ![t] = IF r \in Setters THEN Queue ELSE r]
    \/ \E r \in Requests, t \in Targets :
         /\ HasFreed(r, t)
         /\ mutex' = [mutex EXCEPT ![t] = NoOne]

\* A step of the requests or of the queue's thread moves at most one object.
LEMMA StepMoves == ASSUME Inv, [Next]_vars PROVE Moves
  <1> USE LockQueueAssumption
  <1>t. TypeOK /\ CallsKnown /\ ListsKnown /\ Used /\ Exclusive
    BY DEF Inv, Known
  <1>1. ASSUME NEW r \in Requests, LockMib(r) \/ Destroy(r) PROVE Moves
    <2>1. /\ pc' = [pc EXCEPT ![r] = pc'[r]] /\ pc[r] \in {"start", "destroy"}
          /\ pc'[r] \in {"prepare", "find", "done"}
          /\ qpc' = qpc \/ current = NoOne
          /\ UNCHANGED <<tgt, locks, call, mutex, pendingRelease, current>>
      BY <1>1, <1>t DEF TypeOK, LockMib, Destroy, Goto, Notified, queueVars
    <2>2. HoldsSame
      BY <1>t, <2>1 DEF TypeOK, HoldsSame, Holds, Requests
    <2> QED BY <2>1, <2>2 DEF Moves
  <1>2. ASSUME NEW r \in Setters, Acquire(r) PROVE Moves
    <2>1. /\ pc[r] = "prepare" /\ pc' = [pc EXCEPT ![r] = "lock"] /\ call' = [call EXCEPT ![r] = "added"]
          /\ tgt' = [tgt EXCEPT ![r] = tgt'[r]]
          /\ current = NoOne
          /\ UNCHANGED <<locks, mutex, pendingRelease, current>>
      BY <1>2, <1>t DEF TypeOK, Acquire, Goto, Busy
    <2>2. HoldsSame
      BY <1>t, <2>1 DEF TypeOK, HoldsSame, Holds, Requests
    <2> QED BY <2>1, <2>2 DEF Moves
  <1>3. ASSUME NEW r \in Setters, Wait(r) PROVE Moves
    <2>1. HoldsSame
      BY <1>3, <1>t DEF TypeOK, HoldsSame, Holds, Wait, queueVars
    <2> QED BY <1>3, <2>1 DEF Moves, Wait
  <1>4. ASSUME NEW r \in Setters, Return(r) PROVE Moves
    <2>1. /\ call[r] = "woken" /\ call' = [call EXCEPT ![r] = "none"] /\ tgt' = [tgt EXCEPT ![r] = NoOne]
          /\ pc' = [pc EXCEPT ![r] = IF pc[r] = "lock" THEN "prepare" ELSE "commit"]
          /\ locks' = IF pc[r] = "lock" THEN [locks EXCEPT ![r] = @ \union {tgt[r]}] ELSE locks
          /\ UNCHANGED <<mutex, pendingRelease, current, qpc>>
      BY <1>4 DEF Return, Goto, queueVars
    <2>2. ~Among(r, pendingRelease) /\ current # r /\ pc[r] \in {"lock", "unlock"}
      BY <1>t, <2>1 DEF TypeOK, CallsKnown, ListsKnown, Requests
    <2>3. ASSUME NEW t \in Targets PROVE Holds(r, t)' <=> Holds(r, t)
      <3>1. CASE pc[r] = "lock"
        BY <1>t, <2>1, <2>2, <3>1 DEF TypeOK, Holds, Requests
      <3>2. CASE pc[r] = "unlock"
        BY <1>t, <2>1, <2>2, <3>2 DEF TypeOK, Holds, Requests
      <3> QED BY <2>2, <3>1, <3>2
    <2>4. ASSUME NEW s \in Requests, NEW t \in Targets, s # r PROVE Holds(s, t)' <=> Holds(s, t)
      BY <1>t, <2>1, <2>4 DEF TypeOK, Holds, Requests
    <2> QED BY <2>1, <2>3, <2>4 DEF HoldsSame, Moves
  <1>5. ASSUME NEW r \in Setters, Prepared(r) \/ Answered(r) PROVE Moves
    <2>1. /\ pc[r] \in {"prepare", "commit"} /\ pc' = [pc EXCEPT ![r] = pc'[r]]
          /\ pc'[r] \in {"commit", "destroy"}
          /\ UNCHANGED <<tgt, locks, call, mutex, pendingRelease, current, qpc>>
      BY <1>5, <1>t DEF TypeOK, Prepared, Answered, Goto, queueVars, Requests
    <2>2. HoldsSame
      BY <1>t, <2>1 DEF TypeOK, HoldsSame, Holds, Requests
    <2> QED BY <2>1, <2>2 DEF Moves
  <1>6. ASSUME NEW r \in Setters, Release(r) PROVE Moves
    <2>0. PICK t \in locks[r] : tgt' = [tgt EXCEPT ![r] = t] /\ locks' = [locks EXCEPT ![r] = @ \ {t}]
      BY <1>6 DEF Release
    <2>1. /\ pc[r] = "commit" /\ pc' = [pc EXCEPT ![r] = "unlock"] /\ call' = [call EXCEPT ![r] = "added"]
          /\ pendingRelease' = Append(pendingRelease, r)
          /\ current = NoOne
          /\ UNCHANGED <<mutex, current>>
      BY <1>6, <1>t DEF TypeOK, Release, Goto, Busy
    <2>2. \A x : Among(x, pendingRelease') <=> x = r \/ Among(x, pendingRelease)
      BY <1>t, <2>1, AppendAmong DEF TypeOK
    <2>3. ASSUME NEW u \in Targets PROVE Holds(r, u)' <=> Holds(r, u)
      BY <1>t, <2>0, <2>1, <2>2 DEF TypeOK, Holds, Requests
    <2>4. ASSUME NEW s \in Requests, NEW u \in Targets, s # r PROVE Holds(s, u)' <=> Holds(s, u)
      BY <1>t, <2>0, <2>1, <2>2, <2>4 DEF TypeOK, Holds, Requests
    <2> QED BY <2>1, <2>3, <2>4 DEF HoldsSame, Moves
  <1>7. ASSUME NEW g \in Getters, StartSynch(g) PROVE Moves
    <2>1. /\ mutex[tgt[g]] = NoOne /\ mutex' = [mutex EXCEPT ![tgt[g]] = g]
          /\ pc' = [pc EXCEPT ![g] = "read"]
          /\ UNCHANGED <<tgt, locks, call, pendingRelease, current, qpc>>
          /\ g \in Requests /\ tgt[g] \in Targets
      BY <1>7, <1>t DEF TypeOK, StartSynch, Goto, queueVars, Requests
    <2>2. \A s \in Requests : ~Holds(s, tgt[g])
      BY <1>t, <2>1 DEF Exclusive, Holds, Requests
    <2>3. \A s \in Getters, u \in Targets : Holds(s, u)' <=> Holds(s, u) \/ (s = g /\ u = tgt[g])
      BY <1>t, <2>1 DEF TypeOK, Holds, Requests
    <2>4. \A s \in Setters, u \in Targets : Holds(s, u)' <=> Holds(s, u)
      BY <1>t, <2>1 DEF TypeOK, Holds, Requests
    <2>5. HasGot(g, tgt[g])
      BY <2>2, <2>3, <2>4 DEF HasGot, Requests
    <2> QED BY <2>1, <2>5 DEF Moves
  <1>8. ASSUME NEW g \in Getters, EndSynch(g) PROVE Moves
    <2>1. /\ mutex[tgt[g]] = g /\ mutex' = [mutex EXCEPT ![tgt[g]] = NoOne]
          /\ pc' = [pc EXCEPT ![g] = "destroy"]
          /\ UNCHANGED <<tgt, locks, call, pendingRelease, current, qpc>>
          /\ g \in Requests /\ tgt[g] \in Targets
      BY <1>8, <1>t DEF TypeOK, Used, EndSynch, Goto, queueVars, Requests
    <2>3. \A s \in Getters, u \in Targets : Holds(s, u)' <=> Holds(s, u) /\ ~(s = g /\ u = tgt[g])
      BY <1>t, <2>1 DEF TypeOK, Holds, Requests
    <2>4. \A s \in Setters, u \in Targets : Holds(s, u)' <=> Holds(s, u)
      BY <1>t, <2>1 DEF TypeOK, Holds, Requests
    <2>5. HasFreed(g, tgt[g])
      BY <2>1, <2>3, <2>4 DEF HasFreed, Holds, Requests
    <2> QED BY <2>1, <2>5 DEF Moves
  <1>9. CASE Enter \/ StartScan \/ PutBack \/ Sleep \/ Timeout \/ DeleteStep \/ Gone \/ UNCHANGED vars
    <2>1. /\ UNCHANGED <<pc, tgt, locks, call, mutex, pendingRelease, current>>
          /\ qpc' = qpc \/ current = NoOne
      BY <1>9, <1>t DEF TypeOK, Enter, StartScan, PutBack, Sleep, Timeout, DeleteStep, Delete, NotifyQueue, Join,
                        Gone, Notified, vars, requestVars, queueVars
    <2>2. HoldsSame
      BY <1>t, <2>1 DEF TypeOK, HoldsSame, Holds
    <2> QED BY <2>1, <2>2 DEF Moves
  <1>10. CASE Unlock
    <2>0. PICK r \in Setters : r = Head(pendingRelease)
      BY <1>10, <1>t DEF TypeOK, Unlock
    <2>1. /\ pendingRelease # <<>> /\ current' = r /\ pendingRelease' = Tail(pendingRelease)
          /\ qpc = "drain" /\ qpc' = "released" /\ current = NoOne
          /\ UNCHANGED <<pc, tgt, locks, call>>
      BY <1>10, <1>t, <2>0 DEF TypeOK, Unlock, requestVars
    <2>2. /\ Among(r, pendingRelease)
          /\ \A x : Among(x, pendingRelease') <=> x # r /\ Among(x, pendingRelease)
      BY <1>t, <2>0, <2>1, TailAmong DEF TypeOK, ListsKnown
    <2>3. pc[r] = "unlock" /\ tgt[r] \in Targets /\ tgt[r] \notin locks[r] /\ r \in Requests
      BY <1>t, <2>2 DEF TypeOK, CallsKnown, ListsKnown, Used, Requests
    <2>4. Holds(r, tgt[r]) /\ mutex[tgt[r]] = Queue
      <3>1. Holds(r, tgt[r])
        BY <2>2, <2>3 DEF Holds, Requests
      <3> QED BY <1>t, <2>3, <3>1 DEF Exclusive
    <2>5. mutex' = [mutex EXCEPT ![tgt[r]] = NoOne]
      BY <1>10, <1>t, <2>0, <2>4 DEF TypeOK, Unlock
    <2>6. \A s \in Getters, u \in Targets : Holds(s, u)' <=> Holds(s, u)
      BY <1>t, <2>3, <2>4, <2>5 DEF TypeOK, Holds, Requests
    <2>7. \A s \in Setters, u \in Targets : Holds(s, u)' <=> Holds(s, u) /\ ~(s = r /\ u = tgt[r])
      BY <1>t, <2>1, <2>2, <2>3 DEF TypeOK, Holds, Requests
    <2>8. HasFreed(r, tgt[r])
      <3>1. \A s \in Getters : s # r
        OBVIOUS
      <3> QED BY <2>4, <2>6, <2>7, <3>1 DEF HasFreed, Requests
    <2> QED BY <2>3, <2>5, <2>8 DEF Moves
  <1>11. CASE TryLock
    <2>0. PICK r \in Setters : r = Head(pendingLock) /\ pendingLock # <<>>
      BY <1>11, <1>t DEF TypeOK, TryLock
    <2>1. /\ current' = r /\ mutex[tgt[r]] = NoOne /\ mutex' = [mutex EXCEPT ![tgt[r]] = Queue]
          /\ qpc = "scan" /\ qpc' = "granted" /\ current = NoOne
          /\ UNCHANGED <<pc, tgt, locks, call, pendingRelease>>
      BY <1>11, <1>t, <2>0 DEF TypeOK, TryLock, requestVars
    <2>2. pc[r] = "lock" /\ call[r] # "woken" /\ tgt[r] \in Targets /\ r \in Requests
      <3>1. Among(r, pendingLock)
        BY <1>t, <2>0, TailAmong DEF TypeOK, ListsKnown
      <3> QED BY <1>t, <3>1 DEF TypeOK, CallsKnown, ListsKnown, Requests
    <2>3. \A s \in Requests : ~Holds(s, tgt[r])
      BY <1>t, <2>1, <2>2 DEF Exclusive, Holds, Requests
    <2>4. \A s \in Getters, u \in Targets : Holds(s, u)' <=> Holds(s, u)
      BY <1>t, <2>1, <2>2 DEF TypeOK, Holds, Requests
    <2>5. \A s \in Setters, u \in Targets : Holds(s, u)' <=> Holds(s, u) \/ (s = r /\ u = tgt[r])
      BY <1>t, <2>1, <2>2 DEF TypeOK, Holds, Requests
    <2>6. HasGot(r, tgt[r])
      <3>1. \A s \in Getters : s # r
        OBVIOUS
      <3> QED BY <2>3, <2>4, <2>5, <3>1 DEF HasGot, Requests
    <2> QED BY <2>1, <2>2, <2>6 DEF Moves
  <1>12. CASE NotifyRequest
    <2>1. /\ current \in Setters /\ current' = NoOne /\ call[current] = "waits"
          /\ call' = [call EXCEPT ![current] = "woken"]
          /\ qpc' # "granted" /\ (qpc # "granted" => pc[current] = "unlock")
          /\ UNCHANGED <<pc, tgt, locks, mutex, pendingRelease>>
      BY <1>12, <1>t DEF TypeOK, ListsKnown, NotifyRequest
    <2>2. HoldsSame
      BY <1>t, <2>1 DEF TypeOK, ListsKnown, HoldsSame, Holds
    <2> QED BY <2>1, <2>2 DEF Moves
  <1> QED BY <1>1, <1>2, <1>3, <1>4, <1>5, <1>6, <1>7, <1>8, <1>9, <1>10, <1>11, <1>12
          DEF Next, SetStep, GetStep, QueueStep
LEMMA MovesKeepExclusive == ASSUME TypeOK, Exclusive, Moves PROVE Exclusive'
  <1> USE LockQueueAssumption
  <1>1. CASE HoldsSame /\ UNCHANGED mutex
    BY <1>1 DEF HoldsSame, Exclusive, Requests
  <1>2. ASSUME NEW r \in Requests, NEW t \in Targets, HasGot(r, t),
               mutex' = [mutex EXCEPT ![t] = IF r \in Setters THEN Queue ELSE r]
        PROVE  Exclusive'
    <2>1. \A x, y \in Requests, u \in Targets : Holds(x, u)' /\ Holds(y, u)' => x = y
      BY <1>2 DEF HasGot, Exclusive
    <2>2. ASSUME NEW u \in Targets PROVE mutex'[u] = Queue <=> \E x \in Setters : Holds(x, u)'
      <3>1. CASE u = t
        BY <1>2, <3>1 DEF TypeOK, HasGot, Requests
      <3>2. CASE u # t
        BY <1>2, <3>2 DEF TypeOK, HasGot, Exclusive, Requests
      <3> QED BY <3>1, <3>2
    <2> QED BY <2>1, <2>2 DEF Exclusive
  <1>3. ASSUME NEW r \in Requests, NEW t \in Targets, HasFreed(r, t), mutex' = [mutex EXCEPT ![t] = NoOne]
        PROVE  Exclusive'
    <2>1. \A x, y \in Requests, u \in Targets : Holds(x, u)' /\ Holds(y, u)' => x = y
      BY <1>3 DEF HasFreed, Exclusive
    <2>2. ASSUME NEW u \in Targets PROVE mutex'[u] = Queue <=> \E x \in Setters : Holds(x, u)'
      <3>1. CASE u = t
        <4>1. \A x \in Requests : ~Holds(x, t)'
          BY <1>3 DEF HasFreed, Exclusive
        <4> QED BY <1>3, <3>1, <4>1 DEF TypeOK, Requests
      <3>2. CASE u # t
        BY <1>3, <3>2 DEF TypeOK, HasFreed, Exclusive, Requests
      <3> QED BY <3>1, <3>2
    <2> QED BY <2>1, <2>2 DEF Exclusive
  <1> QED BY <1>1, <1>2, <1>3 DEF Moves

LEMMA UsedStep == ASSUME Inv, [Next]_vars PROVE Used'
  <1> USE LockQueueAssumption
  <1>t. TypeOK /\ CallsKnown /\ ListsKnown /\ Used /\ Exclusive
    BY DEF Inv, Known
  <1>m. \/ UNCHANGED mutex
        \/ \E t \in Targets : mutex[t] = NoOne /\ \A u \in Targets : u # t => mutex'[u] = mutex[u]
        \/ \E r \in Requests, t \in Targets :
             Holds(r, t) /\ \A u \in Targets : u # t => mutex'[u] = mutex[u]
    BY <1>t, StepMoves DEF Moves, HasFreed, TypeOK
  <1>1. ASSUME NEW r \in Requests, LockMib(r) \/ Destroy(r) PROVE Used'
    BY <1>1, <1>t DEF TypeOK, Used, LockMib, Destroy, Goto, Requests
  <1>2. ASSUME NEW r \in Setters, Acquire(r) PROVE Used'
    BY <1>2, <1>t DEF TypeOK, Used, Acquire, Goto, Requests
  <1>3. ASSUME NEW r \in Setters, Wait(r) PROVE Used'
    BY <1>3, <1>t DEF Used, Wait
  <1>4. ASSUME NEW r \in Setters, Return(r) PROVE Used'
    BY <1>4, <1>t DEF TypeOK, Used, Return, Goto, Requests
  <1>5. ASSUME NEW r \in Setters, Prepared(r) \/ Answered(r) PROVE Used'
    BY <1>5, <1>t DEF TypeOK, Used, Prepared, Answered, Goto, Requests
  <1>6. ASSUME NEW r \in Setters, Release(r) PROVE Used'
    BY <1>6, <1>t DEF TypeOK, Used, Release, Goto, Requests
  <1>7. ASSUME NEW g \in Getters, StartSynch(g) PROVE Used'
    BY <1>7, <1>t DEF TypeOK, Used, StartSynch, Goto, Requests
  <1>8. ASSUME NEW g \in Getters, EndSynch(g) PROVE Used'
    <2>1. mutex[tgt[g]] = g
      BY <1>8, <1>t DEF Used, EndSynch
    <2> QED BY <1>8, <1>t, <2>1 DEF TypeOK, Used, EndSynch, Goto, Requests
  <1>9. CASE QueueStep \/ Timeout
    <2>1. UNCHANGED <<pc, tgt, locks>>
      BY <1>9 DEF QueueStep, Enter, Unlock, StartScan, TryLock, PutBack, NotifyRequest, Sleep, Timeout, requestVars
    <2>2. \A t \in Targets : mutex[t] \in Getters => mutex'[t] = mutex[t]
      BY <1>9, <1>t DEF TypeOK, QueueStep, Enter, Unlock, StartScan, TryLock, PutBack, NotifyRequest, Sleep,
                        Timeout, Requests
    <2> QED BY <1>t, <2>1, <2>2 DEF TypeOK, Used, Requests
  <1>10. CASE DeleteStep \/ Gone \/ UNCHANGED vars
    BY <1>10, <1>t DEF Used, DeleteStep, Delete, NotifyQueue, Join, Gone, vars, requestVars
  <1> QED BY <1>1, <1>2, <1>3, <1>4, <1>5, <1>6, <1>7, <1>8, <1>9, <1>10 DEF Next, SetStep, GetStep

LEMMA InitInv == Init => Inv
  <1> USE LockQueueAssumption
  <1> SUFFICES ASSUME Init PROVE Inv
    OBVIOUS
  <1>1. TypeOK
    BY DEF Init, TypeOK, SetPlaces, GetPlaces, Calls, QueuePlaces, Requests
  <1>2. CallsKnown
    BY DEF Init, CallsKnown, SetPlaces, GetPlaces, Requests
  <1>3. ListsKnown
    BY DEF Init, ListsKnown, Among, Once
  <1>4. Used
    BY DEF Init, Used, Requests
  <1>5. \A r \in Requests, t \in Targets : ~Holds(r, t)
    BY DEF Init, Holds, Among, Requests
  <1>6. Exclusive
    BY <1>5 DEF Init, Exclusive, Requests
  <1> QED BY <1>1, <1>2, <1>3, <1>4, <1>6 DEF Inv, Known

LEMMA Invariance == Spec => []Inv
  <1>1. Inv /\ [Next]_vars => Inv'
    BY KnownStep, UsedStep, StepMoves, MovesKeepExclusive DEF Inv, Known
  <1> QED BY <1>1, InitInv, PTL DEF Spec

\* No two requests hold an object, whatever the queue's thread, which owns
\* the mutexes of all SETs, does in between.
THEOREM MutualExclusion == Spec => []Exclusive
  <1>1. Inv => Exclusive
    BY DEF Inv
  <1> QED BY <1>1, Invariance, PTL

-----------------------------------------------------------------------------
(* The queue implements LockTable *)

LEMMA OwnerIsHolder ==
    ASSUME Exclusive, NEW t \in Targets
    PROVE  /\ \A r \in Requests : Holds(r, t) => OwnerOf(t) = r
           /\ (\A r \in Requests : ~Holds(r, t)) => OwnerOf(t) = NoOne
  <1>1. \A r, s \in Requests : Holds(r, t) /\ Holds(s, t) => r = s
    BY DEF Exclusive
  <1> QED BY <1>1 DEF OwnerOf

\* Each step of the queue is a step of the table or leaves it alone.
LEMMA TableStep == ASSUME Inv, Inv', [Next]_vars PROVE [Table!Next]_(Table!vars)
  <1> DEFINE own == [t \in Targets |-> OwnerOf(t)]
  <1>1. Moves
    BY StepMoves
  <1>2. Exclusive /\ Exclusive'
    BY DEF Inv
  <1>3. ASSUME NEW t \in Targets
        PROVE  /\ \A r \in Requests : Holds(r, t) => OwnerOf(t) = r
               /\ (\A r \in Requests : ~Holds(r, t)) => OwnerOf(t) = NoOne
    BY <1>2, OwnerIsHolder
  <1>4. ASSUME NEW t \in Targets
        PROVE  /\ \A r \in Requests : Holds(r, t)' => OwnerOf(t)' = r
               /\ (\A r \in Requests : ~(Holds(r, t)')) => OwnerOf(t)' = NoOne
    <2>1. \A r, s \in Requests : Holds(r, t)' /\ Holds(s, t)' => r = s
      BY <1>2 DEF Exclusive
    <2> QED BY <2>1 DEF OwnerOf
  <1>s. ASSUME NEW u \in Targets, \A s \in Requests : Holds(s, u)' <=> Holds(s, u)
        PROVE  OwnerOf(u)' = OwnerOf(u)
    <2>1. CASE \A s \in Requests : ~Holds(s, u)
      <3>1. OwnerOf(u) = NoOne
        BY <1>3, <2>1
      <3>2. \A s \in Requests : ~(Holds(s, u)')
        BY <1>s, <2>1
      <3>3. OwnerOf(u)' = NoOne
        BY <1>4, <3>2
      <3> QED BY <3>1, <3>3
    <2>2. ASSUME NEW s \in Requests, Holds(s, u) PROVE OwnerOf(u)' = OwnerOf(u)
      <3>1. OwnerOf(u) = s
        BY <1>3, <2>2
      <3>2. Holds(s, u)'
        BY <1>s, <2>2
      <3>3. OwnerOf(u)' = s
        BY <1>4, <3>2
      <3> QED BY <3>1, <3>3
    <2> QED BY <2>1, <2>2
  <1>5. CASE HoldsSame
    <2>1. ASSUME NEW u \in Targets PROVE OwnerOf(u)' = OwnerOf(u)
      <3>1. \A s \in Requests : Holds(s, u)' <=> Holds(s, u)
        BY <1>5 DEF HoldsSame
      <3> QED BY <1>s, <3>1
    <2> QED BY <2>1 DEF Table!vars
  <1>6. ASSUME NEW r \in Requests, NEW t \in Targets, HasGot(r, t) PROVE Table!Grant(r, t)
    <2>1. OwnerOf(t) = NoOne
      <3>1. \A s \in Requests : ~Holds(s, t)
        BY <1>6 DEF HasGot
      <3> QED BY <1>3, <3>1
    <2>2. OwnerOf(t)' = r
      <3>1. Holds(r, t)'
        BY <1>6 DEF HasGot
      <3> QED BY <1>4, <3>1
    <2>3. ASSUME NEW u \in Targets, u # t PROVE OwnerOf(u)' = OwnerOf(u)
      <3>1. \A s \in Requests : Holds(s, u)' <=> Holds(s, u)
        BY <1>6, <2>3 DEF HasGot
      <3> QED BY <1>s, <3>1
    <2>4. own[t] = NoOne /\ own' = [own EXCEPT ![t] = r]
      BY <2>1, <2>2, <2>3
    <2> QED BY <2>4 DEF Table!Grant
  <1>7. ASSUME NEW r \in Requests, NEW t \in Targets, HasFreed(r, t) PROVE Table!Free(r, t)
    <2>1. OwnerOf(t) = r
      <3>1. Holds(r, t)
        BY <1>7 DEF HasFreed
      <3> QED BY <1>3, <3>1
    <2>2. OwnerOf(t)' = NoOne
      <3>1. \A s \in Requests : Holds(s, t) => s = r
        BY <1>2, <1>7 DEF HasFreed, Exclusive
      <3>2. \A s \in Requests : ~(Holds(s, t)')
        BY <1>7, <3>1 DEF HasFreed
      <3> QED BY <1>4, <3>2
    <2>3. ASSUME NEW u \in Targets, u # t PROVE OwnerOf(u)' = OwnerOf(u)
      <3>1. \A s \in Requests : Holds(s, u)' <=> Holds(s, u)
        BY <1>7, <2>3 DEF HasFreed
      <3> QED BY <1>s, <3>1
    <2>4. own[t] = r /\ own' = [own EXCEPT ![t] = NoOne]
      BY <2>1, <2>2, <2>3
    <2> QED BY <2>4 DEF Table!Free
  <1> QED BY <1>1, <1>5, <1>6, <1>7 DEF Moves, Table!Next

\* Seen from the requests, the queue is a table of locks.
THEOREM Refinement == Spec => ImplementsTable
  <1>1. Init => Table!Init
    <2> SUFFICES ASSUME Init PROVE \A t \in Targets : OwnerOf(t) = NoOne
      BY DEF Table!Init
    <2>1. \A r \in Requests, t \in Targets : ~Holds(r, t)
      BY LockQueueAssumption DEF Init, Holds, Among, Requests
    <2> QED BY <2>1, InitInv, OwnerIsHolder DEF Inv
  <1>2. Inv /\ Inv' /\ [Next]_vars => [Table!Next]_(Table!vars)
    BY TableStep
  <1> QED BY <1>1, <1>2, Invariance, PTL DEF Spec, ImplementsTable, Table!Spec
=============================================================================
