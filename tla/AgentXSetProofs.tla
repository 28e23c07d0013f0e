--------------------------- MODULE AgentXSetProofs ---------------------------
(***************************************************************************)
(* Theorems about AgentXSets for every number of requests, nodes and       *)
(* sessions, with subagents that refuse, are late or leave: its types, that *)
(* a response is only used in its phase, and that no subagent has two      *)
(* tests or commits for a region at a time.  Without faults it implements  *)
(* SetAgreement.                                                           *)
(***************************************************************************)
EXTENDS AgentXSets, TLAPS

-----------------------------------------------------------------------------
(* The invariant *)

\* A session whose timeouts are used up is about to be closed.
Counted ==
    /\ mpc = "dispatch" => cpc["main"] = "idle"
    /\ \A s \in open : count[s] = MaxTimeouts =>
           cpc["main"] = "leave" /\ closing["main"] = s

\* Where the thread of a request is, and what that says of the phase
Phased ==
    \A r \in Requests :
        /\ pc[r] = "new" <=> phase[r] = "default"
        /\ pc[r] \in {"prepare", "tested"} => phase[r] = "prepare"
        /\ pc[r] = "committed" => phase[r] \in {"prepare", "commit"}
        /\ pc[r] = "undone" => phase[r] = "undo"
        /\ pc[r] = "send" /\ phase[r] = "cleanup" => finished[r]
        /\ pc[r] = "idle" => phase[r] \in {"prepare", "commit", "undo"}

\* The nodes of the bindings that are prepared are locked.
Locked ==
    \A r \in Requests : phase[r] \in {"default", "prepare", "commit"} /\ pc[r] # "gone" =>
        \A i \in DOMAIN Names[r] : i < at[r] => owner[Names[r][i]] = r

OrderIn == [default |-> "none", prepare |-> "test", commit |-> "commit", undo |-> "undo",
            cleanup |-> "cleanup"]

\* A phase ends only when all its PDUs have left the queue.
Queued == \A p \in queue : phase[p[1]] = "cleanup" \/ p[3] = OrderIn[phase[p[1]]]

\* axSetThread has the request locked.
Mine(r) == wpc = "run" /\ task[1][1] = r

\* A PDU of r, or a response to one, is out of the hands of the thread of r.
Underway(r) ==
    \/ \E p \in sent \union wire \union seen : p[1] = r
    \/ \E t \in tasks : t[1][1] = r
    \/ mpc = "dispatch" /\ cur[1] = r
    \/ wpc = "lock" /\ task[1][1] = r

\* Before it has sent anything the thread of a request has it for itself, and
\* later only axSetThread takes it on.
Handed ==
    \A r \in Requests : Underway(r) =>
        pc[r] \in {"idle", "spin", "answer", "gone"} \/ Mine(r)

IInv == TypeOK /\ Counted /\ Phased /\ Locked /\ Queued /\ Handed /\ InStep

-----------------------------------------------------------------------------
(* The queue *)

QueueTypes == /\ queue \subseteq PDUs /\ sent \subseteq queue /\ late \subseteq sent
              /\ ahead \subseteq queue \X queue

LEMMA AddTypes ==
    ASSUME QueueTypes, NEW P \in SUBSET PDUs, Add(P)
    PROVE  QueueTypes' /\ queue' = queue \union P /\ UNCHANGED <<sent, late>>
  <1>1. queue' = queue \union P /\ UNCHANGED <<sent, late>>
    BY DEF Add
  <1>2. Front \subseteq queue
    BY DEF Front
  <1>3. ahead' \subseteq queue' \X queue'
    BY <1>1, <1>2 DEF Add, QueueTypes
  <1> QED BY <1>1, <1>3 DEF QueueTypes

LEMMA RemoveTypes ==
    ASSUME QueueTypes, NEW P, Remove(P)
    PROVE  /\ QueueTypes'
           /\ queue' \subseteq queue /\ sent' \subseteq sent /\ late' \subseteq late
  <1>1. ahead' \subseteq queue' \X queue'
    <2> SUFFICES ASSUME NEW e \in ahead' PROVE e \in queue' \X queue'
      OBVIOUS
    <2>1. e \in ahead /\ e[1] \notin P /\ e[2] \notin P
      BY DEF Remove
    <2>2. e \in queue \X queue
      BY <2>1 DEF QueueTypes
    <2> QED BY <2>1, <2>2 DEF Remove
  <1> QED BY <1>1 DEF Remove, QueueTypes

\* AgentXNode::set_request adds PDUs of one request and one order.
LEMMA OrderTypes ==
    ASSUME QueueTypes, NEW r \in Requests, NEW N, NEW o \in Orders, Order(r, N, o),
           open \subseteq Sessions
    PROVE  /\ QueueTypes' /\ UNCHANGED <<sent, late>>
           /\ queue \subseteq queue'
           /\ \A p \in queue' \ queue : p[1] = r /\ p[3] = o
  <1> DEFINE S == {s \in open : /\ \E n \in N : node[n] = "active" /\ SessionOf[n] = s
                                /\ \A p \in Of(r) \ sent : p[2] # s}
             P == {<<r, s, o>> : s \in S}
  <1>1. P \in SUBSET PDUs
    BY DEF PDUs
  <1>2. Add(P)
    BY DEF Order
  <1>3. QueueTypes' /\ queue' = queue \union P /\ UNCHANGED <<sent, late>>
    BY <1>1, <1>2, AddTypes
  <1> QED BY <1>3

-----------------------------------------------------------------------------
(* Types *)

LEMMA TypeInit == Init => TypeOK
  BY AgentXSetsAssumption DEF Init, TypeOK, Orders

LEMMA PhaseTypes == ASSUME TypeOK, NEW r \in Requests, PhaseStep(r) PROVE TypeOK'
  <1>1. QueueTypes /\ open \subseteq Sessions
    BY DEF TypeOK, QueueTypes
  <1>2. /\ UNCHANGED <<workVars, mainVars, closeVars, sessionVars, netVars, told, answer>>
        /\ \/ Start(r) \/ Prepare(r) \/ Deny(r) \/ Prepared(r)
           \/ Tested(r) \/ Committed(r) \/ Undone(r)
    BY DEF PhaseStep
  <1>3. QueueTypes'
    <2>1. CASE UNCHANGED queueVars
      BY <1>1, <2>1 DEF QueueTypes, queueVars
    <2>2. CASE \E N : \E o \in Orders : Order(r, N, o)
      BY <1>1, <2>2, OrderTypes
    <2>3. CASE Remove(Of(r))
      BY <1>1, <2>3, RemoveTypes
    <2>4. Start(r) \/ Prepared(r) \/ Undone(r) => UNCHANGED queueVars
      BY DEF Start, Prepared, Undone
    <2>5. ASSUME Prepare(r) \/ Tested(r) \/ Committed(r)
          PROVE  UNCHANGED queueVars \/ \E N : \E o \in Orders : Order(r, N, o)
      <3>1. CASE Prepare(r)
        BY <3>1, Zenon DEF Prepare, Orders
      <3>2. CASE Tested(r)
        BY <3>2, Zenon DEF Tested, CleanUp, Orders
      <3>3. CASE Committed(r)
        BY <3>3, Zenon DEF Committed, CleanUp, Orders
      <3> QED BY <2>5, <3>1, <3>2, <3>3
    <2>6. Deny(r) => Remove(Of(r))
      BY DEF Deny
    <2> QED BY <1>2, <2>1, <2>2, <2>3, <2>4, <2>5, <2>6
  <1>4. /\ pc' \in [Requests -> {"new", "prepare", "tested", "committed", "undone", "send",
                                 "spin", "idle", "answer", "gone"}]
        /\ phase' \in [Requests -> {"default", "prepare", "commit", "undo", "cleanup"}]
    BY <1>2 DEF TypeOK, Goto, Start, Prepare, Deny, Prepared, Tested, Committed, Undone, CleanUp
  <1>5. at' \in [Requests -> Nat]
    BY <1>2 DEF TypeOK, Start, Prepare, Deny, Prepared, Tested, Committed, Undone
  <1>6. err' \in [Requests -> BOOLEAN]
    BY <1>2 DEF TypeOK, Fail, Start, Prepare, Deny, Prepared, Tested, Committed, Undone
  <1>7. finished' \in [Requests -> BOOLEAN]
    BY <1>2, Zenon DEF TypeOK, Fail, Start, Prepare, Deny, Prepared, Tested, Committed, Undone, CleanUp
  <1>8. owner' \in [Nodes -> Requests \union {NoOne}]
    <2>1. CASE UNCHANGED owner
      BY <2>1 DEF TypeOK
    <2>2. CASE Prepare(r)
      BY <2>2 DEF Prepare, TypeOK
    <2>3. CASE Release(r)
      BY <2>3 DEF Release, TypeOK
    <2>4. UNCHANGED owner \/ Prepare(r) \/ Release(r)
      BY <1>2 DEF Start, Deny, Prepared, Tested, Committed, Undone, CleanUp, lockVars
    <2> QED BY <2>1, <2>2, <2>3, <2>4
  <1>9. mib' \in Requests \union Closers \union {NoOne}
    BY <1>2 DEF TypeOK, Start, Prepare, Deny, Prepared, Tested, Committed, Undone, lockVars
  <1> QED BY <1>2, <1>3, <1>4, <1>5, <1>6, <1>7, <1>8, <1>9
          DEF TypeOK, QueueTypes, workVars, mainVars, closeVars, sessionVars, netVars

LEMMA SendTypes == ASSUME TypeOK, NEW r \in Requests, Send(r) PROVE TypeOK'
  <1> DEFINE unsent == Of(r) \ sent
             stuck == {p \in unsent : p[2] \notin open}
             done == {p \in unsent \ stuck : \A q \in stuck : <<q, p>> \notin ahead}
             gone == {p \in done : p[3] = "cleanup"}
  <1>1. done \subseteq queue \ sent /\ done \subseteq PDUs
    BY DEF Of, TypeOK
  <1>2. /\ queue' = queue \ gone /\ sent' = sent \union (done \ gone) /\ UNCHANGED late
        /\ ahead' = {e \in ahead : e[1] \notin gone /\ e[2] \notin gone}
        /\ wire' = wire \union {p \in done \ gone : p[2] \in link}
    BY DEF Send
  <1>3. ahead' \subseteq queue' \X queue'
    <2> SUFFICES ASSUME NEW e \in ahead' PROVE e \in queue' \X queue'
      OBVIOUS
    <2>1. e \in queue \X queue /\ e[1] \notin gone /\ e[2] \notin gone
      BY <1>2 DEF TypeOK
    <2> QED BY <1>2, <2>1
  <1>4. queue' \subseteq PDUs /\ sent' \subseteq queue' /\ late' \subseteq sent' /\ wire' \subseteq PDUs
    BY <1>1, <1>2 DEF TypeOK
  <1>5. told' \in [Requests -> [Sessions -> Orders \union {"none"}]]
    <2>1. told' = [told EXCEPT ![r] = [s \in Sessions |->
                      IF \E p \in done : p[2] = s
                      THEN (CHOOSE p \in done : p[2] = s)[3] ELSE @[s]]]
      BY DEF Send
    <2>2. ASSUME NEW s \in Sessions, \E p \in done : p[2] = s
          PROVE  (CHOOSE p \in done : p[2] = s)[3] \in Orders
      <3> DEFINE c == CHOOSE p \in done : p[2] = s
      <3>1. c \in done
        BY <2>2
      <3> HIDE DEF c
      <3>2. c[3] \in Orders
        BY <1>1, <3>1 DEF PDUs
      <3> QED BY <3>2 DEF c
    <2> DEFINE f == [s \in Sessions |-> IF \E p \in done : p[2] = s
                                        THEN (CHOOSE p \in done : p[2] = s)[3] ELSE told[r][s]]
    <2>3. told[r] \in [Sessions -> Orders \union {"none"}]
      BY DEF TypeOK
    <2> HIDE DEF done
    <2>4. f \in [Sessions -> Orders \union {"none"}]
      BY <2>2, <2>3
    <2>5. told' = [told EXCEPT ![r] = f]
      BY <2>1
    <2> HIDE DEF f
    <2> QED BY <2>4, <2>5 DEF TypeOK
  <1>6. pc' \in [Requests -> {"new", "prepare", "tested", "committed", "undone", "send",
                              "spin", "idle", "answer", "gone"}]
    <2>1. \E place \in {"spin", "answer", "idle"} : Goto(r, place)
      BY Zenon DEF Send
    <2> QED BY <2>1 DEF Goto, TypeOK
  <1>7. wpc' \in {"free", "lock", "run"}
        /\ IF wpc' = "free" THEN task' = NoOne ELSE task' \in PDUs \X Outcomes
    BY DEF Send, TypeOK, Leave
  <1>8. UNCHANGED <<at, phase, err, finished, lockVars, late, tasks, mainVars, closeVars,
                    sessionVars, link, agreed, answer>>
    BY DEF Send
  <1> QED BY <1>3, <1>4, <1>5, <1>6, <1>7, <1>8
          DEF TypeOK, lockVars, mainVars, closeVars, sessionVars

LEMMA AnswerTypes == ASSUME TypeOK, NEW r \in Requests, Answer(r) PROVE TypeOK'
  <1>1. owner' \in [Nodes -> Requests \union {NoOne}]
    BY DEF Answer, Release, TypeOK
  <1>2. wpc' \in {"free", "lock", "run"}
        /\ IF wpc' = "free" THEN task' = NoOne ELSE task' \in PDUs \X Outcomes
    BY DEF Answer, Leave, TypeOK
  <1>3. answer' \in [Requests -> {"none", "ok", "error"}]
    BY DEF Answer, TypeOK
  <1> QED BY <1>1, <1>2, <1>3 DEF Answer, TypeOK, Goto, queueVars, mainVars, closeVars, sessionVars, netVars

LEMMA WorkerTypes == ASSUME TypeOK, Phased, WorkerStep PROVE TypeOK'
  <1>0. QueueTypes
    BY DEF TypeOK, QueueTypes
  <1>1. ASSUME NEW t \in tasks, TakeTask(t) PROVE TypeOK'
    <2>1. t \in PDUs \X Outcomes /\ tasks' \subseteq PDUs \X Outcomes
      BY <1>1 DEF TypeOK, TakeTask
    <2>2. QueueTypes'
      <3>1. CASE UNCHANGED queueVars
        BY <1>0, <3>1 DEF QueueTypes, queueVars
      <3>2. CASE Remove({t[1]})
        BY <1>0, <3>2, RemoveTypes
      <3> QED BY <1>1, <3>1, <3>2 DEF TakeTask
    <2>3. count' \in [Sessions -> 0 .. MaxTimeouts]
      BY <1>1, AgentXSetsAssumption DEF TakeTask, TypeOK
    <2>4. wpc' \in {"free", "lock", "run"}
          /\ IF wpc' = "free" THEN task' = NoOne ELSE task' \in PDUs \X Outcomes
      BY <1>1, <2>1 DEF TakeTask, TypeOK
    <2>5. UNCHANGED <<requestVars, lockVars, mainVars, closeVars, open, netVars, told, answer>>
      BY <1>1 DEF TakeTask
    <2> QED BY <2>1, <2>2, <2>3, <2>4, <2>5
            DEF TypeOK, QueueTypes, requestVars, lockVars, mainVars, closeVars, netVars
  <1>2. CASE Process
    <2>1. task[1][1] \in Requests /\ pc[task[1][1]] = "idle"
      BY <1>2 DEF Process, TypeOK, PDUs
    <2>2. Resume[phase[task[1][1]]] \in {"tested", "committed", "undone"}
      BY <2>1 DEF Phased, Resume
    <2>3. pc' \in [Requests -> {"new", "prepare", "tested", "committed", "undone", "send",
                                "spin", "idle", "answer", "gone"}]
      BY <1>2, <2>1, <2>2 DEF Process, TypeOK, Goto
    <2>4. err' \in [Requests -> BOOLEAN]
      BY <1>2, <2>1, Zenon DEF Process, TypeOK, Fail
    <2>5. finished' \in [Requests -> BOOLEAN]
      BY <1>2, <2>1, Zenon DEF Process, TypeOK, Fail
    <2>6. wpc' = "run" /\ wpc = "lock"
          /\ UNCHANGED <<at, phase, lockVars, queueVars, tasks, task, mainVars, closeVars,
                         sessionVars, netVars, told, answer>>
      BY <1>2 DEF Process
    <2> QED BY <2>3, <2>4, <2>5, <2>6
            DEF TypeOK, lockVars, queueVars, mainVars, closeVars, sessionVars, netVars
  <1>3. CASE Drop
    BY <1>3 DEF Drop, TypeOK, requestVars, lockVars, queueVars, mainVars, closeVars, sessionVars, netVars
  <1> QED BY <1>1, <1>2, <1>3 DEF WorkerStep

LEMMA DispatchTypes ==
    ASSUME TypeOK, NEW p \in PDUs, NEW o \in Outcomes, DispatchResponse(p, o)
    PROVE  QueueTypes' /\ tasks' \subseteq PDUs \X Outcomes
  <1>1. QueueTypes
    BY DEF TypeOK, QueueTypes
  <1>2. CASE UNCHANGED queueVars /\ tasks' = tasks \union {<<p, o>>}
    BY <1>1, <1>2 DEF TypeOK, QueueTypes, queueVars
  <1>3. CASE Remove({p}) /\ UNCHANGED tasks
    BY <1>1, <1>3, RemoveTypes DEF TypeOK
  <1> QED BY <1>2, <1>3 DEF DispatchResponse

LEMMA MainTypes == ASSUME TypeOK, Counted, MainStep PROVE TypeOK'
  <1>0. QueueTypes
    BY DEF TypeOK, QueueTypes
  <1>1. CASE Look
    <2>1. seen' \subseteq PDUs
      BY <1>1 DEF Look, TypeOK
    <2> QED BY <1>1, <2>1 DEF Look, TypeOK, requestVars, lockVars, queueVars, workVars, closeVars,
                              sessionVars, netVars
  <1>2. CASE GetLate
    <2>1. IF mpc' = "dispatch" THEN cur' \in PDUs ELSE cur' = NoOne
      BY <1>2 DEF GetLate, TypeOK
    <2>2. mpc' \in {"poll", "late", "dispatch", "purge"}
      BY <1>2 DEF GetLate
    <2>3. UNCHANGED <<requestVars, lockVars, queueVars, workVars, seen, closeVars, sessionVars,
                      netVars, told, answer>>
      BY <1>2 DEF GetLate
    <2> QED BY <2>1, <2>2, <2>3 DEF TypeOK, requestVars, lockVars, queueVars, workVars, closeVars,
                              sessionVars, netVars
  <1>3. CASE TimeOut
    <2>1. cur \in PDUs /\ cur[2] \in Sessions
      BY <1>3 DEF TimeOut, TypeOK, PDUs
    <2>2. \E o \in Outcomes : DispatchResponse(cur, o)
      BY <1>3 DEF TimeOut, Outcomes
    <2>3. QueueTypes' /\ tasks' \subseteq PDUs \X Outcomes
      BY <2>1, <2>2, DispatchTypes
    <2>4. ASSUME cur[2] \in open PROVE count[cur[2]] + 1 \in 0 .. MaxTimeouts
      <3>1. count[cur[2]] # MaxTimeouts
        BY <1>3, <2>4 DEF TimeOut, Counted
      <3> QED BY <2>1, <3>1, AgentXSetsAssumption DEF TypeOK
    <2>5. count' \in [Sessions -> 0 .. MaxTimeouts]
      BY <1>3, <2>4 DEF TimeOut, TypeOK
    <2>6. /\ cpc' \in [Closers -> {"idle", "leave", "registry", "lock", "visit", "victims", "remove"}]
          /\ closing' \in [Closers -> Sessions \union {NoOne}]
          /\ \A c \in Closers : cpc'[c] # "idle" => closing'[c] \in Sessions
      <3>1. CASE UNCHANGED <<cpc, closing>>
        BY <3>1 DEF TypeOK
      <3>2. CASE /\ cpc' = [cpc EXCEPT !["main"] = "leave"]
                 /\ closing' = [closing EXCEPT !["main"] = cur[2]]
        BY <2>1, <3>2 DEF TypeOK, Closers
      <3> QED BY <1>3, <3>1, <3>2 DEF TimeOut
    <2>7. /\ mpc' = "late" /\ cur' = NoOne
          /\ UNCHANGED <<requestVars, lockVars, wpc, task, seen, todo, registry, node, open,
                         netVars, told, answer>>
      BY <1>3 DEF TimeOut
    <2> QED BY <2>3, <2>5, <2>6, <2>7 DEF TypeOK, QueueTypes, requestVars, lockVars, netVars
  <1>4. CASE Purge
    <2>1. QueueTypes'
      BY <1>0, <1>4, RemoveTypes DEF Purge
    <2>2. mpc' = "poll" /\ mpc = "purge" /\ seen' = {}
          /\ UNCHANGED <<requestVars, lockVars, workVars, cur, closeVars, sessionVars, netVars,
                         told, answer>>
      BY <1>4 DEF Purge
    <2> QED BY <2>1, <2>2 DEF TypeOK, QueueTypes, requestVars, lockVars, workVars, closeVars,
                              sessionVars, netVars
  <1> QED BY <1>1, <1>2, <1>3, <1>4 DEF MainStep

LEMMA NetTypes ==
    ASSUME TypeOK, NEW p \in PDUs, Receive(p) \/ Tick(p) PROVE TypeOK'
  <1>1. CASE Receive(p)
    <2>1. \E o \in Outcomes : DispatchResponse(p, o)
      BY <1>1 DEF Receive, Outcomes
    <2>2. QueueTypes' /\ tasks' \subseteq PDUs \X Outcomes
      BY <2>1, DispatchTypes
    <2>3. wire' \subseteq PDUs /\ agreed' \subseteq PDUs
      BY <1>1 DEF Receive, TypeOK
    <2>4. UNCHANGED <<requestVars, lockVars, wpc, task, mainVars, closeVars, sessionVars, link,
                      told, answer>>
      BY <1>1 DEF Receive
    <2> QED BY <2>2, <2>3, <2>4 DEF TypeOK, QueueTypes, requestVars, lockVars, mainVars, closeVars,
                                    sessionVars
  <1>2. CASE Tick(p)
    BY <1>2 DEF Tick, TypeOK, requestVars, lockVars, workVars, mainVars, closeVars, sessionVars, netVars
  <1> QED BY <1>1, <1>2

LEMMA LeaveTypes == ASSUME TypeOK, NEW s \in Sessions, Lose(s) \/ Goodbye(s) PROVE TypeOK'
  <1>1. CASE Lose(s)
    <2>1. /\ link' \subseteq Sessions /\ wire' \subseteq PDUs
          /\ cpc' \in [Closers -> {"idle", "leave", "registry", "lock", "visit", "victims", "remove"}]
          /\ closing' \in [Closers -> Sessions \union {NoOne}]
          /\ \A c \in Closers : cpc'[c] # "idle" => closing'[c] \in Sessions
      BY <1>1 DEF Lose, TypeOK
    <2> QED BY <1>1, <2>1 DEF Lose, TypeOK, requestVars, lockVars, queueVars, workVars, mainVars, sessionVars
  <1>2. CASE Goodbye(s)
    <2>1. /\ cpc' \in [Closers -> {"idle", "leave", "registry", "lock", "visit", "victims", "remove"}]
          /\ closing' \in [Closers -> Sessions \union {NoOne}]
          /\ \A c \in Closers : cpc'[c] # "idle" => closing'[c] \in Sessions
      BY <1>2 DEF Goodbye, TypeOK
    <2> QED BY <1>2, <2>1 DEF Goodbye, TypeOK, requestVars, lockVars, queueVars, workVars, mainVars,
                              sessionVars, netVars
  <1> QED BY <1>1, <1>2

\* A closer that is done keeps the types of its places.
LEMMA ClosedTypes ==
    ASSUME TypeOK, NEW c \in Closers, Closed(c)
    PROVE /\ cpc' \in [Closers -> {"idle", "leave", "registry", "lock", "visit", "victims", "remove"}]
          /\ closing' \in [Closers -> Sessions \union {NoOne}]
          /\ \A d \in Closers : cpc'[d] # "idle" => closing'[d] \in Sessions
          /\ open' \subseteq Sessions
  <1>1. cpc' = [cpc EXCEPT ![c] = "idle"] /\ closing' = [closing EXCEPT ![c] = NoOne]
        /\ open' = open \ {closing[c]}
    BY DEF Closed
  <1> QED BY <1>1 DEF TypeOK

\* So does one that goes on with its session.
LEMMA GoesOnTypes ==
    ASSUME TypeOK, NEW c \in Closers, cpc[c] # "idle", NEW place, CloserAt(c, place), UNCHANGED closing,
           place \in {"idle", "leave", "registry", "lock", "visit", "victims", "remove"}
    PROVE /\ cpc' \in [Closers -> {"idle", "leave", "registry", "lock", "visit", "victims", "remove"}]
          /\ closing' \in [Closers -> Sessions \union {NoOne}]
          /\ \A d \in Closers : cpc'[d] # "idle" => closing'[d] \in Sessions
  <1>1. cpc' = [cpc EXCEPT ![c] = place]
    BY DEF CloserAt
  <1> QED BY <1>1 DEF TypeOK

LEMMA CloserTypes == ASSUME TypeOK, NEW c \in Closers, CloserStep(c) PROVE TypeOK'
  <1> USE DEF requestVars, lockVars, queueVars, workVars, mainVars, netVars
  <1>1. UNCHANGED <<requestVars, queueVars, workVars, mainVars, count, netVars, told, answer>>
    BY DEF CloserStep
  <1>2. CASE RemoveSession(c)
    <2>1. /\ cpc' \in [Closers -> {"idle", "leave", "registry", "lock", "visit", "victims", "remove"}]
          /\ closing' \in [Closers -> Sessions \union {NoOne}]
          /\ \A d \in Closers : cpc'[d] # "idle" => closing'[d] \in Sessions
      <3>1. CASE closing[c] \in open
        <4>1. cpc[c] # "idle" /\ CloserAt(c, "registry") /\ UNCHANGED closing
          BY <1>2, <3>1 DEF RemoveSession
        <4> QED BY <4>1, GoesOnTypes
      <3>2. CASE closing[c] \notin open
        BY <1>2, <3>2, ClosedTypes DEF RemoveSession
      <3> QED BY <3>1, <3>2
    <2>2. open' \subseteq Sessions
      BY <1>2 DEF RemoveSession, Closed, TypeOK
    <2>3. UNCHANGED <<lockVars, todo, registry, node>>
      BY <1>2 DEF RemoveSession
    <2> QED BY <1>1, <2>1, <2>2, <2>3 DEF TypeOK
  <1>3. CASE LockRegistry(c)
    <2>1. /\ cpc' \in [Closers -> {"idle", "leave", "registry", "lock", "visit", "victims", "remove"}]
          /\ closing' \in [Closers -> Sessions \union {NoOne}]
          /\ \A d \in Closers : cpc'[d] # "idle" => closing'[d] \in Sessions
      <3>1. CASE Closed(c)
        BY <3>1, ClosedTypes
      <3>2. CASE CloserAt(c, "lock") /\ UNCHANGED closing
        <4>1. cpc[c] # "idle"
          BY <1>3 DEF LockRegistry
        <4> QED BY <3>2, <4>1, GoesOnTypes
      <3> QED BY <1>3, <3>1, <3>2 DEF LockRegistry
    <2>2. open' \subseteq Sessions /\ registry' \in Closers \union {NoOne}
      BY <1>3 DEF LockRegistry, Closed, TypeOK
    <2>3. UNCHANGED <<lockVars, todo, node>>
      BY <1>3 DEF LockRegistry
    <2> QED BY <1>1, <2>1, <2>2, <2>3 DEF TypeOK
  <1>4. CASE LockMib(c)
    <2>1. todo' \in [Closers -> SUBSET Nodes]
      BY <1>4 DEF LockMib, TypeOK
    <2> QED BY <1>1, <1>4, <2>1 DEF LockMib, CloserAt, TypeOK
  <1>5. CASE Visited(c)
    BY <1>1, <1>5 DEF Visited, CloserAt, TypeOK
  <1>6. CASE LockVictim(c)
    <2>1. todo' \in [Closers -> SUBSET Nodes]
      BY <1>6 DEF LockVictim, Victims, TypeOK
    <2> QED BY <1>1, <1>6, <2>1 DEF LockVictim, CloserAt, TypeOK
  <1>7. CASE EntriesRemoved(c)
    <2>1. /\ cpc' \in [Closers -> {"idle", "leave", "registry", "lock", "visit", "victims", "remove"}]
          /\ closing' \in [Closers -> Sessions \union {NoOne}]
          /\ \A d \in Closers : cpc'[d] # "idle" => closing'[d] \in Sessions
      BY <1>7, ClosedTypes DEF EntriesRemoved
    <2> QED BY <1>1, <1>7, <2>1 DEF EntriesRemoved, Closed, TypeOK
  <1>8. ASSUME NEW n \in Nodes, Visit(c, n) PROVE TypeOK'
    <2>1. todo' \in [Closers -> SUBSET Nodes] /\ node' \in [Nodes -> {"active", "empty", "gone"}]
      BY <1>8 DEF Visit, TypeOK
    <2> QED BY <1>1, <1>8, <2>1 DEF Visit, TypeOK
  <1>9. ASSUME NEW n \in Nodes, RemoveVictim(c, n) PROVE TypeOK'
    <2>1. todo' \in [Closers -> SUBSET Nodes] /\ node' \in [Nodes -> {"active", "empty", "gone"}]
      BY <1>9 DEF RemoveVictim, TypeOK
    <2> QED BY <1>1, <1>9, <2>1 DEF RemoveVictim, CloserAt, TypeOK
  <1> QED BY <1>2, <1>3, <1>4, <1>5, <1>6, <1>7, <1>8, <1>9 DEF CloserStep

LEMMA TypeStep == ASSUME TypeOK, Counted, Phased, [Next]_vars PROVE TypeOK'
  <1>1. ASSUME NEW r \in Requests, RequestStep(r) PROVE TypeOK'
    BY <1>1, PhaseTypes, SendTypes, AnswerTypes DEF RequestStep
  <1>2. ASSUME NEW p \in PDUs, Receive(p) \/ Tick(p) PROVE TypeOK'
    BY <1>2, NetTypes
  <1>3. ASSUME NEW s \in Leaving, Lose(s) \/ Goodbye(s) PROVE TypeOK'
    BY <1>3, LeaveTypes, AgentXSetsAssumption
  <1>4. CASE UNCHANGED vars
    BY <1>4 DEF vars, TypeOK, requestVars, lockVars, queueVars, workVars, mainVars, closeVars,
            sessionVars, netVars
  <1> QED BY <1>1, WorkerTypes, MainTypes, <1>2, <1>3, CloserTypes, <1>4 DEF Next, Finished

-----------------------------------------------------------------------------
(* The parts of the invariant *)

LEMMA CountedStep == ASSUME TypeOK, Counted, [Next]_vars PROVE Counted'
  <1> USE DEF Counted
  <1>1. CASE UNCHANGED <<mpc, cpc, open, count, closing>>
    BY <1>1
  <1>2. ASSUME NEW t \in tasks, TakeTask(t) PROVE Counted'
    <2>1. UNCHANGED <<mpc, cpc, open, closing>>
      BY <1>2 DEF TakeTask, mainVars, closeVars
    <2>2. \A s \in open : count'[s] = MaxTimeouts => count[s] = MaxTimeouts
      BY <1>2, AgentXSetsAssumption DEF TakeTask, TypeOK
    <2> QED BY <2>1, <2>2
  <1>3. CASE Look \/ Purge
    BY <1>3 DEF Look, Purge, MainFree, closeVars, sessionVars
  <1>4. CASE GetLate
    BY <1>4 DEF GetLate, MainFree, closeVars, sessionVars
  <1>5. CASE TimeOut
    <2>1. mpc' = "late" /\ open' = open /\ cur \in PDUs /\ cur[2] \in Sessions
          /\ cpc["main"] = "idle"
      BY <1>5 DEF TimeOut, TypeOK, PDUs
    <2>2. CASE cur[2] \notin open
      <3>1. UNCHANGED <<cpc, closing, count>>
        BY <1>5, <2>2 DEF TimeOut
      <3> QED BY <2>1, <3>1
    <2>3. CASE cur[2] \in open
      <3>1. count' = [count EXCEPT ![cur[2]] = @ + 1]
        BY <1>5, <2>3 DEF TimeOut
      <3>2. \A s \in open : count[s] # MaxTimeouts
        BY <2>1
      <3>3. \A s \in open : count'[s] = MaxTimeouts => s = cur[2] /\ Unable(s)
        BY <2>1, <3>1, <3>2, AgentXSetsAssumption DEF TypeOK, Unable
      <3>4. Unable(cur[2]) => /\ cpc' = [cpc EXCEPT !["main"] = "leave"]
                              /\ closing' = [closing EXCEPT !["main"] = cur[2]]
        BY <1>5, <2>3 DEF TimeOut
      <3>5. "main" \in DOMAIN cpc /\ "main" \in DOMAIN closing
        BY DEF TypeOK, Closers
      <3> QED BY <2>1, <3>3, <3>4, <3>5
    <2> QED BY <2>2, <2>3
  <1>6. ASSUME NEW s \in Sessions, Lose(s) \/ Goodbye(s) PROVE Counted'
    <2>1. /\ UNCHANGED <<mpc, open, count>>
          /\ cpc'["main"] = cpc["main"] /\ closing'["main"] = closing["main"]
      BY <1>6 DEF Lose, Goodbye, mainVars, sessionVars, TypeOK, Closers
    <2> QED BY <2>1
  <1>7. ASSUME NEW c \in Closers, CloserStep(c) PROVE Counted'
    <2>1. UNCHANGED <<mpc, count>> /\ open' \subseteq open
      BY <1>7 DEF CloserStep, mainVars, RemoveSession, LockRegistry, LockMib, Visited, LockVictim,
                  EntriesRemoved, Visit, RemoveVictim, Closed
    <2>2. CASE c = "reg"
      <3>1. cpc'["main"] = cpc["main"] /\ closing'["main"] = closing["main"]
        BY <1>7, <2>2 DEF CloserStep, RemoveSession, LockRegistry, LockMib, Visited, LockVictim,
             EntriesRemoved, Visit, RemoveVictim, Closed, CloserAt, TypeOK, Closers
      <3> QED BY <2>1, <3>1
    <2>3. CASE c = "main"
      <3>1. cpc["main"] # "idle"
        BY <1>7, <2>3 DEF CloserStep, RemoveSession, LockRegistry, LockMib, Visited, LockVictim,
             EntriesRemoved, Visit, RemoveVictim
      <3>2. cpc["main"] = "leave" => closing["main"] \notin open'
        BY <1>7, <2>3 DEF CloserStep, RemoveSession, LockRegistry, LockMib, Visited, LockVictim,
             EntriesRemoved, Visit, RemoveVictim, Closed
      <3> QED BY <2>1, <3>1, <3>2
    <2> QED BY <2>2, <2>3 DEF Closers
  <1>8. ASSUME NEW r \in Requests, RequestStep(r) PROVE Counted'
    BY <1>1, <1>8 DEF RequestStep, PhaseStep, Send, Answer, mainVars, closeVars, sessionVars
  <1>9. ASSUME Process \/ Drop \/ UNCHANGED vars PROVE Counted'
    BY <1>1, <1>9 DEF Process, Drop, vars, mainVars, closeVars, sessionVars
  <1>10. ASSUME NEW p \in PDUs, Receive(p) \/ Tick(p) PROVE Counted'
    BY <1>1, <1>10 DEF Receive, Tick, mainVars, closeVars, sessionVars
  <1> QED BY <1>2, <1>3, <1>4, <1>5, <1>6, <1>7, <1>8, <1>9, <1>10, AgentXSetsAssumption
          DEF Next, WorkerStep, MainStep, Finished

\* Only the thread of a request, or axSetThread when it has it, moves it.
LEMMA PlacesKept ==
    ASSUME [Next]_vars
    PROVE  \/ UNCHANGED <<pc, at, phase, finished, owner>>
           \/ Process
           \/ \E r \in Requests : RequestStep(r)
  BY DEF Next, WorkerStep, TakeTask, Drop, MainStep, Look, GetLate, TimeOut, Purge, Receive, Tick,
         Lose, Goodbye, CloserStep, RemoveSession, LockRegistry, LockMib, Visited, LockVictim,
         EntriesRemoved, Visit, RemoveVictim, Finished, vars, requestVars, lockVars

LEMMA OthersKept ==
    ASSUME TypeOK, NEW r \in Requests, RequestStep(r), NEW q \in Requests \ {r}
    PROVE  /\ pc'[q] = pc[q] /\ at'[q] = at[q]
           /\ phase'[q] = phase[q] /\ finished'[q] = finished[q]
           /\ \A n \in Nodes : owner[n] = q => owner'[n] = q
  <1>1. CASE PhaseStep(r)
    <2>1. pc'[q] = pc[q] /\ at'[q] = at[q] /\ phase'[q] = phase[q]
      BY <1>1 DEF PhaseStep, Start, Prepare, Deny, Prepared, Tested, Committed, Undone, CleanUp,
           Goto, TypeOK
    <2>2. finished'[q] = finished[q]
      BY <1>1, Zenon DEF PhaseStep, Start, Prepare, Deny, Prepared, Tested, Committed, Undone,
           CleanUp, Fail, TypeOK
    <2>3. \A n \in Nodes : owner[n] = q => owner'[n] = q
      <3>1. CASE UNCHANGED owner
        BY <3>1
      <3>2. CASE Prepare(r)
        BY <3>2, AgentXSetsAssumption DEF Prepare, TypeOK
      <3>3. CASE Release(r)
        BY <3>3 DEF Release
      <3> QED BY <1>1, <3>1, <3>2, <3>3 DEF PhaseStep, Start, Deny, Prepared, Tested, Committed,
              Undone, CleanUp, lockVars
    <2> QED BY <2>1, <2>2, <2>3
  <1>2. CASE Send(r)
    BY <1>2 DEF Send, Goto, TypeOK, lockVars
  <1>3. CASE Answer(r)
    BY <1>3 DEF Answer, Goto, Release, TypeOK
  <1> QED BY <1>1, <1>2, <1>3 DEF RequestStep

LEMMA PhasedStep == ASSUME TypeOK, Phased, [Next]_vars PROVE Phased'
  <1> USE DEF Phased
  <1>1. CASE UNCHANGED <<pc, at, phase, finished, owner>>
    BY <1>1
  <1>2. CASE Process
    <2> DEFINE r == task[1][1]
    <2>1. r \in Requests /\ pc[r] = "idle" /\ phase' = phase
          /\ pc' = [pc EXCEPT ![r] = Resume[phase[r]]]
          /\ \A q \in Requests \ {r} : finished'[q] = finished[q]
      BY <1>2 DEF Process, TypeOK, PDUs, Goto, Fail
    <2> HIDE DEF r
    <2>2. pc'[r] = Resume[phase[r]] /\ phase[r] \in {"prepare", "commit", "undo"}
          /\ \A q \in Requests \ {r} : pc'[q] = pc[q]
      BY <2>1 DEF TypeOK
    <2> QED BY <2>1, <2>2 DEF Resume
  <1>3. ASSUME NEW r \in Requests, RequestStep(r) PROVE Phased'
    <2>1. \A q \in Requests \ {r} :
              pc'[q] = pc[q] /\ phase'[q] = phase[q] /\ finished'[q] = finished[q]
      BY <1>3, OthersKept
    <2>2. CASE Start(r)
      BY <2>1, <2>2 DEF Start, Goto, TypeOK
    <2>3. CASE Prepare(r)
      BY <2>1, <2>3 DEF Prepare, TypeOK
    <2>4. CASE Deny(r) \/ Prepared(r)
      BY <2>1, <2>4 DEF Deny, Prepared, Goto, TypeOK
    <2>5. CASE Tested(r) \/ Committed(r)
      <3>1. pc[r] \in {"tested", "committed"}
        BY <2>5 DEF Tested, Committed
      <3>2. CASE CleanUp(r)
        BY <2>1, <3>2 DEF CleanUp, Goto, TypeOK
      <3>3. CASE UNCHANGED phase /\ \/ Goto(r, "committed") /\ pc[r] = "tested"
                                    \/ Goto(r, "send") /\ pc[r] = "committed"
        BY <2>1, <3>3 DEF Goto, TypeOK
      <3>4. CASE phase' = [phase EXCEPT ![r] = "commit"] /\ Goto(r, "committed")
        BY <2>1, <3>4 DEF Goto, TypeOK
      <3>5. CASE phase' = [phase EXCEPT ![r] = "undo"] /\ Goto(r, "undone")
        BY <2>1, <3>5 DEF Goto, TypeOK
      <3> QED BY <2>5, <3>2, <3>3, <3>4, <3>5 DEF Tested, Committed
    <2>6. CASE Undone(r)
      BY <2>1, <2>6 DEF Undone, Goto, TypeOK
    <2>7. CASE Send(r)
      <3>1. /\ pc[r] = "send" /\ UNCHANGED <<phase, finished>>
            /\ \/ Goto(r, "spin")
               \/ Goto(r, "answer")
               \/ ~finished[r] /\ Goto(r, "idle")
        BY <2>7, Zenon DEF Send
      <3> QED BY <2>1, <3>1 DEF Goto, TypeOK
    <2>8. CASE Answer(r)
      BY <2>1, <2>8 DEF Answer, Goto, TypeOK
    <2> QED BY <1>3, <2>2, <2>3, <2>4, <2>5, <2>6, <2>7, <2>8 DEF RequestStep, PhaseStep
  <1> QED BY <1>1, <1>2, <1>3, PlacesKept

LEMMA LockedStep == ASSUME TypeOK, Phased, Locked, [Next]_vars PROVE Locked'
  <1> USE DEF Locked
  <1>0. \A r \in Requests : \A i \in DOMAIN Names[r] : Names[r][i] \in Nodes
    BY AgentXSetsAssumption
  <1>1. CASE UNCHANGED <<pc, at, phase, finished, owner>>
    BY <1>1
  <1>2. CASE Process
    <2>1. UNCHANGED <<at, phase, owner>> /\ task[1][1] \in Requests /\ pc[task[1][1]] = "idle"
      BY <1>2 DEF Process, lockVars, TypeOK, PDUs
    <2>2. \A r \in Requests : pc'[r] # "gone" => pc[r] # "gone"
      BY <1>2, <2>1 DEF Process, Goto, TypeOK
    <2> QED BY <2>1, <2>2
  <1>3. ASSUME NEW r \in Requests, RequestStep(r) PROVE Locked'
    <2>1. SUFFICES ASSUME phase'[r] \in {"default", "prepare", "commit"}, pc'[r] # "gone",
                          NEW i \in DOMAIN Names[r], i < at'[r]
                   PROVE  owner'[Names[r][i]] = r
      BY <1>0, <1>3, OthersKept
    <2>2. CASE Prepare(r)
      <3>1. /\ at'[r] = at[r] + 1 /\ at[r] \in Nat /\ phase[r] = "prepare" /\ pc[r] = "prepare"
            /\ owner' = [owner EXCEPT ![Names[r][at[r]]] = r]
        BY <2>2 DEF Prepare, TypeOK, Phased
      <3>2. i \in Nat /\ Names[r][i] \in Nodes
        BY <1>0, AgentXSetsAssumption
      <3>3. i < at[r] \/ i = at[r]
        BY <2>1, <3>1, <3>2
      <3> QED BY <3>1, <3>2, <3>3 DEF TypeOK
    <2>3. CASE CleanUp(r) \/ Answer(r) \/ phase' = [phase EXCEPT ![r] = "undo"]
      <3>1. phase'[r] \in {"cleanup", "undo"} \/ pc'[r] = "gone"
        BY <2>3 DEF CleanUp, Answer, Goto, TypeOK
      <3> QED BY <2>1, <3>1
    <2>4. CASE UNCHANGED <<at, owner>>
      <3>1. phase[r] \in {"default", "prepare", "commit"} /\ pc[r] # "gone"
        <4>1. CASE Start(r) \/ Tested(r) \/ Committed(r)
          BY <4>1 DEF Start, Tested, Committed, Phased
        <4>2. CASE UNCHANGED phase
          <5>1. pc[r] # "gone"
            BY <1>3 DEF RequestStep, PhaseStep, Start, Prepare, Deny, Prepared, Tested, Committed,
                 Undone, Send, Answer
          <5> QED BY <2>1, <4>2, <5>1
        <4> QED BY <1>3, <4>1, <4>2 DEF RequestStep, PhaseStep, Prepare, Deny, Prepared, Undone,
                                        Send, Answer
      <3> QED BY <2>1, <2>4, <3>1
    <2> QED BY <1>3, <2>2, <2>3, <2>4, Zenon DEF RequestStep, PhaseStep, Start, Deny, Prepared,
                Tested, Committed, Undone, Send, Answer, lockVars
  <1> QED BY <1>1, <1>2, <1>3, PlacesKept

\* Two requests that hold a node in the test or commit phase are one.
LEMMA LockedApart == TypeOK /\ Locked => NodesApart
  <1> SUFFICES ASSUME TypeOK, Locked, NEW p \in queue \union wire, NEW q \in queue \union wire,
                      p[1] # q[1], Going(p), Going(q), NEW n \in Bound(p) \intersect Bound(q)
               PROVE  FALSE
    BY DEF NodesApart
  <1>1. p[1] \in Requests /\ q[1] \in Requests
    BY DEF TypeOK, PDUs
  <1>2. owner[n] = p[1]
    BY <1>1 DEF Bound, Going, Locked
  <1>3. owner[n] = q[1]
    BY <1>1 DEF Bound, Going, Locked
  <1> QED BY <1>2, <1>3

LEMMA QueueShrinks == ASSUME TypeOK, [Next]_vars
                      PROVE  \/ queue' \subseteq queue /\ UNCHANGED phase
                             \/ \E r \in Requests : PhaseStep(r)
  <1>1. ASSUME NEW P, Remove(P) PROVE queue' \subseteq queue
    BY <1>1 DEF Remove
  <1>2. ASSUME NEW p, NEW o, DispatchResponse(p, o) PROVE queue' \subseteq queue
    BY <1>1, <1>2 DEF DispatchResponse, queueVars
  <1>3. ASSUME NEW r \in Requests, Send(r) \/ Answer(r)
        PROVE  queue' \subseteq queue /\ UNCHANGED phase
    BY <1>3 DEF Send, Answer, queueVars
  <1>4. ASSUME WorkerStep PROVE queue' \subseteq queue /\ UNCHANGED phase
    BY <1>1, <1>4 DEF WorkerStep, TakeTask, Process, Drop, queueVars, requestVars
  <1>5. ASSUME MainStep PROVE queue' \subseteq queue /\ UNCHANGED phase
    BY <1>1, <1>2, <1>5 DEF MainStep, Look, GetLate, TimeOut, Purge, queueVars, requestVars
  <1>6. ASSUME NEW p \in PDUs, Receive(p) \/ Tick(p)
        PROVE  queue' \subseteq queue /\ UNCHANGED phase
    BY <1>2, <1>6 DEF Receive, Tick, requestVars
  <1> QED BY <1>3, <1>4, <1>5, <1>6 DEF Next, RequestStep, Lose, Goodbye, CloserStep, Finished,
             queueVars, requestVars, vars

LEMMA QueuedStep == ASSUME TypeOK, Phased, Queued, [Next]_vars PROVE Queued'
  <1>0. QueueTypes /\ open \subseteq Sessions /\ queue \subseteq PDUs
    BY DEF TypeOK, QueueTypes
  <1>1. CASE queue' \subseteq queue /\ UNCHANGED phase
    BY <1>1 DEF Queued
  <1>2. ASSUME NEW r \in Requests, PhaseStep(r) PROVE Queued'
    <2>1. \A q \in Requests \ {r} : phase'[q] = phase[q]
      BY <1>2, OthersKept DEF RequestStep
    <2>2. ASSUME NEW N, NEW o \in Orders, Order(r, N, o), NEW x,
                 phase' = [phase EXCEPT ![r] = x], x = "cleanup" \/ o = OrderIn[x],
                 x = "cleanup" \/ phase[r] = x \/ ~Pending(r)
          PROVE  Queued'
      <3>1. phase'[r] = x
        BY <2>2 DEF TypeOK
      <3>2. \A p \in queue' \ queue : p[1] = r /\ p[3] = o
        BY <1>0, <2>2, OrderTypes
      <3>3. ASSUME NEW p \in queue, p[1] = r PROVE x = "cleanup" \/ p[3] = OrderIn[x]
        BY <2>2, <3>3 DEF Queued, Pending, Of
      <3>4. ASSUME NEW p \in queue, p[1] # r PROVE phase'[p[1]] = phase[p[1]]
        BY <1>0, <2>1, <3>4 DEF PDUs
      <3> QED BY <2>2, <3>1, <3>2, <3>3, <3>4 DEF Queued
    <2>3. CASE Start(r)
      <3>1. \A p \in queue : p[1] # r
        BY <1>0, <2>3 DEF Start, Phased, Queued, OrderIn, PDUs, Orders
      <3>2. queue' = queue
        BY <2>3 DEF Start, queueVars
      <3> QED BY <1>0, <2>1, <3>1, <3>2 DEF Queued, PDUs
    <2>4. CASE Prepare(r)
      <3>1. Order(r, {Names[r][at[r]]}, "test") /\ phase' = phase /\ phase[r] = "prepare"
        BY <2>4 DEF Prepare, Phased
      <3>2. phase' = [phase EXCEPT ![r] = "prepare"]
        BY <3>1 DEF TypeOK
      <3> QED BY <2>2, <3>1, <3>2 DEF OrderIn, Orders
    <2>5. CASE Deny(r)
      BY <1>0, <1>1, <2>5, RemoveTypes DEF Deny
    <2>6. CASE Prepared(r) \/ Undone(r)
      BY <1>1, <2>6 DEF Prepared, Undone, queueVars
    <2>7. CASE CleanUp(r)
      <3>1. Order(r, Held(r), "cleanup") /\ phase' = [phase EXCEPT ![r] = "cleanup"]
        BY <2>7 DEF CleanUp
      <3> QED BY <2>2, <3>1 DEF Orders
    <2>8. CASE Tested(r) \/ Committed(r)
      <3>1. CASE UNCHANGED <<phase, queueVars>>
        BY <1>1, <3>1 DEF queueVars
      <3>2. CASE ~Pending(r) /\ Order(r, Held(r), "commit") /\ phase' = [phase EXCEPT ![r] = "commit"]
        BY <2>2, <3>2 DEF OrderIn, Orders
      <3>3. CASE ~Pending(r) /\ Order(r, Held(r), "undo") /\ phase' = [phase EXCEPT ![r] = "undo"]
        BY <2>2, <3>3 DEF OrderIn, Orders
      <3> QED BY <2>7, <2>8, <3>1, <3>2, <3>3, Zenon DEF Tested, Committed
    <2> QED BY <1>2, <2>3, <2>4, <2>5, <2>6, <2>8 DEF PhaseStep
  <1> QED BY <1>1, <1>2, QueueShrinks

\* Steps of neither the thread of a request nor axSetThread put nothing of a
\* request underway that is not.
LEMMA UnderwayKept ==
    ASSUME TypeOK, [Next]_vars, ~WorkerStep, NEW q \in Requests, Underway(q)'
    PROVE  \/ Underway(q) /\ UNCHANGED <<pc, phase, wpc, task>>
           \/ \E r \in Requests : RequestStep(r)
  <1>1. ASSUME NEW p \in PDUs, NEW o, DispatchResponse(p, o), p[1] = q => Underway(q)
        PROVE  /\ sent' \subseteq sent
               /\ (\E t \in tasks' : t[1][1] = q) => Underway(q)
    BY <1>1 DEF DispatchResponse, Remove, queueVars, Underway
  <1>2. ASSUME UNCHANGED <<pc, phase, wpc, task>>,
               \A p \in sent' \union wire' \union seen' : p[1] = q => Underway(q),
               \A t \in tasks' : t[1][1] = q => Underway(q),
               mpc' = "dispatch" /\ cur'[1] = q => Underway(q)
        PROVE  Underway(q)
    <2>1. CASE \E p \in sent' \union wire' \union seen' : p[1] = q
      BY <1>2, <2>1
    <2>2. CASE \E t \in tasks' : t[1][1] = q
      BY <1>2, <2>2
    <2>3. CASE mpc' = "dispatch" /\ cur'[1] = q
      BY <1>2, <2>3
    <2>4. CASE wpc = "lock" /\ task[1][1] = q
      BY <2>4 DEF Underway
    <2> QED BY <1>2, <2>1, <2>2, <2>3, <2>4 DEF Underway
  <1>3. CASE Look \/ GetLate
    <2>1. UNCHANGED <<pc, phase, wpc, task, sent, wire, tasks>>
      BY <1>3 DEF Look, GetLate, requestVars, queueVars, workVars, netVars
    <2>2. \A p \in seen' : p \in seen \/ p \in sent
      BY <1>3 DEF Look, GetLate, TypeOK
    <2>3. mpc' = "dispatch" => cur' \in seen
      BY <1>3 DEF Look, GetLate
    <2> QED BY <1>2, <2>1, <2>2, <2>3 DEF Underway
  <1>4. CASE TimeOut
    <2>1. cur \in PDUs /\ mpc = "dispatch" /\ mpc' = "late"
          /\ UNCHANGED <<pc, phase, wpc, task, seen, wire>>
      BY <1>4 DEF TimeOut, TypeOK, requestVars, netVars
    <2>2. \E o : DispatchResponse(cur, o)
      BY <1>4 DEF TimeOut
    <2>3. cur[1] = q => Underway(q)
      BY <2>1 DEF Underway
    <2> QED BY <1>1, <1>2, <2>1, <2>2, <2>3 DEF Underway
  <1>5. CASE Purge
    <2>1. sent' \subseteq sent /\ seen' = {} /\ mpc' = "poll"
          /\ UNCHANGED <<pc, phase, wpc, task, tasks, wire>>
      BY <1>5 DEF Purge, Remove, requestVars, workVars, netVars
    <2> QED BY <1>2, <2>1 DEF Underway
  <1>6. ASSUME NEW p \in PDUs, Receive(p) PROVE Underway(q) /\ UNCHANGED <<pc, phase, wpc, task>>
    <2>1. p \in wire /\ wire' \subseteq wire /\ UNCHANGED <<pc, phase, wpc, task, seen, mpc, cur>>
      BY <1>6 DEF Receive, requestVars, mainVars
    <2>2. \E o : DispatchResponse(p, o)
      BY <1>6 DEF Receive
    <2>3. p[1] = q => Underway(q)
      BY <2>1 DEF Underway
    <2> QED BY <1>1, <1>2, <2>1, <2>2, <2>3 DEF Underway
  <1>7. ASSUME UNCHANGED <<pc, phase, wpc, task, sent, seen, tasks, mpc, cur>>, wire' \subseteq wire
        PROVE  Underway(q)
    BY <1>2, <1>7 DEF Underway
  <1>8. ASSUME NEW s \in Leaving, Lose(s) \/ Goodbye(s)
        PROVE  UNCHANGED <<pc, phase, wpc, task, sent, seen, tasks, mpc, cur>> /\ wire' \subseteq wire
    BY <1>8 DEF Lose, Goodbye, requestVars, queueVars, workVars, mainVars, netVars
  <1>9. ASSUME NEW p \in PDUs, Tick(p)
        PROVE  UNCHANGED <<pc, phase, wpc, task, sent, seen, tasks, mpc, cur, wire>>
    BY <1>9 DEF Tick, requestVars, workVars, mainVars, netVars
  <1>10. ASSUME NEW c \in Closers, CloserStep(c)
         PROVE  UNCHANGED <<pc, phase, wpc, task, sent, seen, tasks, mpc, cur, wire>>
    BY <1>10 DEF CloserStep, requestVars, queueVars, workVars, mainVars, netVars
  <1>11. ASSUME UNCHANGED vars
         PROVE  UNCHANGED <<pc, phase, wpc, task, sent, seen, tasks, mpc, cur, wire>>
    BY <1>11 DEF vars, requestVars, queueVars, workVars, mainVars, netVars
  <1>12. Look \/ GetLate \/ TimeOut \/ Purge => UNCHANGED <<pc, phase, wpc, task>>
    BY DEF Look, GetLate, TimeOut, Purge, requestVars, workVars
  <1> QED BY <1>3, <1>4, <1>5, <1>6, <1>7, <1>8, <1>9, <1>10, <1>11, <1>12
          DEF Next, MainStep, Finished

Away == {"idle", "spin", "answer", "gone"}

LEMMA HandedStep == ASSUME TypeOK, Handed, [Next]_vars PROVE Handed'
  <1> SUFFICES ASSUME NEW q \in Requests, Underway(q)' PROVE pc'[q] \in Away \/ Mine(q)'
    BY DEF Handed, Away
  <1>1. Underway(q) => pc[q] \in Away \/ Mine(q)
    BY DEF Handed, Away
  <1>2. ASSUME NEW r \in Requests, PhaseStep(r) PROVE pc'[q] \in Away \/ Mine(q)'
    <2>1. sent' \subseteq sent
      <3>1. ASSUME NEW P, Add(P) \/ Remove(P) PROVE sent' \subseteq sent
        BY <3>1 DEF Add, Remove
      <3> QED BY <1>2, <3>1 DEF PhaseStep, Start, Prepare, Deny, Prepared, Tested, Committed, Undone,
                 CleanUp, Order, queueVars
    <2>2. UNCHANGED <<wire, seen, tasks, mpc, cur, wpc, task>>
      BY <1>2 DEF PhaseStep, workVars, mainVars, netVars
    <2>3. Underway(q)
      BY <2>1, <2>2 DEF Underway
    <2>4. q = r => pc[q] \notin Away
      BY <1>2 DEF PhaseStep, Start, Prepare, Deny, Prepared, Tested, Committed, Undone, Away
    <2>5. q # r => pc'[q] = pc[q]
      BY <1>2, OthersKept DEF RequestStep
    <2> QED BY <1>1, <2>2, <2>3, <2>4, <2>5 DEF Mine
  <1>3. ASSUME NEW r \in Requests, Send(r) \/ Answer(r) PROVE pc'[q] \in Away \/ Mine(q)'
    <2>1. CASE q = r
      <3>1. \E place \in Away : Goto(r, place)
        BY <1>3, Zenon DEF Send, Answer, Away
      <3> QED BY <2>1, <3>1 DEF Goto, TypeOK
    <2>2. CASE q # r
      <3>1. \A p \in sent' \union wire' : p[1] = q => p \in sent \union wire
        <4>1. ASSUME Answer(r) PROVE UNCHANGED <<sent, wire>>
          BY <4>1 DEF Answer, queueVars, netVars
        <4>2. ASSUME Send(r), NEW p \in sent' \union wire', p \notin sent \union wire PROVE p \in Of(r)
          BY <4>2 DEF Send
        <4>3. \A p \in Of(r) : p[1] = r
          BY DEF Of
        <4> QED BY <1>3, <2>2, <4>1, <4>2, <4>3
      <3>2. UNCHANGED <<seen, tasks, mpc, cur>>
        BY <1>3 DEF Send, Answer, mainVars
      <3>3. UNCHANGED <<wpc, task>> \/ (wpc = "run" /\ task[1][1] = r /\ wpc' = "free")
        BY <1>3 DEF Send, Answer, Leave
      <3>4. Underway(q)
        BY <3>1, <3>2, <3>3 DEF Underway
      <3>5. pc'[q] = pc[q]
        BY <1>3, <2>2, OthersKept DEF RequestStep
      <3> QED BY <1>1, <2>2, <3>3, <3>4, <3>5 DEF Mine
    <2> QED BY <2>1, <2>2
  <1>4. CASE WorkerStep
    <2>1. ASSUME NEW t \in tasks, TakeTask(t) PROVE pc'[q] \in Away \/ Mine(q)'
      <3>1. /\ sent' \subseteq sent /\ tasks' \subseteq tasks /\ wpc = "free"
            /\ UNCHANGED <<pc, wire, seen, mpc, cur>>
            /\ (wpc' = "lock" /\ task' = t) \/ UNCHANGED <<wpc, task>>
        BY <2>1 DEF TakeTask, Remove, queueVars, requestVars, mainVars, netVars
      <3>2. Underway(q)
        BY <3>1 DEF Underway
      <3> QED BY <1>1, <3>1, <3>2 DEF Mine
    <2>2. CASE Process
      <3>1. /\ wpc = "lock" /\ wpc' = "run"
            /\ UNCHANGED <<sent, tasks, task, wire, seen, mpc, cur>>
            /\ Goto(task[1][1], Resume[phase[task[1][1]]])
        BY <2>2 DEF Process, queueVars, mainVars, netVars
      <3>2. Underway(q)
        BY <3>1 DEF Underway
      <3>3. CASE task[1][1] = q
        BY <3>1, <3>3 DEF Mine
      <3>4. CASE task[1][1] # q
        BY <1>1, <3>1, <3>2, <3>4 DEF Mine, Goto, TypeOK
      <3> QED BY <3>3, <3>4
    <2>3. CASE Drop
      <3>1. wpc = "lock" /\ wpc' = "free" /\ UNCHANGED <<pc, sent, tasks, wire, seen, mpc, cur>>
        BY <2>3 DEF Drop, requestVars, queueVars, mainVars, netVars
      <3>2. Underway(q)
        BY <3>1 DEF Underway
      <3> QED BY <1>1, <3>1, <3>2 DEF Mine
    <2> QED BY <1>4, <2>1, <2>2, <2>3 DEF WorkerStep
  <1>5. CASE ~WorkerStep /\ ~\E r \in Requests : RequestStep(r)
    <2>1. Underway(q) /\ UNCHANGED <<pc, phase, wpc, task>>
      BY <1>5, UnderwayKept
    <2> QED BY <1>1, <2>1 DEF Mine
  <1> QED BY <1>2, <1>3, <1>4, <1>5 DEF RequestStep

Fits == wpc = "lock" /\ pc[task[1][1]] = "idle" => task[1][3] = OrderIn[phase[task[1][1]]]

LEMMA FitsInStep == TypeOK /\ Phased => (InStep <=> Fits)
  BY DEF InStep, Fits, OrderIn, Phased, TypeOK, PDUs

LEMMA FitsStep == ASSUME TypeOK, Phased, Queued, Handed, Fits, [Next]_vars PROVE Fits'
  <1>1. CASE UNCHANGED <<pc, phase, wpc, task>>
    BY <1>1 DEF Fits
  <1>2. ASSUME NEW r \in Requests, RequestStep(r), wpc' = "lock", pc'[task'[1][1]] = "idle"
        PROVE  task'[1][3] = OrderIn[phase'[task'[1][1]]]
    <2>1. UNCHANGED <<wpc, task>>
      BY <1>2 DEF RequestStep, PhaseStep, Send, Answer, Leave, workVars
    <2>2. task[1][1] \in Requests
      BY <1>2, <2>1 DEF TypeOK, PDUs
    <2>3. CASE task[1][1] = r
      <3>1. pc[r] \in Away
        BY <1>2, <2>1, <2>2, <2>3 DEF Handed, Underway, Mine, Away
      <3>2. Answer(r)
        BY <1>2, <3>1 DEF RequestStep, PhaseStep, Start, Prepare, Deny, Prepared, Tested, Committed,
             Undone, Send, Away
      <3> QED BY <1>2, <2>1, <2>3, <3>2 DEF Answer, Goto, TypeOK
    <2>4. CASE task[1][1] # r
      <3>1. pc'[task[1][1]] = pc[task[1][1]] /\ phase'[task[1][1]] = phase[task[1][1]]
        BY <1>2, <2>2, <2>4, OthersKept
      <3> QED BY <1>2, <2>1, <3>1 DEF Fits
    <2> QED BY <2>3, <2>4
  <1>3. ASSUME NEW t \in tasks, TakeTask(t) PROVE Fits'
    <2>1. /\ wpc = "free" /\ UNCHANGED <<pc, phase>>
          /\ (t[1] \in queue /\ task' = t) \/ UNCHANGED <<wpc, task>>
      BY <1>3 DEF TakeTask, requestVars
    <2>2. CASE t[1] \in queue /\ task' = t /\ pc[t[1][1]] = "idle"
      <3>1. t[1][1] \in Requests
        BY DEF TypeOK, PDUs
      <3>2. phase[t[1][1]] # "cleanup"
        BY <2>2, <3>1 DEF Phased
      <3> QED BY <2>1, <2>2, <3>2 DEF Fits, Queued
    <2> QED BY <2>1, <2>2 DEF Fits
  <1>4. CASE Process \/ Drop
    BY <1>4 DEF Process, Drop, Fits
  <1>5. CASE ~WorkerStep /\ ~\E r \in Requests : RequestStep(r)
    BY <1>1, <1>5 DEF Next, MainStep, Look, GetLate, TimeOut, Purge, Receive, Tick, Lose, Goodbye,
       CloserStep, Finished, vars, requestVars, workVars
  <1> QED BY <1>2, <1>3, <1>4, <1>5 DEF WorkerStep, Fits

-----------------------------------------------------------------------------
(* The theorems *)

LEMMA InvInit == Init => IInv
  <1> SUFFICES ASSUME Init PROVE IInv
    OBVIOUS
  <1>1. TypeOK
    BY TypeInit
  <1>2. Counted
    BY AgentXSetsAssumption DEF Init, Counted
  <1>3. Phased /\ Locked
    BY AgentXSetsAssumption DEF Init, Phased, Locked
  <1>4. Queued /\ Handed /\ InStep
    BY DEF Init, Queued, Handed, Underway, InStep
  <1> QED BY <1>1, <1>2, <1>3, <1>4 DEF IInv

LEMMA InvStep == ASSUME IInv, [Next]_vars PROVE IInv'
  <1>1. TypeOK' /\ Counted' /\ Phased' /\ Locked' /\ Queued' /\ Handed'
    BY TypeStep, CountedStep, PhasedStep, LockedStep, QueuedStep, HandedStep DEF IInv
  <1>2. Fits'
    BY FitsInStep, FitsStep DEF IInv
  <1>3. InStep'
    BY <1>1, <1>2 DEF InStep, Fits, OrderIn, Phased, TypeOK, PDUs
  <1> QED BY <1>1, <1>3 DEF IInv

THEOREM Invariance == Spec => []IInv
  BY InvInit, InvStep, PTL DEF Spec

\* The variables of AgentXSets keep their types, with any number of requests,
\* sessions and timeouts: no session is kept whose timeouts are used up.
THEOREM TypeCorrect == Spec => []TypeOK
  <1>1. IInv => TypeOK
    BY DEF IInv
  <1> QED BY <1>1, Invariance, PTL

\* Whatever answers are late, lost or made up, process_ax_response uses one
\* only for the phase its PDU was sent in.
THEOREM ResponsesInStep == Spec => []InStep
  <1>1. IInv => InStep
    BY DEF IInv
  <1> QED BY <1>1, Invariance, PTL

\* The locks of the nodes keep tests and commits of two requests for one region
\* apart, though sessions are closed and nodes removed meanwhile.
THEOREM RegionsApart == Spec => []NodesApart
  <1>1. IInv => NodesApart
    BY LockedApart DEF IInv
  <1> QED BY <1>1, Invariance, PTL

-----------------------------------------------------------------------------
(* The agreement *)

\* Every subagent answers in time and stays, and one that refuses a commit has
\* the request for itself.
NoFaults ==
    /\ Slow = {} /\ Leaving = {}
    /\ \A p \in Refusing : p[3] = "commit" =>
           \A i \in DOMAIN Names[p[1]] : SessionOf[Names[p[1]][i]] = p[2]

\* No session ends and nothing is late.
Quiet ==
    /\ late = {} /\ seen = {} /\ mpc = "poll"
    /\ cpc = [c \in Closers |-> "idle"]
    /\ open = Sessions /\ link = Sessions
    /\ node = [n \in Nodes |-> "active"]

\* The sessions of the bindings that are prepared
Asked(r) == {SessionOf[Names[r][i]] : i \in {i \in DOMAIN Names[r] : i < at[r]}}

\* The sessions that are still to be sent the order of the phase
Owed(r) == {s \in Sessions : <<r, s, OrderIn[phase[r]]>> \in queue \ sent}

AllAgreed(r, o) == \A s \in Asked(r) : <<r, s, o>> \in agreed

\* The response to p that axSetThread has is an error.
Refused(p) == wpc = "lock" /\ task = <<p, "error">>

\* What is not sent is of this phase.
Unsent(r) ==
    \A s \in Sessions, o \in Orders : <<r, s, o>> \in queue \ sent =>
        /\ o = OrderIn[phase[r]]
        /\ pc[r] \in {"prepare", "committed", "undone", "send"}

\* Only sessions and nodes of bindings have to do with a request.
Involves(r) ==
    /\ \A s \in Sessions : told[r][s] # "none" => s \in Asked(r)
    /\ \A s \in Sessions, o \in Orders : <<r, s, o>> \in queue => s \in Asked(r)
    /\ \A n \in Nodes : owner[n] = r => \E i \in DOMAIN Names[r] : i < at[r] /\ Names[r][i] = n

\* What a session was told in each phase
Course(r) ==
    /\ pc[r] \in {"new", "prepare"} => \A s \in Sessions : told[r][s] = "none"
    /\ phase[r] = "prepare" => \A s \in Sessions :
           told[r][s] \in IF s \in Owed(r) THEN {"none"} ELSE {"none", "test"}
    /\ phase[r] = "commit" => \A s \in Asked(r) :
           told[r][s] = IF s \in Owed(r) THEN "test" ELSE "commit"
    /\ phase[r] = "undo" => \A s \in Asked(r) :
           told[r][s] = IF s \in Owed(r) THEN "commit" ELSE "undo"
    /\ phase[r] = "cleanup" => \A s \in Sessions :
           IF s \in Owed(r)
           THEN \/ told[r][s] \in {"none", "test"}
                \/ told[r][s] = "commit" /\ ~err[r]
           ELSE told[r][s] \in {"none", "cleanup"}

\* The orders that a session has been sent before the one it was told last, and that one
Upto == [none |-> {}, test |-> {"test"}, commit |-> {"test", "commit"},
         undo |-> {"test", "commit", "undo"}, cleanup |-> {"test", "commit"}]

\* What is sent, answered or agreed was told.
Used(r) ==
    \A s \in Sessions, o \in Orders :
        <<r, s, o>> \in sent \union wire \union agreed
            \/ (\E x \in Outcomes : <<<<r, s, o>>, x>> \in tasks)
        => o \in Upto[told[r][s]]

\* A PDU is in the queue until its response is taken.
Flight(r) ==
    \A s \in Sessions, o \in Orders : <<r, s, o>> \in wire =>
        <<r, s, o>> \in sent /\ \A x \in Outcomes : <<<<r, s, o>>, x>> \notin tasks

Outcome(r) ==
    \A s \in Sessions, o \in Orders, x \in Outcomes :
        <<<<r, s, o>>, x>> \in tasks \/ (wpc = "lock" /\ task = <<<<r, s, o>>, x>>) =>
            \/ x = "ok" /\ <<r, s, o>> \in agreed
            \/ x = "error" /\ <<r, s, o>> \in Refusing

Taken(r) == wpc = "lock" /\ task[1][1] = r => task[1] \notin queue

\* Whom a request waits for
Answers(r) ==
    phase[r] \in {"prepare", "commit"} /\ ~err[r] /\ pc[r] # "gone" => \A s \in Asked(r) :
        LET p == <<r, s, OrderIn[phase[r]]>> IN p \in queue \union agreed \/ Refused(p)

Waits(r) ==
    /\ at[r] > 0 /\ (pc[r] = "new" => at[r] = 1)
    /\ pc[r] \in {"new", "prepare"} => ~err[r] /\ ~finished[r]
    /\ phase[r] = "prepare" /\ pc[r] # "prepare" /\ ~err[r] => at[r] > Len(Names[r])
    /\ phase[r] = "prepare" /\ pc[r] \in {"send", "committed"} => Pending(r) /\ ~err[r]
    /\ phase[r] \in {"prepare", "commit"} /\ finished[r] => err[r]
    /\ phase[r] \in {"commit", "undo"} => at[r] > Len(Names[r])
    /\ phase[r] = "commit" => AllAgreed(r, "test")
    /\ phase[r] = "commit" /\ err[r] => ~Pending(r) /\ pc[r] = "committed"
    /\ phase[r] = "commit" /\ pc[r] = "send" => Pending(r)
    /\ phase[r] = "undo" => err[r]
    /\ phase[r] = "undo" /\ pc[r] = "send" /\ finished[r] => ~Pending(r)
    /\ phase[r] = "undo" /\ pc[r] = "answer" => ~Pending(r)
    /\ phase[r] = "cleanup" /\ ~err[r] =>
           /\ at[r] > Len(Names[r]) /\ AllAgreed(r, "commit")
           /\ \A s \in Asked(r) : s \in Owed(r) \/ told[r][s] = "cleanup"
    /\ pc[r] = "answer" => phase[r] \in {"undo", "cleanup"}
    /\ answer[r] # "none" => pc[r] = "gone"

Keeps(r) ==
    /\ Unsent(r) /\ Involves(r) /\ Course(r) /\ Used(r) /\ Flight(r) /\ Outcome(r) /\ Taken(r)
    /\ Answers(r) /\ Waits(r)

\* A step that has nothing to do with r
Spares(r) ==
    /\ pc'[r] = pc[r] /\ at'[r] = at[r] /\ phase'[r] = phase[r] /\ err'[r] = err[r]
    /\ finished'[r] = finished[r] /\ told'[r] = told[r] /\ answer'[r] = answer[r]
    /\ \A n \in Nodes : owner'[n] = r => owner[n] = r
    /\ \A p \in PDUs : p[1] = r =>
           /\ p \in queue' <=> p \in queue
           /\ p \in sent' <=> p \in sent
           /\ p \in wire' <=> p \in wire
           /\ p \in agreed' <=> p \in agreed
           /\ \A x \in Outcomes :
                  /\ <<p, x>> \in tasks' <=> <<p, x>> \in tasks
                  /\ wpc' = "lock" /\ task' = <<p, x>> <=> wpc = "lock" /\ task = <<p, x>>

LEMMA PDUOf == \A r \in Requests, s \in Sessions, o \in Orders :
    LET p == <<r, s, o>> IN p \in PDUs /\ p[1] = r /\ p[2] = s /\ p[3] = o
  BY DEF PDUs

LEMMA PDUIs == \A p \in PDUs : /\ p[1] \in Requests /\ p[2] \in Sessions /\ p[3] \in Orders
                              /\ p = <<p[1], p[2], p[3]>>
  BY DEF PDUs

LEMMA AskedSessions == ASSUME NEW r \in Requests PROVE Asked(r) \subseteq Sessions
  BY AgentXSetsAssumption DEF Asked

\* With all bindings prepared these are the sessions of the request.
LEMMA AllAsked ==
    ASSUME TypeOK, NEW r \in Requests, at[r] > Len(Names[r])
    PROVE  Asked(r) = {SessionOf[Names[r][i]] : i \in DOMAIN Names[r]}
  <1>1. Names[r] \in Seq(Nodes) /\ at[r] \in Nat
    BY AgentXSetsAssumption DEF TypeOK
  <1>2. \A i \in DOMAIN Names[r] : i < at[r]
    BY <1>1
  <1> QED BY <1>2 DEF Asked

LEMMA PendingOf ==
    ASSUME TypeOK, NEW r \in Requests
    PROVE  Pending(r) <=> \E s \in Sessions, o \in Orders : <<r, s, o>> \in queue
  <1>1. ASSUME NEW p \in queue, p[1] = r
        PROVE  \E s \in Sessions, o \in Orders : <<r, s, o>> \in queue
    <2>1. p \in PDUs
      BY DEF TypeOK
    <2>2. p[2] \in Sessions /\ p[3] \in Orders /\ p = <<r, p[2], p[3]>>
      BY <1>1, <2>1, PDUIs
    <2> QED BY <2>2
  <1>2. \A s \in Sessions, o \in Orders : <<r, s, o>>[1] = r
    OBVIOUS
  <1> QED BY <1>1, <1>2 DEF Pending, Of

LEMMA PendingNext ==
    ASSUME TypeOK', NEW r \in Requests
    PROVE  Pending(r)' <=> \E s \in Sessions, o \in Orders : <<r, s, o>> \in queue'
  <1>1. ASSUME NEW p \in queue', p[1] = r
        PROVE  \E s \in Sessions, o \in Orders : <<r, s, o>> \in queue'
    <2>1. p \in PDUs
      BY DEF TypeOK
    <2>2. p[2] \in Sessions /\ p[3] \in Orders /\ p = <<r, p[2], p[3]>>
      BY <1>1, <2>1, PDUIs
    <2> QED BY <2>2
  <1>2. \A s \in Sessions, o \in Orders : <<r, s, o>>[1] = r
    OBVIOUS
  <1> QED BY <1>1, <1>2 DEF Pending, Of

\* In a phase there is one order to send, and what is in the queue is of it.
LEMMA OrderInPhase ==
    ASSUME TypeOK, Phased, NEW r \in Requests, pc[r] # "new"
    PROVE  OrderIn[phase[r]] \in Orders
  BY DEF TypeOK, Phased, OrderIn, Orders

LEMMA SparedKeeps ==
    ASSUME TypeOK, TypeOK', NEW r \in Requests, Keeps(r), Spares(r)
    PROVE  Keeps(r)'
  <1> USE DEF Spares
  <1>1. \A s \in Sessions, o \in Orders :
            /\ <<r, s, o>> \in queue' <=> <<r, s, o>> \in queue
            /\ <<r, s, o>> \in sent' <=> <<r, s, o>> \in sent
            /\ <<r, s, o>> \in wire' <=> <<r, s, o>> \in wire
            /\ <<r, s, o>> \in agreed' <=> <<r, s, o>> \in agreed
            /\ \A x \in Outcomes :
                  /\ <<<<r, s, o>>, x>> \in tasks' <=> <<<<r, s, o>>, x>> \in tasks
                  /\ wpc' = "lock" /\ task' = <<<<r, s, o>>, x>>
                     <=> wpc = "lock" /\ task = <<<<r, s, o>>, x>>
    BY PDUOf
  <1>2. Asked(r)' = Asked(r)
    BY DEF Asked
  <1>3. Pending(r)' <=> Pending(r)
    BY <1>1, PendingOf, PendingNext
  <1>4. \A s \in Sessions : s \in Owed(r)' <=> s \in Owed(r)
    <2>1. CASE OrderIn[phase[r]] \in Orders
      BY <1>1, <2>1 DEF Owed
    <2>2. CASE OrderIn[phase[r]] \notin Orders
      <3>1. \A s \in Sessions : <<r, s, OrderIn[phase[r]]>> \notin queue
        BY <2>2 DEF TypeOK, PDUs
      <3>2. \A s \in Sessions : <<r, s, OrderIn[phase'[r]]>> \notin queue'
        BY <2>2 DEF TypeOK, PDUs
      <3> QED BY <3>1, <3>2 DEF Owed
    <2> QED BY <2>1, <2>2
  <1>5. Asked(r) \subseteq Sessions
    BY AskedSessions
  <1>6. Unsent(r)' /\ Involves(r)'
    BY <1>1, <1>2 DEF Keeps, Unsent, Involves
  <1>7. Course(r)'
    BY <1>2, <1>4, <1>5 DEF Keeps, Course
  <1>8. Used(r)' /\ Flight(r)' /\ Outcome(r)'
    BY <1>1 DEF Keeps, Used, Flight, Outcome
  <1>9. Taken(r)'
    <2> SUFFICES ASSUME wpc' = "lock", task'[1][1] = r PROVE task'[1] \notin queue'
      BY DEF Taken
    <2>1. task' \in PDUs \X Outcomes
      BY DEF TypeOK
    <2>2. PICK p \in PDUs, x \in Outcomes : task' = <<p, x>>
      BY <2>1
    <2>3. wpc = "lock" /\ task = <<p, x>>
      BY <2>2
    <2>4. p \notin queue
      BY <2>2, <2>3 DEF Keeps, Taken
    <2> QED BY <2>2, <2>4
  <1>10. Answers(r)'
    <2> SUFFICES ASSUME phase[r] \in {"prepare", "commit"}, ~err[r], pc[r] # "gone",
                        NEW s \in Asked(r)
                 PROVE  (<<r, s, OrderIn[phase[r]]>> \in queue \union agreed
                            \/ Refused(<<r, s, OrderIn[phase[r]]>>))'
      BY <1>2 DEF Answers
    <2>1. s \in Sessions /\ OrderIn[phase[r]] \in Orders /\ phase'[r] = phase[r]
      BY <1>5 DEF OrderIn, Orders
    <2>2. "error" \in Outcomes
      BY DEF Outcomes
    <2>3. <<r, s, OrderIn[phase[r]]>> \in queue \union agreed
              \/ Refused(<<r, s, OrderIn[phase[r]]>>)
      BY DEF Keeps, Answers
    <2> QED BY <1>1, <2>1, <2>2, <2>3 DEF Refused
  <1>11. Waits(r)'
    <2>1. \A o \in Orders : AllAgreed(r, o)' <=> AllAgreed(r, o)
      BY <1>1, <1>2, <1>5 DEF AllAgreed
    <2> QED BY <1>2, <1>3, <1>4, <1>5, <2>1, Zenon DEF Keeps, Waits, Orders
  <1> QED BY <1>6, <1>7, <1>8, <1>9, <1>10, <1>11 DEF Keeps

\* What set_request adds when no session is gone
LEMMA OrderAdds ==
    ASSUME TypeOK, Quiet, NEW r \in Requests, NEW N \in SUBSET Nodes, NEW o \in Orders,
           Order(r, N, o)
    PROVE  /\ UNCHANGED <<sent, late>>
           /\ queue \subseteq queue'
           /\ \A p \in queue' \ queue : p[1] = r /\ p[3] = o /\ \E n \in N : SessionOf[n] = p[2]
           /\ \A n \in N : \/ <<r, SessionOf[n], o>> \in queue'
                           \/ \E p \in Of(r) \ sent : p[2] = SessionOf[n]
  <1> DEFINE S == {s \in open : /\ \E n \in N : node[n] = "active" /\ SessionOf[n] = s
                                /\ \A p \in Of(r) \ sent : p[2] # s}
             P == {<<r, s, o>> : s \in S}
  <1>1. queue' = queue \union P /\ UNCHANGED <<sent, late>>
    BY DEF Order, Add
  <1>2. \A p \in P : p[1] = r /\ p[3] = o /\ \E n \in N : SessionOf[n] = p[2]
    OBVIOUS
  <1>3. ASSUME NEW n \in N, \A p \in Of(r) \ sent : p[2] # SessionOf[n]
        PROVE  <<r, SessionOf[n], o>> \in P
    <2>1. SessionOf[n] \in open /\ node[n] = "active"
      BY AgentXSetsAssumption DEF Quiet
    <2> QED BY <1>3, <2>1
  <1> QED BY <1>1, <1>2, <1>3

LEMMA PhaseQueue ==
    ASSUME NEW r \in Requests, PhaseStep(r)
    PROVE  UNCHANGED queueVars \/ Remove(Of(r)) \/ \E N : \E o \in Orders : Order(r, N, o)
  <1>1. CASE Start(r) \/ Prepared(r) \/ Undone(r)
    BY <1>1 DEF Start, Prepared, Undone
  <1>2. CASE Deny(r)
    BY <1>2 DEF Deny
  <1>3. ASSUME Prepare(r) \/ Tested(r) \/ Committed(r)
        PROVE  UNCHANGED queueVars \/ \E N : \E o \in Orders : Order(r, N, o)
    <2>1. CASE Prepare(r)
      BY <2>1, Zenon DEF Prepare, Orders
    <2>2. CASE Tested(r)
      BY <2>2, Zenon DEF Tested, CleanUp, Orders
    <2>3. CASE Committed(r)
      BY <2>3, Zenon DEF Committed, CleanUp, Orders
    <2> QED BY <1>3, <2>1, <2>2, <2>3
  <1> QED BY <1>1, <1>2, <1>3 DEF PhaseStep

\* A step of the thread of r says nothing of another request.
LEMMA OthersSpared ==
    ASSUME TypeOK, NEW r \in Requests, RequestStep(r), NEW q \in Requests \ {r}
    PROVE  Spares(q)
  <1>0. QueueTypes /\ open \subseteq Sessions
    BY DEF TypeOK, QueueTypes
  <1>1. pc'[q] = pc[q] /\ at'[q] = at[q] /\ phase'[q] = phase[q] /\ finished'[q] = finished[q]
    BY OthersKept
  <1>2. ASSUME NEW n \in Nodes, owner'[n] = q PROVE owner[n] = q
    <2>1. CASE UNCHANGED owner
      BY <1>2, <2>1
    <2>2. CASE Prepare(r)
      BY <1>2, <2>2 DEF Prepare, TypeOK
    <2>3. CASE Release(r)
      BY <1>2, <2>3, AgentXSetsAssumption DEF Release
    <2>4. UNCHANGED owner \/ Prepare(r) \/ Release(r)
      BY Zenon DEF RequestStep, PhaseStep, Start, Deny, Prepared, Tested, Committed, Undone, CleanUp,
         Send, Answer, lockVars
    <2> QED BY <2>1, <2>2, <2>3, <2>4
  <1>3. CASE PhaseStep(r)
    <2>1. UNCHANGED <<wire, agreed, tasks, wpc, task, told, answer>>
      BY <1>3 DEF PhaseStep, workVars, netVars
    <2>2. err'[q] = err[q]
      BY <1>3, Zenon DEF PhaseStep, Start, Prepare, Deny, Prepared, Tested, Committed, Undone,
         CleanUp, Fail, TypeOK
    <2>3. ASSUME NEW p \in PDUs, p[1] = q
          PROVE  (p \in queue' <=> p \in queue) /\ (p \in sent' <=> p \in sent)
      <3>1. CASE UNCHANGED queueVars
        BY <3>1 DEF queueVars
      <3>2. CASE Remove(Of(r))
        BY <2>3, <3>2 DEF Remove, Of
      <3>3. ASSUME NEW N, NEW o \in Orders, Order(r, N, o)
            PROVE  (p \in queue' <=> p \in queue) /\ (p \in sent' <=> p \in sent)
        BY <1>0, <2>3, <3>3, OrderTypes
      <3> QED BY <1>3, <3>1, <3>2, <3>3, PhaseQueue
    <2> QED BY <1>1, <1>2, <2>1, <2>2, <2>3 DEF Spares
  <1>4. CASE Send(r)
    <2>1. UNCHANGED <<err, agreed, tasks, answer>> /\ told'[q] = told[q]
      BY <1>4 DEF Send, TypeOK
    <2>2. ASSUME NEW p \in PDUs, p[1] = q
          PROVE  /\ (p \in queue' <=> p \in queue) /\ (p \in sent' <=> p \in sent)
                 /\ (p \in wire' <=> p \in wire)
      <3>1. p \notin Of(r)
        BY <2>2 DEF Of
      <3> QED BY <1>4, <3>1 DEF Send
    <2>3. UNCHANGED <<wpc, task>> \/ (wpc = "run" /\ wpc' = "free")
      BY <1>4 DEF Send, Leave
    <2> QED BY <1>1, <1>2, <2>1, <2>2, <2>3 DEF Spares
  <1>5. CASE Answer(r)
    <2>1. UNCHANGED <<err, agreed, tasks, told, queue, sent, wire>> /\ answer'[q] = answer[q]
      BY <1>5 DEF Answer, TypeOK, queueVars, netVars
    <2>2. UNCHANGED <<wpc, task>> \/ (wpc = "run" /\ wpc' = "free")
      BY <1>5 DEF Answer, Leave
    <2> QED BY <1>1, <1>2, <2>1, <2>2 DEF Spares
  <1> QED BY <1>3, <1>4, <1>5 DEF RequestStep

\* A step of axSetThread, or a response, is about the request of its PDU.
LEMMA WorkerSpares ==
    ASSUME TypeOK, NEW q \in Requests
    PROVE  /\ \A t \in tasks : TakeTask(t) /\ t[1][1] # q => Spares(q)
           /\ (Process \/ Drop) /\ task[1][1] # q => Spares(q)
           /\ \A p \in PDUs : Receive(p) /\ p[1] # q => Spares(q)
  <1>1. ASSUME NEW t \in tasks, TakeTask(t), t[1][1] # q PROVE Spares(q)
    <2>1. /\ UNCHANGED <<pc, at, phase, err, finished, owner, told, answer, wire, agreed>>
          /\ tasks' = tasks \ {t} /\ wpc = "free"
      BY <1>1 DEF TakeTask, requestVars, lockVars, netVars
    <2>2. \A p \in PDUs : p[1] = q => (p \in queue' <=> p \in queue) /\ (p \in sent' <=> p \in sent)
      BY <1>1 DEF TakeTask, Remove, queueVars
    <2>3. \A p \in PDUs, x \in Outcomes : p[1] = q => <<p, x>> # t
      BY <1>1
    <2>4. wpc' = "lock" => task' = t
      BY <1>1 DEF TakeTask
    <2> QED BY <2>1, <2>2, <2>3, <2>4 DEF Spares
  <1>2. ASSUME Process \/ Drop, task[1][1] # q PROVE Spares(q)
    <2>1. /\ UNCHANGED <<at, phase, owner, told, answer, wire, agreed, queue, sent, tasks>>
          /\ wpc = "lock" /\ wpc' # "lock"
      BY <1>2 DEF Process, Drop, requestVars, lockVars, queueVars, netVars
    <2>2. pc'[q] = pc[q] /\ err'[q] = err[q] /\ finished'[q] = finished[q]
      BY <1>2, Zenon DEF Process, Drop, Goto, Fail, TypeOK, requestVars
    <2>3. \A p \in PDUs, x \in Outcomes : p[1] = q => task # <<p, x>>
      BY <1>2
    <2> QED BY <2>1, <2>2, <2>3 DEF Spares
  <1>3. ASSUME NEW p \in PDUs, Receive(p), p[1] # q PROVE Spares(q)
    <2>1. /\ UNCHANGED <<pc, at, phase, err, finished, owner, told, answer, wpc, task>>
          /\ wire' = wire \ {p} /\ agreed' \in {agreed, agreed \union {p}}
      BY <1>3 DEF Receive, requestVars, lockVars
    <2>2. PICK x : DispatchResponse(p, x)
      BY <1>3 DEF Receive
    <2>3. \A e \in PDUs : e[1] = q =>
              /\ e \in queue' <=> e \in queue
              /\ e \in sent' <=> e \in sent
              /\ \A y \in Outcomes : <<e, y>> \in tasks' <=> <<e, y>> \in tasks
      BY <1>3, <2>2 DEF DispatchResponse, Remove, queueVars
    <2> QED BY <1>3, <2>1, <2>3 DEF Spares
  <1> QED BY <1>1, <1>2, <1>3

\* Without faults the main thread only reads answers and no session is closed.
LEMMA QuietSteps ==
    ASSUME NoFaults, TypeOK, Quiet, Next
    PROVE  \/ \E r \in Requests : RequestStep(r)
           \/ WorkerStep
           \/ \E p \in PDUs : Receive(p)
           \/ UNCHANGED vars
  <1>1. ~MainStep
    BY DEF MainStep, Look, GetLate, TimeOut, Purge, Quiet
  <1>2. ASSUME NEW p \in PDUs, Tick(p) PROVE FALSE
    BY <1>2, PDUIs DEF Tick, NoFaults, Quiet
  <1>3. \A c \in Closers : ~CloserStep(c)
    BY DEF CloserStep, RemoveSession, LockRegistry, LockMib, Visited, LockVictim, EntriesRemoved,
       Visit, RemoveVictim, Quiet
  <1> QED BY <1>1, <1>2, <1>3 DEF Next, NoFaults, Finished

LEMMA QuietStep == ASSUME NoFaults, TypeOK, Quiet, [Next]_vars PROVE Quiet'
  <1>1. ASSUME NEW P, Add(P) \/ Remove(P) PROVE late' = {}
    BY <1>1 DEF Add, Remove, Quiet
  <1>2. CASE UNCHANGED vars
    BY <1>2 DEF vars, queueVars, mainVars, closeVars, sessionVars, netVars, Quiet
  <1>3. ASSUME NEW r \in Requests, RequestStep(r) PROVE Quiet'
    <2>1. UNCHANGED <<seen, mpc, cpc, open, link, node>>
      BY <1>3 DEF RequestStep, PhaseStep, Send, Answer, mainVars, closeVars, sessionVars, netVars
    <2>2. late' = {}
      <3>1. CASE PhaseStep(r)
        <4>1. \A N, o : Order(r, N, o) => late' = {}
          BY <1>1 DEF Order
        <4> QED BY <1>1, <3>1, <4>1, PhaseQueue DEF queueVars, Quiet
      <3> QED BY <1>3, <3>1 DEF RequestStep, Send, Answer, queueVars, Quiet
    <2> QED BY <2>1, <2>2 DEF Quiet
  <1>4. CASE WorkerStep
    <2>1. UNCHANGED <<seen, mpc, cpc, open, link, node>>
      BY <1>4 DEF WorkerStep, TakeTask, Process, Drop, mainVars, closeVars, sessionVars, netVars
    <2>2. late' = {}
      BY <1>1, <1>4 DEF WorkerStep, TakeTask, Process, Drop, queueVars, Quiet
    <2> QED BY <2>1, <2>2 DEF Quiet
  <1>5. ASSUME NEW p \in PDUs, Receive(p) PROVE Quiet'
    <2>1. UNCHANGED <<seen, mpc, cpc, open, link, node>>
      BY <1>5 DEF Receive, mainVars, closeVars, sessionVars
    <2>2. late' = {}
      BY <1>1, <1>5 DEF Receive, DispatchResponse, queueVars, Quiet
    <2> QED BY <2>1, <2>2 DEF Quiet
  <1> QED BY <1>2, <1>3, <1>4, <1>5, QuietSteps

-----------------------------------------------------------------------------
(* The thread of a request *)

\* A request that is not waiting has nothing unsent but in the middle of a phase.
LEMMA AllSent ==
    ASSUME TypeOK, NEW r \in Requests, Unsent(r),
           pc[r] \notin {"prepare", "committed", "undone", "send"} \/ ~Pending(r)
    PROVE  /\ \A s \in Sessions, o \in Orders : <<r, s, o>> \notin queue \ sent
           /\ Of(r) \ sent = {}
  <1>1. \A s \in Sessions, o \in Orders : <<r, s, o>> \notin queue \ sent
    BY PendingOf DEF Unsent
  <1>2. ASSUME NEW p \in Of(r) \ sent PROVE FALSE
    <2>1. p \in queue \ sent /\ p \in PDUs /\ p[1] = r
      BY DEF Of, TypeOK
    <2>2. p[2] \in Sessions /\ p[3] \in Orders /\ p = <<r, p[2], p[3]>>
      BY <2>1, PDUIs
    <2> QED BY <1>1, <2>1, <2>2
  <1> QED BY <1>1, <1>2

\* axSetThread has no response for a request that its own thread moves.
LEMMA NotTaken ==
    ASSUME TypeOK, Handed, NEW r \in Requests, pc[r] \notin Away
    PROVE  /\ ~(wpc = "lock" /\ task[1][1] = r)
           /\ \A s, o : ~Refused(<<r, s, o>>)
           /\ wpc = "free" => \A t \in tasks : t[1][1] # r
  <1>1. ~(wpc = "lock" /\ task[1][1] = r)
    BY DEF Handed, Underway, Mine, Away
  <1>2. \A s, o : <<<<r, s, o>>, "error">>[1][1] = r
    OBVIOUS
  <1>3. wpc = "free" => \A t \in tasks : t[1][1] # r
    BY DEF Handed, Underway, Mine, Away
  <1> QED BY <1>1, <1>2, <1>3 DEF Refused

LEMMA PhaseCommon ==
    ASSUME TypeOK, TypeOK', Phased, Handed, NEW r \in Requests, Keeps(r), PhaseStep(r)
    PROVE  /\ UNCHANGED <<told, wire, agreed, tasks, wpc, task, answer>> /\ pc[r] \notin Away
           /\ Used(r)' /\ Flight(r)' /\ Outcome(r)' /\ Taken(r)'
  <1>1. UNCHANGED <<told, wire, agreed, tasks, wpc, task, answer>>
    BY DEF PhaseStep, workVars, netVars
  <1>2. pc[r] \notin Away
    BY DEF PhaseStep, Start, Prepare, Deny, Prepared, Tested, Committed, Undone, Away
  <1>3. sent' \subseteq sent
    <2>1. ASSUME NEW P, Add(P) \/ Remove(P) PROVE sent' \subseteq sent
      BY <2>1 DEF Add, Remove
    <2>2. \A N, o : Order(r, N, o) => sent' \subseteq sent
      BY <2>1 DEF Order
    <2> QED BY <2>1, <2>2, PhaseQueue DEF queueVars
  <1>4. Used(r)'
    BY <1>1, <1>3 DEF Keeps, Used
  <1>5. ASSUME NEW s \in Sessions, NEW o \in Orders, <<r, s, o>> \in wire
        PROVE  <<r, s, o>> \in sent'
    <2>1. <<r, s, o>> \in sent
      BY <1>5 DEF Keeps, Flight
    <2>2. CASE UNCHANGED sent
      BY <2>1, <2>2
    <2>3. CASE Deny(r)
      <3>1. told[r][s] = "none"
        BY <2>3 DEF Deny, Keeps, Course
      <3> QED BY <2>1, <3>1 DEF Keeps, Used, Upto
    <2>4. UNCHANGED sent \/ Deny(r)
      <3>1. \A N, o1 : Order(r, N, o1) => UNCHANGED sent
        BY DEF Order, Add
      <3>2. Start(r) \/ Prepare(r) \/ Prepared(r) \/ Undone(r) => UNCHANGED sent
        BY <3>1 DEF Start, Prepare, Prepared, Undone, queueVars
      <3>3. Tested(r) \/ Committed(r) => UNCHANGED sent
        BY <3>1, Zenon DEF Tested, Committed, CleanUp, queueVars
      <3> QED BY <3>2, <3>3 DEF PhaseStep
    <2> QED BY <2>2, <2>3, <2>4
  <1>6. Flight(r)'
    BY <1>1, <1>5 DEF Keeps, Flight
  <1>7. Outcome(r)'
    BY <1>1 DEF Keeps, Outcome
  <1>8. Taken(r)'
    BY <1>1, <1>2, NotTaken DEF Taken
  <1> QED BY <1>1, <1>2, <1>4, <1>6, <1>7, <1>8

LEMMA StartKeeps ==
    ASSUME TypeOK, TypeOK', Phased, NEW r \in Requests, Keeps(r), Start(r), UNCHANGED <<told, answer>>
    PROVE  Unsent(r)' /\ Involves(r)' /\ Course(r)' /\ Answers(r)' /\ Waits(r)'
  <1>1. /\ pc[r] = "new" /\ pc'[r] = "prepare" /\ phase'[r] = "prepare"
        /\ UNCHANGED <<at, err, finished, owner, queue, sent>>
    BY DEF Start, Goto, TypeOK, queueVars
  <1>2. \A s \in Sessions, o \in Orders : <<r, s, o>> \notin queue \ sent
    BY <1>1, AllSent DEF Keeps
  <1>3. Asked(r)' = Asked(r)
    BY <1>1 DEF Asked
  <1>4. Asked(r) = {}
    <2>1. Names[r] \in Seq(Nodes) /\ at[r] = 1
      BY <1>1, AgentXSetsAssumption DEF Keeps, Waits
    <2>2. \A i \in DOMAIN Names[r] : ~(i < 1)
      BY <2>1
    <2> QED BY <2>1, <2>2 DEF Asked
  <1>5. Unsent(r)' /\ Involves(r)'
    BY <1>1, <1>2, <1>3 DEF Keeps, Unsent, Involves
  <1>6. Course(r)' /\ Answers(r)'
    BY <1>1, <1>3, <1>4 DEF Keeps, Course, Answers
  <1>7. Waits(r)'
    BY <1>1 DEF Keeps, Waits
  <1> QED BY <1>5, <1>6, <1>7

LEMMA PrepareKeeps ==
    ASSUME TypeOK, TypeOK', Quiet, Phased, Handed, NEW r \in Requests, Keeps(r), Prepare(r),
           UNCHANGED <<told, wpc, task, agreed, answer>>
    PROVE  Unsent(r)' /\ Involves(r)' /\ Course(r)' /\ Answers(r)' /\ Waits(r)'
  <1> DEFINE n == Names[r][at[r]]
  <1>0. at[r] \in DOMAIN Names[r] /\ n \in Nodes
    <2>1. at[r] > 0 /\ at[r] <= Len(Names[r])
      BY DEF Prepare, Keeps, Waits
    <2>2. at[r] \in Nat /\ Names[r] \in Seq(Nodes)
      BY AgentXSetsAssumption DEF TypeOK
    <2> QED BY <2>1, <2>2
  <1>1. /\ pc[r] = "prepare" /\ phase[r] = "prepare" /\ UNCHANGED <<pc, phase, err, finished>>
        /\ at' = [at EXCEPT ![r] = @ + 1] /\ owner' = [owner EXCEPT ![n] = r]
        /\ Order(r, {n}, "test")
    <2>1. node[n] # "empty"
      BY <1>0 DEF Quiet
    <2> QED BY <2>1 DEF Prepare, Phased
  <1>2. at'[r] = at[r] + 1 /\ at[r] \in Nat
    BY <1>1 DEF TypeOK
  <1>3. \A i \in DOMAIN Names[r] : i < at'[r] <=> i < at[r] \/ i = at[r]
    <2>1. \A i \in DOMAIN Names[r] : i \in Nat
      BY AgentXSetsAssumption
    <2> QED BY <1>2, <2>1
  <1>4. Asked(r)' = Asked(r) \union {SessionOf[n]}
    BY <1>0, <1>3 DEF Asked
  <1>5. /\ UNCHANGED sent
        /\ queue \subseteq queue'
        /\ \A p \in queue' \ queue : p[1] = r /\ p[3] = "test" /\ SessionOf[n] = p[2]
        /\ \/ <<r, SessionOf[n], "test">> \in queue'
           \/ \E p \in Of(r) \ sent : p[2] = SessionOf[n]
    BY <1>0, <1>1, OrderAdds DEF Orders
  <1>6. SessionOf[n] \in Sessions
    BY <1>0, AgentXSetsAssumption
  <1>7. \A s \in Sessions, o \in Orders :
            <<r, s, o>> \in queue' \ queue => o = "test" /\ s = SessionOf[n]
    <2>1. \A s, o : <<r, s, o>>[2] = s /\ <<r, s, o>>[3] = o
      OBVIOUS
    <2> QED BY <1>5, <2>1
  <1>8. Unsent(r)'
    BY <1>1, <1>5, <1>7 DEF Keeps, Unsent, OrderIn
  <1>9. <<r, SessionOf[n], "test">> \in queue'
    <2>1. SUFFICES ASSUME NEW p \in Of(r) \ sent, p[2] = SessionOf[n]
                   PROVE  <<r, SessionOf[n], "test">> \in queue'
      BY <1>5
    <2>2. p \in PDUs /\ p[1] = r /\ p \in queue \ sent
      BY DEF Of, TypeOK
    <2>3. p = <<r, p[2], p[3]>> /\ p[3] \in Orders /\ p[2] \in Sessions
      BY <2>2, PDUIs
    <2>4. p[3] = "test"
      BY <1>1, <2>2, <2>3 DEF Keeps, Unsent, OrderIn
    <2> QED BY <1>5, <2>1, <2>2, <2>3, <2>4
  <1>10. Involves(r)'
    <2>1. \A s \in Sessions, o \in Orders : <<r, s, o>> \in queue' => s \in Asked(r)'
      BY <1>4, <1>7 DEF Keeps, Involves
    <2>2. ASSUME NEW m \in Nodes, owner'[m] = r
          PROVE  \E i \in DOMAIN Names[r] : i < at'[r] /\ Names[r][i] = m
      <3>1. m = n \/ owner[m] = r
        BY <1>1, <2>2 DEF TypeOK
      <3> QED BY <1>0, <1>3, <3>1 DEF Keeps, Involves
    <2> QED BY <1>1, <1>4, <2>1, <2>2 DEF Keeps, Involves
  <1>11. Course(r)'
    BY <1>1 DEF Keeps, Course
  <1>12. Answers(r)'
    <2>1. \A s \in Asked(r) : ~err[r] => <<r, s, "test">> \in queue' \union agreed
      BY <1>1, <1>5, NotTaken DEF Keeps, Answers, OrderIn, Away
    <2>2. \A s \in Asked(r)' : ~err[r] => <<r, s, "test">> \in queue' \union agreed
      BY <1>4, <1>9, <2>1
    <2> QED BY <1>1, <2>2 DEF Answers, OrderIn
  <1>13. Waits(r)'
    BY <1>1, <1>2 DEF Keeps, Waits
  <1> QED BY <1>8, <1>10, <1>11, <1>12, <1>13

LEMMA DenyKeeps ==
    ASSUME TypeOK, TypeOK', Phased, NEW r \in Requests, Keeps(r), Deny(r),
           UNCHANGED <<told, answer>>
    PROVE  Unsent(r)' /\ Involves(r)' /\ Course(r)' /\ Answers(r)' /\ Waits(r)'
  <1>1. /\ pc[r] = "prepare" /\ pc'[r] = "tested" /\ phase[r] = "prepare" /\ err'[r] = TRUE
        /\ UNCHANGED <<at, phase, owner>> /\ queue' = queue \ Of(r)
    BY DEF Deny, Fail, Goto, Remove, TypeOK, Phased
  <1>2. Asked(r)' = Asked(r)
    BY <1>1 DEF Asked
  <1>3. \A s, o : <<r, s, o>> \notin queue'
    BY <1>1 DEF Of
  <1>4. Unsent(r)' /\ Involves(r)'
    BY <1>1, <1>2, <1>3 DEF Keeps, Unsent, Involves
  <1>5. Course(r)' /\ Answers(r)'
    BY <1>1 DEF Keeps, Course, Answers
  <1>6. Waits(r)'
    BY <1>1 DEF Keeps, Waits
  <1> QED BY <1>4, <1>5, <1>6

\* The thread goes on with nothing else changed.
LEMMA GoesOnKeeps ==
    ASSUME TypeOK, TypeOK', Handed, NEW r \in Requests, Keeps(r), NEW place, Goto(r, place),
           UNCHANGED <<at, phase, err, owner, queue, sent, told, wpc, task, agreed, answer>>,
           pc[r] \in {"prepare", "tested", "committed", "undone"},
           place \in {"tested", "committed", "send"},
           place = "tested" => ~Pending(r)
    PROVE  Unsent(r)' /\ Involves(r)' /\ Course(r)' /\ Answers(r)'
  <1>1. pc'[r] = place
    BY DEF Goto, TypeOK
  <1>2. Asked(r)' = Asked(r) /\ Owed(r)' = Owed(r)
    BY DEF Asked, Owed
  <1>3. Unsent(r)'
    BY <1>1, AllSent DEF Keeps, Unsent
  <1>4. Involves(r)'
    BY <1>2 DEF Keeps, Involves
  <1>5. Course(r)'
    BY <1>1, <1>2 DEF Keeps, Course
  <1>6. Answers(r)'
    BY <1>1, <1>2 DEF Keeps, Answers, Refused
  <1> QED BY <1>3, <1>4, <1>5, <1>6

LEMMA PreparedKeeps ==
    ASSUME TypeOK, TypeOK', Phased, Handed, NEW r \in Requests, Keeps(r), Prepared(r),
           UNCHANGED <<told, wpc, task, agreed, answer>>
    PROVE  Unsent(r)' /\ Involves(r)' /\ Course(r)' /\ Answers(r)' /\ Waits(r)'
  <1>1. /\ pc[r] = "prepare" /\ phase[r] = "prepare"
        /\ at[r] > Len(Names[r]) /\ UNCHANGED <<at, phase, err, finished, owner, queue, sent>>
        /\ Goto(r, IF Pending(r) THEN "send" ELSE "tested")
    BY DEF Prepared, Phased, queueVars
  <1>2. pc'[r] = IF Pending(r) THEN "send" ELSE "tested"
    BY <1>1 DEF Goto, TypeOK
  <1>3. Pending(r)' <=> Pending(r)
    BY <1>1 DEF Pending, Of
  <1>4. Waits(r)'
    BY <1>1, <1>2, <1>3 DEF Keeps, Waits
  <1>5. \E place \in {"tested", "send"} : Goto(r, place) /\ (place = "tested" => ~Pending(r))
    BY <1>1
  <1> QED BY <1>1, <1>4, <1>5, GoesOnKeeps

\* A phase that begins: every session of the nodes that are held is sent its order.
LEMMA Begins ==
    ASSUME TypeOK, TypeOK', Quiet, NEW r \in Requests, Keeps(r), NEW o \in Orders,
           Order(r, Held(r), o), phase'[r] \in {"commit", "undo", "cleanup"},
           o = OrderIn[phase'[r]], pc'[r] \in {"committed", "undone", "send"},
           UNCHANGED <<at, told>>, \A n \in Nodes : owner'[n] = r => owner[n] = r,
           pc[r] = "tested" \/ ~Pending(r),
           \A s \in Sessions : o \notin Upto[told[r][s]],
           phase[r] \in {"prepare", "commit"}, pc[r] # "gone", Locked
    PROVE  /\ Unsent(r)' /\ Involves(r)' /\ queue \subseteq queue'
           /\ Asked(r)' = Asked(r) /\ Owed(r)' = Asked(r)
           /\ \A s \in Asked(r) : <<r, s, o>> \in queue'
  <1>1. Of(r) \ sent = {} /\ \A s \in Sessions, q \in Orders : <<r, s, q>> \notin queue \ sent
    BY AllSent DEF Keeps
  <1>2. /\ UNCHANGED sent
        /\ queue \subseteq queue'
        /\ \A p \in queue' \ queue : p[1] = r /\ p[3] = o /\ \E n \in Held(r) : SessionOf[n] = p[2]
        /\ \A n \in Held(r) : <<r, SessionOf[n], o>> \in queue'
    <2>1. Held(r) \in SUBSET Nodes
      BY DEF Held
    <2> QED BY <1>1, <2>1, OrderAdds
  <1>3. Asked(r)' = Asked(r)
    BY DEF Asked
  <1>4. \A s : (\E n \in Held(r) : SessionOf[n] = s) <=> s \in Asked(r)
    <2>1. \A n \in Held(r) : \E i \in DOMAIN Names[r] : i < at[r] /\ Names[r][i] = n
      BY DEF Held, Keeps, Involves
    <2>2. \A i \in DOMAIN Names[r] : i < at[r] => Names[r][i] \in Held(r)
      <3>1. \A i \in DOMAIN Names[r] : Names[r][i] \in Nodes
        BY AgentXSetsAssumption
      <3> QED BY <3>1 DEF Locked, Held
    <2> QED BY <2>1, <2>2 DEF Asked
  <1>5. \A s \in Sessions, q \in Orders : <<r, s, q>> \in queue' \ queue => q = o /\ s \in Asked(r)
    <2>1. \A s, q : <<r, s, q>>[2] = s /\ <<r, s, q>>[3] = q
      OBVIOUS
    <2> QED BY <1>2, <1>4, <2>1
  <1>6. Unsent(r)'
    BY <1>1, <1>2, <1>5 DEF Unsent
  <1>7. Involves(r)'
    <2>1. \A s \in Sessions, q \in Orders : <<r, s, q>> \in queue' => s \in Asked(r)
      BY <1>5 DEF Keeps, Involves
    <2>2. \A n \in Nodes : owner'[n] = r => \E i \in DOMAIN Names[r] : i < at[r] /\ Names[r][i] = n
      BY DEF Keeps, Involves
    <2> QED BY <1>3, <2>1, <2>2 DEF Keeps, Involves
  <1>8. \A s \in Sessions : <<r, s, o>> \notin sent
    BY DEF Keeps, Used
  <1>9. \A s \in Asked(r) : s \in Sessions /\ <<r, s, o>> \in queue'
    BY <1>2, <1>4, AskedSessions
  <1>10. Owed(r)' = Asked(r)
    BY <1>1, <1>2, <1>5, <1>8, <1>9 DEF Owed
  <1> QED BY <1>2, <1>3, <1>6, <1>7, <1>9, <1>10

\* With nothing pending and no error all sessions of a request agree.
LEMMA NonePending ==
    ASSUME TypeOK, Phased, Handed, NEW r \in Requests, Keeps(r), pc[r] \in {"tested", "committed"},
           ~Pending(r), ~err[r]
    PROVE  AllAgreed(r, OrderIn[phase[r]])
  <1>1. phase[r] \in {"prepare", "commit"}
    BY DEF Phased
  <1>2. OrderIn[phase[r]] \in Orders /\ Asked(r) \subseteq Sessions
    BY <1>1, AskedSessions DEF OrderIn, Orders
  <1>3. \A s \in Asked(r) : <<r, s, OrderIn[phase[r]]>> \notin queue
    BY <1>2, PendingOf
  <1>4. \A s, o : ~Refused(<<r, s, o>>)
    BY NotTaken DEF Away
  <1> QED BY <1>1, <1>3, <1>4 DEF Keeps, Answers, AllAgreed

\* In the commit phase with nothing pending all sessions have been told.
LEMMA AllTold ==
    ASSUME TypeOK, NEW r \in Requests, Keeps(r), ~Pending(r), phase[r] = "commit"
    PROVE  \A s \in Asked(r) : told[r][s] = "commit"
  <1>1. \A s \in Asked(r) : s \notin Owed(r)
    BY PendingOf DEF Owed, OrderIn, Orders
  <1> QED BY <1>1 DEF Keeps, Course

LEMMA ReleaseOwner ==
    ASSUME NEW r \in Requests, Release(r)
    PROVE  \A n \in Nodes : owner'[n] = r => owner[n] = r
  BY DEF Release

LEMMA TestedKeeps ==
    ASSUME IInv, TypeOK', Quiet, NEW r \in Requests, Keeps(r), Tested(r),
           UNCHANGED <<told, wpc, task, agreed, answer>>
    PROVE  Unsent(r)' /\ Involves(r)' /\ Course(r)' /\ Answers(r)' /\ Waits(r)'
  <1>0. TypeOK /\ Phased /\ Handed /\ Locked
    BY DEF IInv
  <1>1. pc[r] = "tested" /\ phase[r] = "prepare" /\ UNCHANGED <<at, err>>
    BY <1>0 DEF Tested, Phased
  <1>2. \A s \in Sessions : told[r][s] \in {"none", "test"}
    BY <1>1 DEF Keeps, Course
  <1>3. CASE err[r] /\ CleanUp(r)
    <2>1. /\ phase'[r] = "cleanup" /\ pc'[r] = "send"
          /\ Order(r, Held(r), "cleanup") /\ Release(r)
      BY <1>0, <1>3 DEF CleanUp, Goto, TypeOK
    <2>2. \A s \in Sessions : "cleanup" \notin Upto[told[r][s]]
      BY <1>2 DEF Upto
    <2>3. Unsent(r)' /\ Involves(r)' /\ Asked(r)' = Asked(r) /\ Owed(r)' = Asked(r)
      BY <1>0, <1>1, <2>1, <2>2, Begins, ReleaseOwner DEF Orders, OrderIn
    <2>4. Course(r)'
      <3>1. \A s \in Sessions : s \notin Asked(r) => told[r][s] = "none"
        BY DEF Keeps, Involves
      <3> QED BY <1>1, <1>2, <2>1, <2>3, <3>1 DEF Course
    <2>5. Answers(r)'
      BY <2>1 DEF Answers
    <2>6. Waits(r)'
      BY <1>1, <1>3, <2>1 DEF Keeps, Waits
    <2> QED BY <2>3, <2>4, <2>5, <2>6
  <1>4. CASE /\ ~err[r] /\ Pending(r) /\ Goto(r, "committed")
             /\ UNCHANGED <<phase, finished, owner, queueVars>>
    <2>1. pc'[r] = "committed" /\ UNCHANGED <<queue, sent>>
      BY <1>0, <1>4 DEF Goto, TypeOK, queueVars
    <2>2. Unsent(r)' /\ Involves(r)' /\ Course(r)' /\ Answers(r)'
      BY <1>0, <1>1, <1>4, <2>1, GoesOnKeeps
    <2>3. Pending(r)' <=> Pending(r)
      BY <2>1 DEF Pending, Of
    <2>4. Waits(r)'
      BY <1>1, <1>4, <2>1, <2>3 DEF Keeps, Waits
    <2> QED BY <2>2, <2>4
  <1>5. CASE /\ ~err[r] /\ ~Pending(r) /\ phase' = [phase EXCEPT ![r] = "commit"]
             /\ Order(r, Held(r), "commit") /\ finished' = [finished EXCEPT ![r] = FALSE]
             /\ Goto(r, "committed") /\ UNCHANGED owner
    <2>1. phase'[r] = "commit" /\ pc'[r] = "committed" /\ finished'[r] = FALSE
      BY <1>0, <1>5 DEF Goto, TypeOK
    <2>2. AllAgreed(r, "test")
      BY <1>0, <1>1, <1>5, NonePending DEF OrderIn
    <2>3. \A s \in Asked(r) : told[r][s] = "test"
      <3>1. \A s \in Asked(r) : "test" \in Upto[told[r][s]]
        BY <2>2, AskedSessions DEF Keeps, Used, AllAgreed, Orders
      <3> QED BY <1>2, <3>1, AskedSessions DEF Upto
    <2>4. \A s \in Sessions : "commit" \notin Upto[told[r][s]]
      BY <1>2 DEF Upto
    <2>5. /\ Unsent(r)' /\ Involves(r)' /\ Asked(r)' = Asked(r) /\ Owed(r)' = Asked(r)
          /\ \A s \in Asked(r) : <<r, s, "commit">> \in queue'
      BY <1>0, <1>1, <1>5, <2>1, <2>4, Begins DEF Orders, OrderIn
    <2>6. Course(r)'
      BY <2>1, <2>3, <2>5 DEF Course
    <2>7. Answers(r)'
      BY <2>1, <2>5 DEF Answers, OrderIn
    <2>8. at[r] > Len(Names[r])
      BY <1>1, <1>5 DEF Keeps, Waits
    <2>9. AllAgreed(r, "test")'
      BY <2>2, <2>5 DEF AllAgreed
    <2>10. Waits(r)'
      BY <1>1, <1>5, <2>1, <2>8, <2>9 DEF Keeps, Waits
    <2> QED BY <2>5, <2>6, <2>7, <2>10
  <1> QED BY <1>3, <1>4, <1>5, Zenon DEF Tested

LEMMA CommittedKeeps ==
    ASSUME IInv, TypeOK', Quiet, NEW r \in Requests, Keeps(r), Committed(r),
           UNCHANGED <<told, wpc, task, agreed, answer>>
    PROVE  Unsent(r)' /\ Involves(r)' /\ Course(r)' /\ Answers(r)' /\ Waits(r)'
  <1>0. TypeOK /\ Phased /\ Handed /\ Locked
    BY DEF IInv
  <1>1. pc[r] = "committed" /\ phase[r] \in {"prepare", "commit"} /\ UNCHANGED <<at, err>>
    BY <1>0 DEF Committed, Phased
  <1>2. CASE /\ Pending(r) /\ Goto(r, "send") /\ UNCHANGED <<phase, finished, owner, queueVars>>
    <2>1. pc'[r] = "send" /\ UNCHANGED <<queue, sent>>
      BY <1>0, <1>2 DEF Goto, TypeOK, queueVars
    <2>2. Unsent(r)' /\ Involves(r)' /\ Course(r)' /\ Answers(r)'
      BY <1>0, <1>1, <1>2, <2>1, GoesOnKeeps
    <2>3. /\ Pending(r)' <=> Pending(r)
          /\ \A o : AllAgreed(r, o)' <=> AllAgreed(r, o)
      BY <1>1, <2>1 DEF Pending, Of, AllAgreed, Asked
    <2>4. Waits(r)'
      BY <1>1, <1>2, <2>1, <2>3 DEF Keeps, Waits
    <2> QED BY <2>2, <2>4
  <1>3. ASSUME ~Pending(r)
        PROVE  /\ phase[r] = "commit" /\ at[r] > Len(Names[r])
               /\ \A s \in Asked(r) : told[r][s] = "commit"
               /\ \A s \in Sessions : told[r][s] \in {"none", "commit"}
               /\ \A s \in Sessions : "undo" \notin Upto[told[r][s]] /\ "cleanup" \notin Upto[told[r][s]]
    <2>1. phase[r] = "commit" /\ at[r] > Len(Names[r])
      BY <1>1, <1>3 DEF Keeps, Waits
    <2>2. \A s \in Asked(r) : told[r][s] = "commit"
      BY <1>0, <1>3, <2>1, AllTold
    <2>3. \A s \in Sessions : told[r][s] \in {"none", "commit"}
      BY <2>2 DEF Keeps, Involves
    <2> QED BY <2>1, <2>2, <2>3 DEF Upto
  <1>4. CASE /\ ~Pending(r) /\ err[r] /\ phase' = [phase EXCEPT ![r] = "undo"]
             /\ Order(r, Held(r), "undo") /\ Release(r) /\ Goto(r, "undone")
    <2>1. phase'[r] = "undo" /\ pc'[r] = "undone"
      BY <1>0, <1>4 DEF Goto, TypeOK
    <2>2. Unsent(r)' /\ Involves(r)' /\ Asked(r)' = Asked(r) /\ Owed(r)' = Asked(r)
      BY <1>0, <1>1, <1>3, <1>4, <2>1, Begins, ReleaseOwner DEF Orders, OrderIn
    <2>3. Course(r)'
      BY <1>3, <1>4, <2>1, <2>2 DEF Course
    <2>4. Answers(r)'
      BY <2>1 DEF Answers
    <2>5. Waits(r)'
      BY <1>1, <1>3, <1>4, <2>1 DEF Keeps, Waits
    <2> QED BY <2>2, <2>3, <2>4, <2>5
  <1>5. CASE ~Pending(r) /\ ~err[r] /\ CleanUp(r)
    <2>1. /\ phase'[r] = "cleanup" /\ pc'[r] = "send"
          /\ Order(r, Held(r), "cleanup") /\ Release(r)
      BY <1>0, <1>5 DEF CleanUp, Goto, TypeOK
    <2>2. Unsent(r)' /\ Involves(r)' /\ Asked(r)' = Asked(r) /\ Owed(r)' = Asked(r)
      BY <1>0, <1>1, <1>3, <1>5, <2>1, Begins, ReleaseOwner DEF Orders, OrderIn
    <2>3. Course(r)'
      <3>1. \A s \in Sessions : s \notin Asked(r) => told[r][s] = "none"
        BY DEF Keeps, Involves
      <3> QED BY <1>1, <1>3, <1>5, <2>1, <2>2, <3>1 DEF Course
    <2>4. Answers(r)'
      BY <2>1 DEF Answers
    <2>5. AllAgreed(r, "commit")'
      BY <1>0, <1>1, <1>3, <1>5, <2>2, NonePending DEF OrderIn, AllAgreed
    <2>6. Waits(r)'
      BY <1>1, <1>3, <1>5, <2>1, <2>2, <2>5 DEF Keeps, Waits
    <2> QED BY <2>2, <2>3, <2>4, <2>6
  <1> QED BY <1>2, <1>4, <1>5, Zenon DEF Committed

LEMMA UndoneKeeps ==
    ASSUME TypeOK, TypeOK', Phased, Handed, NEW r \in Requests, Keeps(r), Undone(r),
           UNCHANGED <<told, wpc, task, agreed, answer>>
    PROVE  Unsent(r)' /\ Involves(r)' /\ Course(r)' /\ Answers(r)' /\ Waits(r)'
  <1>1. /\ pc[r] = "undone" /\ phase[r] = "undo" /\ finished'[r] = ~Pending(r) /\ Goto(r, "send")
        /\ UNCHANGED <<at, phase, err, owner, queue, sent>>
    BY DEF Undone, Phased, TypeOK, lockVars, queueVars
  <1>2. Unsent(r)' /\ Involves(r)' /\ Course(r)' /\ Answers(r)'
    BY <1>1, GoesOnKeeps
  <1>3. Pending(r)' <=> Pending(r)
    BY <1>1 DEF Pending, Of
  <1>4. pc'[r] = "send"
    BY <1>1 DEF Goto, TypeOK
  <1>5. Waits(r)'
    BY <1>1, <1>3, <1>4 DEF Keeps, Waits
  <1> QED BY <1>2, <1>5

LEMMA PhaseKeeps ==
    ASSUME IInv, TypeOK', Quiet, NEW r \in Requests, Keeps(r), PhaseStep(r)
    PROVE  Keeps(r)'
  <1>0. TypeOK /\ Phased /\ Handed
    BY DEF IInv
  <1>1. /\ UNCHANGED <<told, wire, agreed, tasks, wpc, task, answer>>
        /\ Used(r)' /\ Flight(r)' /\ Outcome(r)' /\ Taken(r)'
    BY <1>0, PhaseCommon
  <1>2. Unsent(r)' /\ Involves(r)' /\ Course(r)' /\ Answers(r)' /\ Waits(r)'
    <2>1. CASE Start(r)
      BY <1>0, <1>1, <2>1, StartKeeps
    <2>2. CASE Prepare(r)
      BY <1>0, <1>1, <2>2, PrepareKeeps
    <2>3. CASE Deny(r)
      BY <1>0, <1>1, <2>3, DenyKeeps
    <2>4. CASE Prepared(r)
      BY <1>0, <1>1, <2>4, PreparedKeeps
    <2>5. CASE Tested(r)
      BY <1>1, <2>5, TestedKeeps
    <2>6. CASE Committed(r)
      BY <1>1, <2>6, CommittedKeeps
    <2>7. CASE Undone(r)
      BY <1>0, <1>1, <2>7, UndoneKeeps
    <2> QED BY <2>1, <2>2, <2>3, <2>4, <2>5, <2>6, <2>7 DEF PhaseStep
  <1> QED BY <1>1, <1>2 DEF Keeps

\* What send_pending_ax does when no session is gone: everything of r that is
\* not sent is, and it is of the order of the phase.
LEMMA SendIs ==
    ASSUME IInv, Quiet, NEW r \in Requests, Keeps(r), Send(r)
    PROVE  LET o == OrderIn[phase[r]]
           IN  /\ o \in Orders
               /\ told' = [told EXCEPT ![r] =
                              [s \in Sessions |-> IF s \in Owed(r) THEN o ELSE @[s]]]
               /\ \A p \in PDUs : p \in Of(r) \ sent <=>
                      \E s \in Owed(r) : p = <<r, s, o>>
               /\ IF o = "cleanup"
                  THEN queue' = queue \ (Of(r) \ sent) /\ UNCHANGED <<sent, wire>>
                  ELSE /\ queue' = queue
                       /\ sent' = sent \union (Of(r) \ sent)
                       /\ wire' = wire \union (Of(r) \ sent)
               /\ \/ (finished[r] \/ ~Pending(r)) /\ pc'[r] = "answer"
                  \/ ~finished[r] /\ Pending(r) /\ pc'[r] = "idle"
               /\ pc[r] = "send"
               /\ UNCHANGED <<at, phase, err, finished, owner, tasks, agreed, answer>>
               /\ UNCHANGED <<wpc, task>> \/ wpc' = "free"
  <1> DEFINE unsent == Of(r) \ sent
             stuck == {p \in unsent : p[2] \notin open}
             done == {p \in unsent \ stuck : \A q \in stuck : <<q, p>> \notin ahead}
             gone == {p \in done : p[3] = "cleanup"}
             o == OrderIn[phase[r]]
  <1>0. TypeOK /\ Phased
    BY DEF IInv
  <1>1. /\ pc[r] = "send"
        /\ UNCHANGED <<at, phase, err, finished, owner, tasks, agreed, answer>>
        /\ queue' = queue \ gone /\ sent' = sent \union (done \ gone)
        /\ wire' = wire \union {p \in done \ gone : p[2] \in link}
        /\ told' = [told EXCEPT ![r] = [s \in Sessions |->
                      IF \E p \in done : p[2] = s
                      THEN (CHOOSE p \in done : p[2] = s)[3] ELSE @[s]]]
    BY DEF Send, lockVars
  <1>2. o \in Orders
    BY <1>0, <1>1, OrderInPhase
  <1>3. ASSUME NEW p \in unsent
        PROVE  p \in PDUs /\ p[2] \in Owed(r) /\ p[3] = o /\ p = <<r, p[2], o>>
    <2>1. p \in PDUs /\ p \in queue \ sent /\ p[1] = r
      BY <1>0 DEF Of, TypeOK
    <2>2. p = <<r, p[2], p[3]>> /\ p[2] \in Sessions /\ p[3] \in Orders
      BY <2>1, PDUIs
    <2>3. p[3] = o
      BY <2>1, <2>2 DEF Keeps, Unsent
    <2> QED BY <2>1, <2>2, <2>3 DEF Owed
  <1>4. \A s \in Owed(r) : <<r, s, o>> \in unsent
    BY DEF Owed, Of
  <1>5. \A p \in PDUs : p \in unsent <=> \E s \in Owed(r) : p = <<r, s, o>>
    BY <1>3, <1>4
  <1>6. stuck = {}
    BY <1>3 DEF Quiet, Owed
  <1>7. done = unsent
    BY <1>6
  <1>8. gone = IF o = "cleanup" THEN unsent ELSE {}
    BY <1>3, <1>7
  <1>9. {p \in done \ gone : p[2] \in link} = done \ gone
    BY <1>3, <1>7 DEF Quiet, Owed
  <1>10. \A s \in Sessions : (IF \E p \in done : p[2] = s
                              THEN (CHOOSE p \in done : p[2] = s)[3] ELSE told[r][s])
                             = IF s \in Owed(r) THEN o ELSE told[r][s]
    <2> SUFFICES ASSUME NEW s \in Sessions
                 PROVE (IF \E p \in done : p[2] = s
                        THEN (CHOOSE p \in done : p[2] = s)[3] ELSE told[r][s])
                       = IF s \in Owed(r) THEN o ELSE told[r][s]
      OBVIOUS
    <2>1. (\E p \in done : p[2] = s) <=> s \in Owed(r)
      BY <1>3, <1>4, <1>7
    <2>2. ASSUME \E p \in done : p[2] = s PROVE (CHOOSE p \in done : p[2] = s)[3] = o
      <3> DEFINE c == CHOOSE p \in done : p[2] = s
      <3>1. c \in done
        BY <2>2
      <3> HIDE DEF c
      <3>2. c[3] = o
        BY <1>3, <1>7, <3>1
      <3> QED BY <3>2 DEF c
    <2> QED BY <2>1, <2>2
  <1>11. told' = [told EXCEPT ![r] = [s \in Sessions |-> IF s \in Owed(r) THEN o ELSE told[r][s]]]
    <2> DEFINE f == [s \in Sessions |-> IF \E p \in done : p[2] = s
                                        THEN (CHOOSE p \in done : p[2] = s)[3] ELSE told[r][s]]
               g == [s \in Sessions |-> IF s \in Owed(r) THEN o ELSE told[r][s]]
    <2>1. told' = [told EXCEPT ![r] = f]
      BY <1>1
    <2> HIDE DEF done, o
    <2>2. f = g
      BY <1>10
    <2> QED BY <2>1, <2>2
  <1>12. \/ (finished[r] \/ ~Pending(r)) /\ Goto(r, "answer")
         \/ ~finished[r] /\ Pending(r) /\ Goto(r, "idle")
    BY <1>6, Zenon DEF Send
  <1>13. \/ (finished[r] \/ ~Pending(r)) /\ pc'[r] = "answer"
         \/ ~finished[r] /\ Pending(r) /\ pc'[r] = "idle"
    BY <1>0, <1>12 DEF Goto, TypeOK
  <1>14. UNCHANGED <<wpc, task>> \/ wpc' = "free"
    BY DEF Send, Leave
  <1>15. IF o = "cleanup"
         THEN queue' = queue \ (Of(r) \ sent) /\ UNCHANGED <<sent, wire>>
         ELSE /\ queue' = queue
              /\ sent' = sent \union (Of(r) \ sent)
              /\ wire' = wire \union (Of(r) \ sent)
    BY <1>1, <1>7, <1>8, <1>9
  <1> QED BY <1>1, <1>2, <1>5, <1>11, <1>13, <1>14, <1>15

\* What a session is told it was not told before.
LEMMA Advances ==
    ASSUME Phased, TypeOK, NEW r \in Requests, Keeps(r), pc[r] = "send", NEW s \in Owed(r)
    PROVE  LET o == OrderIn[phase[r]]
           IN  o \notin Upto[told[r][s]] /\ Upto[told[r][s]] \subseteq Upto[o]
               /\ (o # "cleanup" => o \in Upto[o])
  <1>1. s \in Sessions /\ s \in Asked(r)
    <2>1. s \in Sessions /\ <<r, s, OrderIn[phase[r]]>> \in queue /\ OrderIn[phase[r]] \in Orders
      BY OrderInPhase DEF Owed
    <2> QED BY <2>1 DEF Keeps, Involves
  <1>2. phase[r] \in {"prepare", "commit", "undo", "cleanup"}
    BY DEF Phased, TypeOK
  <1>3. CASE phase[r] = "prepare"
    BY <1>1, <1>3 DEF Keeps, Course, OrderIn, Upto
  <1>4. CASE phase[r] = "commit"
    BY <1>1, <1>4 DEF Keeps, Course, OrderIn, Upto
  <1>5. CASE phase[r] = "undo"
    BY <1>1, <1>5 DEF Keeps, Course, OrderIn, Upto
  <1>6. CASE phase[r] = "cleanup"
    <2>1. told[r][s] \in {"none", "test", "commit"}
      BY <1>1, <1>6 DEF Keeps, Course
    <2> QED BY <1>6, <2>1 DEF OrderIn, Upto
  <1> QED BY <1>2, <1>3, <1>4, <1>5, <1>6

LEMMA SendKeeps ==
    ASSUME IInv, TypeOK', Quiet, NEW r \in Requests, Keeps(r), Send(r)
    PROVE  Keeps(r)'
  <1> DEFINE o == OrderIn[phase[r]]
  <1>0. TypeOK /\ Phased /\ Handed
    BY DEF IInv
  <1>1. /\ o \in Orders
        /\ told' = [told EXCEPT ![r] = [s \in Sessions |-> IF s \in Owed(r) THEN o ELSE @[s]]]
        /\ \A p \in PDUs : p \in Of(r) \ sent <=> \E s \in Owed(r) : p = <<r, s, o>>
        /\ IF o = "cleanup"
           THEN queue' = queue \ (Of(r) \ sent) /\ UNCHANGED <<sent, wire>>
           ELSE /\ queue' = queue
                /\ sent' = sent \union (Of(r) \ sent)
                /\ wire' = wire \union (Of(r) \ sent)
        /\ \/ (finished[r] \/ ~Pending(r)) /\ pc'[r] = "answer"
           \/ ~finished[r] /\ Pending(r) /\ pc'[r] = "idle"
        /\ pc[r] = "send"
        /\ UNCHANGED <<at, phase, err, finished, owner, tasks, agreed, answer>>
        /\ UNCHANGED <<wpc, task>> \/ wpc' = "free"
    BY SendIs
  <1> HIDE DEF o
  <1>2. \A s \in Sessions : told'[r][s] = IF s \in Owed(r) THEN o ELSE told[r][s]
    BY <1>0, <1>1 DEF TypeOK
  <1>3. \A s \in Sessions, q \in Orders :
            <<r, s, q>> \in Of(r) \ sent <=> s \in Owed(r) /\ q = o
    BY <1>1, PDUOf
  <1>4. \A s \in Sessions, q \in Orders : <<r, s, q>> \notin queue' \ sent'
    <2> SUFFICES ASSUME NEW s \in Sessions, NEW q \in Orders, <<r, s, q>> \in queue' \ sent'
                 PROVE  FALSE
      OBVIOUS
    <2>1. <<r, s, q>> \in queue \ sent
      BY <1>1
    <2>2. <<r, s, q>> \in Of(r) \ sent
      BY <2>1 DEF Of
    <2> QED BY <1>1, <2>1, <2>2
  <1>5. Unsent(r)' /\ Owed(r)' = {} /\ Asked(r)' = Asked(r)
    BY <1>1, <1>4 DEF Unsent, Owed, Asked, o
  <1>6. queue' \subseteq queue /\ sent \subseteq sent'
    BY <1>1
  <1>7. \A s \in Owed(r) : s \in Asked(r)
    BY <1>1 DEF Owed, o, Keeps, Involves
  <1>8. Involves(r)'
    BY <1>1, <1>2, <1>5, <1>6, <1>7 DEF Keeps, Involves
  <1>9. Course(r)'
    <2>1. pc'[r] \notin {"new", "prepare"} /\ phase'[r] = phase[r]
      BY <1>1
    <2>2. CASE phase[r] = "prepare"
      BY <1>1, <1>2, <1>5, <2>1, <2>2 DEF Keeps, Course, OrderIn, o
    <2>3. CASE phase[r] = "commit"
      BY <1>1, <1>2, <1>5, <2>1, <2>3, AskedSessions DEF Keeps, Course, OrderIn, o
    <2>4. CASE phase[r] = "undo"
      BY <1>1, <1>2, <1>5, <2>1, <2>4, AskedSessions DEF Keeps, Course, OrderIn, o
    <2>5. CASE phase[r] = "cleanup"
      BY <1>1, <1>2, <1>5, <2>1, <2>5 DEF Keeps, Course, OrderIn, o
    <2>6. phase[r] \in {"prepare", "commit", "undo", "cleanup"}
      BY <1>0, <1>1 DEF Phased, TypeOK
    <2> QED BY <2>2, <2>3, <2>4, <2>5, <2>6
  <1>10. ASSUME NEW s \in Sessions
         PROVE  /\ Upto[told[r][s]] \subseteq Upto[told'[r][s]]
                /\ s \in Owed(r) => o \notin Upto[told[r][s]]
                /\ s \in Owed(r) /\ o # "cleanup" => o \in Upto[told'[r][s]]
    <2>1. CASE s \in Owed(r)
      BY <1>0, <1>1, <1>2, <2>1, Advances DEF o
    <2>2. CASE s \notin Owed(r)
      BY <1>2, <2>2
    <2> QED BY <2>1, <2>2
  <1>11. ASSUME NEW s \in Sessions, NEW q \in Orders, <<r, s, q>> \in sent' \union wire'
         PROVE  <<r, s, q>> \in sent \union wire \/ (s \in Owed(r) /\ q = o /\ o # "cleanup")
    BY <1>1, <1>3, <1>11
  <1>12. Used(r)'
    <2> SUFFICES ASSUME NEW s \in Sessions, NEW q \in Orders,
                        \/ <<r, s, q>> \in sent' \union wire' \union agreed
                        \/ \E x \in Outcomes : <<<<r, s, q>>, x>> \in tasks
                 PROVE  q \in Upto[told'[r][s]]
      BY <1>1 DEF Used
    <2>1. CASE s \in Owed(r) /\ q = o /\ o # "cleanup"
      BY <1>10, <2>1
    <2>2. CASE <<r, s, q>> \in sent \union wire \union agreed
                   \/ \E x \in Outcomes : <<<<r, s, q>>, x>> \in tasks
      <3>1. q \in Upto[told[r][s]]
        BY <2>2 DEF Keeps, Used
      <3> QED BY <1>10, <3>1
    <2> QED BY <1>11, <2>1, <2>2
  <1>13. Flight(r)'
    <2> SUFFICES ASSUME NEW s \in Sessions, NEW q \in Orders, <<r, s, q>> \in wire'
                 PROVE  <<r, s, q>> \in sent' /\ \A x \in Outcomes : <<<<r, s, q>>, x>> \notin tasks
      BY <1>1 DEF Flight
    <2>1. CASE <<r, s, q>> \in wire
      BY <1>6, <2>1 DEF Keeps, Flight
    <2>2. CASE <<r, s, q>> \notin wire
      <3>1. s \in Owed(r) /\ q = o /\ <<r, s, q>> \in sent'
        BY <1>1, <1>3, <2>2
      <3>2. q \notin Upto[told[r][s]]
        BY <1>10, <3>1
      <3> QED BY <3>1, <3>2 DEF Keeps, Used
    <2> QED BY <2>1, <2>2
  <1>14. Outcome(r)' /\ Taken(r)'
    BY <1>1, <1>6 DEF Keeps, Outcome, Taken
  <1>15. Answers(r)'
    <2>1. phase[r] \in {"prepare", "commit"} => o # "cleanup"
      BY DEF o, OrderIn
    <2>2. \A s, q : ~Refused(<<r, s, q>>)
      BY <1>0, <1>1, NotTaken DEF Away
    <2> QED BY <1>1, <1>5, <2>1, <2>2 DEF Keeps, Answers
  <1>16. Waits(r)'
    <2>1. \A q : AllAgreed(r, q)' <=> AllAgreed(r, q)
      BY <1>1, <1>5 DEF AllAgreed
    <2>2. phase[r] # "cleanup" => (Pending(r)' <=> Pending(r))
      <3>1. phase[r] # "cleanup" => o # "cleanup"
        BY <1>0 DEF o, OrderIn, TypeOK
      <3> QED BY <1>1, <3>1 DEF Pending, Of
    <2>3. \A s \in Asked(r) : phase[r] = "cleanup" /\ s \in Owed(r) => told'[r][s] = "cleanup"
      BY <1>2, AskedSessions DEF o, OrderIn
    <2>4. \A s \in Asked(r) : s \notin Owed(r) => told'[r][s] = told[r][s]
      BY <1>2, AskedSessions
    <2>5. pc'[r] = "answer" => /\ phase[r] \in {"undo", "cleanup"}
                               /\ phase[r] = "undo" => ~Pending(r)
      <3>1. phase[r] \in {"prepare", "commit"} => Pending(r) /\ ~finished[r]
        BY <1>1 DEF Keeps, Waits
      <3>2. phase[r] = "undo" /\ finished[r] => ~Pending(r)
        BY <1>1 DEF Keeps, Waits
      <3>3. phase[r] # "default"
        BY <1>0, <1>1 DEF Phased
      <3> QED BY <1>0, <1>1, <3>1, <3>2, <3>3 DEF TypeOK
    <2> QED BY <1>1, <1>5, <2>1, <2>2, <2>3, <2>4, <2>5 DEF Keeps, Waits
  <1> QED BY <1>5, <1>8, <1>9, <1>12, <1>13, <1>14, <1>15, <1>16 DEF Keeps

LEMMA AnswerKeeps ==
    ASSUME IInv, TypeOK', NEW r \in Requests, Keeps(r), Answer(r)
    PROVE  Keeps(r)'
  <1>0. TypeOK
    BY DEF IInv
  <1>1. /\ pc[r] = "answer" /\ pc'[r] = "gone" /\ Release(r)
        /\ UNCHANGED <<at, phase, err, finished, queue, sent, wire, agreed, told, tasks>>
        /\ UNCHANGED <<wpc, task>> \/ wpc' = "free"
    BY <1>0 DEF Answer, Goto, TypeOK, queueVars, netVars, Leave
  <1>2. Asked(r)' = Asked(r) /\ Owed(r)' = Owed(r)
    BY <1>1 DEF Asked, Owed
  <1>3. \A s \in Sessions, o \in Orders : <<r, s, o>> \notin queue \ sent
    BY <1>0, <1>1, AllSent DEF Keeps
  <1>4. Unsent(r)'
    BY <1>1, <1>3 DEF Unsent
  <1>5. Involves(r)'
    BY <1>1, <1>2, ReleaseOwner DEF Keeps, Involves
  <1>6. Course(r)' /\ Used(r)' /\ Flight(r)' /\ Outcome(r)' /\ Taken(r)' /\ Answers(r)'
    BY <1>1, <1>2 DEF Keeps, Course, Used, Flight, Outcome, Taken, Answers
  <1>7. Pending(r)' <=> Pending(r)
    BY <1>1 DEF Pending, Of
  <1>8. \A o : AllAgreed(r, o)' <=> AllAgreed(r, o)
    BY <1>1, <1>2 DEF AllAgreed
  <1>9. Waits(r)'
    BY <1>1, <1>2, <1>7, <1>8 DEF Keeps, Waits
  <1> QED BY <1>4, <1>5, <1>6, <1>9 DEF Keeps

-----------------------------------------------------------------------------
(* The worker of axSetThread, and the answers of the subagents *)

LEMMA TakeKeeps ==
    ASSUME IInv, TypeOK', NEW t \in tasks, TakeTask(t), NEW r \in Requests, t[1][1] = r, Keeps(r)
    PROVE  Keeps(r)'
  <1>0. TypeOK /\ Phased /\ Handed
    BY DEF IInv
  <1>1. /\ wpc = "free" /\ tasks' = tasks \ {t}
        /\ UNCHANGED <<pc, at, phase, err, finished, owner, wire, agreed, told, answer>>
    BY DEF TakeTask, requestVars, lockVars, netVars
  <1>2. pc[r] \in Away
    BY <1>0, <1>1, NotTaken
  <1>3. \A s \in Sessions, o \in Orders : <<r, s, o>> \notin queue \ sent
    BY <1>0, <1>2, AllSent DEF Keeps, Away
  <1>4. queue' \subseteq queue /\ sent' \subseteq sent /\ queue' \ sent' \subseteq queue \ sent
        /\ \A p : p \in queue \ queue' \/ p \in sent \ sent' => p = t[1] /\ t[1] \in queue
                      /\ wpc' = "lock" /\ task' = t
    BY DEF TakeTask, Remove, queueVars
  <1>5. t \in PDUs \X Outcomes /\ t = <<t[1], t[2]>>
    BY <1>0 DEF TypeOK
  <1>6. PICK s1 \in Sessions, o1 \in Orders : t[1] = <<r, s1, o1>>
    BY <1>5, PDUIs
  <1>7. t[1] \notin wire
    BY <1>5, <1>6 DEF Keeps, Flight
  <1>8. \/ t[2] = "ok" /\ t[1] \in agreed
        \/ t[2] = "error" /\ t[1] \in Refusing
    BY <1>5, <1>6 DEF Keeps, Outcome
  <1>9. Asked(r)' = Asked(r) /\ Owed(r)' = Owed(r)
    <2>1. Owed(r) = {} /\ Owed(r)' = {}
      <3>1. \A s \in Sessions : \A o : <<r, s, o>> \in queue \ sent => o \in Orders
        BY <1>0, PDUIs DEF TypeOK, PDUs
      <3> QED BY <1>3, <1>4, <3>1 DEF Owed
    <2> QED BY <1>1, <2>1 DEF Asked
  <1>10. Unsent(r)' /\ Involves(r)' /\ Course(r)'
    BY <1>1, <1>3, <1>4, <1>9 DEF Keeps, Unsent, Involves, Course
  <1>11. Used(r)'
    BY <1>1, <1>4 DEF Keeps, Used
  <1>12. Flight(r)'
    <2>1. \A s \in Sessions, o \in Orders : <<r, s, o>> \in wire => <<r, s, o>> \in sent'
      BY <1>4, <1>7 DEF Keeps, Flight
    <2> QED BY <1>1, <2>1 DEF Keeps, Flight
  <1>13. wpc' = "lock" => task' = t /\ t[1] \notin queue'
    BY <1>1 DEF TakeTask, Remove
  <1>14. Outcome(r)'
    BY <1>1, <1>13 DEF Keeps, Outcome
  <1>15. Taken(r)'
    BY <1>13 DEF Taken
  <1>16. Answers(r)'
    <2> SUFFICES ASSUME phase[r] \in {"prepare", "commit"}, ~err[r], pc[r] # "gone",
                        NEW s \in Asked(r)
                 PROVE  (<<r, s, OrderIn[phase[r]]>> \in queue \union agreed
                            \/ Refused(<<r, s, OrderIn[phase[r]]>>))'
      BY <1>1, <1>9 DEF Answers
    <2> DEFINE p == <<r, s, OrderIn[phase[r]]>>
    <2>1. p \in queue \union agreed
      BY <1>1 DEF Keeps, Answers, Refused
    <2>2. CASE p \in queue'
      BY <1>1, <2>2
    <2>3. CASE p \in agreed
      BY <1>1, <2>3
    <2>4. CASE p \in queue \ queue'
      <3>1. p = t[1] /\ wpc' = "lock" /\ task' = t
        BY <1>4, <2>4
      <3> QED BY <1>1, <1>5, <1>8, <3>1 DEF Refused
    <2> QED BY <2>1, <2>2, <2>3, <2>4
  <1>17. Waits(r)'
    <2>1. Pending(r)' => Pending(r)
      BY <1>4 DEF Pending, Of
    <2>2. \A o : AllAgreed(r, o)' <=> AllAgreed(r, o)
      BY <1>1, <1>9 DEF AllAgreed
    <2> QED BY <1>1, <1>2, <1>9, <2>1, <2>2 DEF Keeps, Waits, Away
  <1> QED BY <1>10, <1>11, <1>12, <1>14, <1>15, <1>16, <1>17 DEF Keeps

LEMMA ProcessKeeps ==
    ASSUME NoFaults, IInv, TypeOK', NEW r \in Requests, Process, task[1][1] = r, Keeps(r)
    PROVE  Keeps(r)'
  <1>0. TypeOK /\ Phased /\ Queued /\ InStep
    BY DEF IInv
  <1>1. /\ wpc = "lock" /\ wpc' = "run" /\ pc[r] = "idle"
        /\ UNCHANGED <<at, phase, owner, queue, sent, tasks, task, wire, agreed, told, answer>>
        /\ phase[r] \in {"prepare", "commit", "undo"} /\ pc'[r] = Resume[phase[r]]
    BY <1>0 DEF Process, Phased, Goto, TypeOK, lockVars, queueVars, netVars
  <1>2. IF task[2] \in {"error", "late"} THEN err'[r] = TRUE /\ finished'[r] = TRUE
                                         ELSE err'[r] = err[r] /\ finished'[r] = finished[r]
    <2>1. err \in [Requests -> BOOLEAN] /\ finished \in [Requests -> BOOLEAN]
      BY <1>0 DEF TypeOK
    <2>2. CASE task[2] \in {"error", "late"}
      <3>1. err' = [err EXCEPT ![r] = TRUE] /\ finished' = [finished EXCEPT ![r] = TRUE]
        BY <2>2 DEF Process, Fail
      <3> QED BY <2>1, <2>2, <3>1
    <2>3. CASE task[2] \notin {"error", "late"}
      BY <2>3 DEF Process
    <2> QED BY <2>2, <2>3
  <1>3. task \in PDUs \X Outcomes /\ task = <<task[1], task[2]>> /\ task[1] \in PDUs
    BY <1>0, <1>1 DEF TypeOK
  <1>4. PICK s1 \in Sessions, o1 \in Orders : task[1] = <<r, s1, o1>>
    BY <1>3, PDUIs
  <1>5. \/ task[2] = "ok" /\ task[1] \in agreed
        \/ task[2] = "error" /\ task[1] \in Refusing
    BY <1>1, <1>3, <1>4 DEF Keeps, Outcome
  <1>6. Asked(r)' = Asked(r) /\ Owed(r)' = Owed(r)
    BY <1>1 DEF Asked, Owed
  <1>7. \A s \in Sessions, o \in Orders : <<r, s, o>> \notin queue \ sent
    BY <1>0, <1>1, AllSent DEF Keeps
  <1>8. Unsent(r)' /\ Involves(r)'
    BY <1>1, <1>6, <1>7 DEF Keeps, Unsent, Involves
  <1>9. pc'[r] \notin {"new", "prepare"}
    BY <1>1 DEF Resume
  <1>10. Course(r)'
    BY <1>1, <1>6, <1>9 DEF Keeps, Course
  <1>11. Used(r)' /\ Flight(r)' /\ Outcome(r)' /\ Taken(r)'
    BY <1>1 DEF Keeps, Used, Flight, Outcome, Taken
  <1>12. Answers(r)'
    <2>1. ~err'[r] => ~err[r] /\ \A p : ~Refused(p)
      BY <1>2, <1>3 DEF Refused
    <2> QED BY <1>1, <1>6, <2>1 DEF Keeps, Answers
  <1>13. phase[r] = "commit" /\ err'[r] => ~Pending(r)
    <2> SUFFICES ASSUME phase[r] = "commit", err'[r] PROVE ~Pending(r)
      OBVIOUS
    <2>1. ~err[r]
      BY <1>1 DEF Keeps, Waits
    <2>2. task[1] \in Refusing /\ task[1][3] = "commit"
      <3>1. task[1] \in Refusing
        BY <1>2, <1>5, <2>1
      <3>2. task[1][3] = [prepare |-> "test", commit |-> "commit", undo |-> "undo"][phase[r]]
        BY <1>0, <1>1 DEF InStep
      <3> QED BY <3>1, <3>2
    <2>3. \A s \in Asked(r) : s = s1
      <3>1. \A i \in DOMAIN Names[r] : SessionOf[Names[r][i]] = s1
        BY <1>4, <2>2 DEF NoFaults
      <3> QED BY <3>1 DEF Asked
    <2>4. ASSUME NEW s \in Sessions, NEW o \in Orders, <<r, s, o>> \in queue PROVE FALSE
      <3>1. s = s1
        BY <2>3, <2>4 DEF Keeps, Involves
      <3>2. o = "commit"
        BY <1>0, <2>4 DEF Queued, OrderIn
      <3>3. task[1] \notin queue
        BY <1>1 DEF Keeps, Taken
      <3> QED BY <1>4, <2>2, <2>4, <3>1, <3>2, <3>3
    <2> QED BY <1>0, <2>4, PendingOf
  <1>14. Waits(r)'
    <2>1. Pending(r)' <=> Pending(r)
      BY <1>1 DEF Pending, Of
    <2>2. \A o : AllAgreed(r, o)' <=> AllAgreed(r, o)
      BY <1>1, <1>6 DEF AllAgreed
    <2>3. phase[r] = "prepare" => pc'[r] = "tested"
      BY <1>1 DEF Resume
    <2>4. phase[r] = "commit" => pc'[r] = "committed"
      BY <1>1 DEF Resume
    <2>5. phase[r] = "undo" => pc'[r] = "undone"
      BY <1>1 DEF Resume
    <2>6. (err[r] => err'[r]) /\ (finished'[r] => finished[r] \/ err'[r])
      BY <1>2
    <2> QED BY <1>1, <1>6, <1>9, <1>13, <2>1, <2>2, <2>3, <2>4, <2>5, <2>6 DEF Keeps, Waits
  <1> QED BY <1>8, <1>10, <1>11, <1>12, <1>14 DEF Keeps

LEMMA DropKeeps ==
    ASSUME IInv, TypeOK', NEW r \in Requests, Drop, task[1][1] = r, Keeps(r)
    PROVE  Keeps(r)'
  <1>1. /\ wpc' = "free" /\ pc[r] = "gone"
        /\ UNCHANGED <<pc, at, phase, err, finished, owner, queue, sent, tasks, wire, agreed, told, answer>>
    BY DEF Drop, requestVars, lockVars, queueVars, netVars
  <1>2. Asked(r)' = Asked(r) /\ Owed(r)' = Owed(r) /\ (Pending(r)' <=> Pending(r))
    BY <1>1 DEF Asked, Owed, Pending, Of
  <1>3. \A o : AllAgreed(r, o)' <=> AllAgreed(r, o)
    BY <1>1, <1>2 DEF AllAgreed
  <1>4. Unsent(r)' /\ Involves(r)' /\ Course(r)' /\ Used(r)' /\ Flight(r)' /\ Outcome(r)' /\ Taken(r)'
    BY <1>1, <1>2 DEF Keeps, Unsent, Involves, Course, Used, Flight, Outcome, Taken
  <1>5. Answers(r)' /\ Waits(r)'
    BY <1>1, <1>2, <1>3 DEF Keeps, Answers, Waits
  <1> QED BY <1>4, <1>5 DEF Keeps

LEMMA ReceiveKeeps ==
    ASSUME IInv, TypeOK', NEW p \in PDUs, Receive(p), NEW r \in Requests, p[1] = r, Keeps(r)
    PROVE  Keeps(r)'
  <1>0. TypeOK
    BY DEF IInv
  <1>1. /\ p \in wire /\ wire' = wire \ {p}
        /\ UNCHANGED <<pc, at, phase, err, finished, owner, wpc, task, told, answer>>
    BY DEF Receive, requestVars, lockVars
  <1>2. PICK x1 \in {"ok", "error"} : /\ DispatchResponse(p, x1)
                                      /\ x1 = "ok" => agreed' = agreed \union {p}
                                      /\ x1 = "error" => agreed' = agreed /\ p \in Refusing
    BY DEF Receive
  <1>3. PICK s1 \in Sessions, o1 \in Orders : p = <<r, s1, o1>>
    BY PDUIs
  <1>4. \/ /\ pc[r] # "gone" /\ tasks' = tasks \union {<<p, x1>>}
           /\ UNCHANGED <<queue, sent>>
        \/ /\ pc[r] = "gone" /\ UNCHANGED tasks
           /\ queue' = queue \ {p} /\ sent' = sent \ {p}
    BY <1>2 DEF DispatchResponse, queueVars, Remove
  <1>5. Asked(r)' = Asked(r)
    BY <1>1 DEF Asked
  <1>6. Owed(r)' = Owed(r)
    <2>1. CASE UNCHANGED <<queue, sent>>
      BY <1>1, <2>1 DEF Owed
    <2>2. CASE pc[r] = "gone" /\ queue' = queue \ {p} /\ sent' = sent \ {p}
      <3>1. \A s \in Sessions, o \in Orders : <<r, s, o>> \notin queue \ sent
        BY <1>0, <2>2, AllSent DEF Keeps
      <3>2. \A s \in Sessions : \A o : <<r, s, o>> \in queue \ sent => o \in Orders
        BY <1>0 DEF TypeOK, PDUs
      <3> QED BY <1>1, <2>2, <3>1, <3>2 DEF Owed
    <2> QED BY <1>4, <2>1, <2>2
  <1>7. agreed \subseteq agreed' /\ queue' \subseteq queue /\ queue' \ sent' \subseteq queue \ sent
        /\ sent' \subseteq sent
    BY <1>2, <1>4
  <1>8. Unsent(r)' /\ Involves(r)' /\ Course(r)'
    BY <1>1, <1>5, <1>6, <1>7 DEF Keeps, Unsent, Involves, Course
  <1>9. Used(r)'
    <2>1. o1 \in Upto[told[r][s1]]
      BY <1>1, <1>3 DEF Keeps, Used
    <2>2. \A q : q \in sent' \union wire' \union agreed' => q \in sent \union wire \union agreed
      BY <1>1, <1>2, <1>7
    <2>3. ASSUME NEW s \in Sessions, NEW o \in Orders, NEW x \in Outcomes, <<<<r, s, o>>, x>> \in tasks'
          PROVE  <<<<r, s, o>>, x>> \in tasks \/ (s = s1 /\ o = o1)
      BY <1>3, <1>4, <2>3
    <2> QED BY <1>1, <2>1, <2>2, <2>3 DEF Keeps, Used
  <1>10. Flight(r)'
    <2> SUFFICES ASSUME NEW s \in Sessions, NEW o \in Orders, <<r, s, o>> \in wire'
                 PROVE  <<r, s, o>> \in sent' /\ \A x \in Outcomes : <<<<r, s, o>>, x>> \notin tasks'
      BY DEF Flight
    <2>1. <<r, s, o>> \in wire /\ <<r, s, o>> # p
      BY <1>1
    <2>2. <<r, s, o>> \in sent /\ \A x \in Outcomes : <<<<r, s, o>>, x>> \notin tasks
      BY <2>1 DEF Keeps, Flight
    <2> QED BY <1>4, <2>1, <2>2
  <1>11. Outcome(r)'
    <2> SUFFICES ASSUME NEW s \in Sessions, NEW o \in Orders, NEW x \in Outcomes,
                        <<<<r, s, o>>, x>> \in tasks' \/ (wpc = "lock" /\ task = <<<<r, s, o>>, x>>)
                 PROVE  \/ x = "ok" /\ <<r, s, o>> \in agreed'
                        \/ x = "error" /\ <<r, s, o>> \in Refusing
      BY <1>1 DEF Outcome
    <2>1. CASE <<<<r, s, o>>, x>> \in tasks \/ (wpc = "lock" /\ task = <<<<r, s, o>>, x>>)
      BY <1>7, <2>1 DEF Keeps, Outcome
    <2>2. CASE <<r, s, o>> = p /\ x = x1
      BY <1>2, <2>2
    <2> QED BY <1>4, <2>1, <2>2
  <1>12. Taken(r)'
    BY <1>1, <1>7 DEF Keeps, Taken
  <1>13. Answers(r)'
    BY <1>1, <1>4, <1>5, <1>7 DEF Keeps, Answers, Refused
  <1>14. Waits(r)'
    <2>1. Pending(r)' => Pending(r)
      BY <1>7 DEF Pending, Of
    <2>2. pc[r] # "gone" => (Pending(r)' <=> Pending(r))
      BY <1>4 DEF Pending, Of
    <2>3. \A o : AllAgreed(r, o) => AllAgreed(r, o)'
      BY <1>5, <1>7 DEF AllAgreed
    <2> QED BY <1>1, <1>5, <1>6, <2>1, <2>2, <2>3 DEF Keeps, Waits
  <1> QED BY <1>8, <1>9, <1>10, <1>11, <1>12, <1>13, <1>14 DEF Keeps

-----------------------------------------------------------------------------
(* The refinement *)

Agreeing == Quiet /\ \A r \in Requests : Keeps(r)

LEMMA AgreeingInit == Init => Agreeing
  <1> SUFFICES ASSUME Init PROVE Agreeing
    OBVIOUS
  <1>1. Quiet
    BY DEF Init, Quiet
  <1>2. ASSUME NEW r \in Requests PROVE Keeps(r)
    <2>1. /\ pc[r] = "new" /\ at[r] = 1 /\ phase[r] = "default" /\ err[r] = FALSE
          /\ finished[r] = FALSE /\ told[r] = [s \in Sessions |-> "none"] /\ answer[r] = "none"
          /\ queue = {} /\ sent = {} /\ wire = {} /\ agreed = {} /\ tasks = {} /\ wpc = "free"
          /\ \A n \in Nodes : owner[n] = NoOne
      BY DEF Init
    <2>2. Unsent(r) /\ Used(r) /\ Flight(r) /\ Outcome(r) /\ Taken(r)
      BY <2>1 DEF Unsent, Used, Flight, Outcome, Taken
    <2>3. Involves(r)
      BY <2>1, AgentXSetsAssumption DEF Involves
    <2>4. Course(r) /\ Answers(r) /\ Waits(r)
      BY <2>1 DEF Course, Answers, Waits
    <2> QED BY <2>2, <2>3, <2>4 DEF Keeps
  <1> QED BY <1>1, <1>2 DEF Agreeing

LEMMA AgreeingStep ==
    ASSUME NoFaults, IInv, TypeOK', Agreeing, [Next]_vars PROVE Agreeing'
  <1>0. TypeOK /\ Quiet
    BY DEF IInv, Agreeing
  <1>1. Quiet'
    BY <1>0, QuietStep
  <1>2. ASSUME NEW q \in Requests PROVE Keeps(q)'
    <2>0. Keeps(q)
      BY DEF Agreeing
    <2>1. CASE UNCHANGED vars
      <3>1. Spares(q)
        BY <2>1 DEF vars, requestVars, lockVars, queueVars, workVars, netVars, Spares
      <3> QED BY <1>0, <2>0, <3>1, SparedKeeps
    <2>2. ASSUME NEW r \in Requests, RequestStep(r) PROVE Keeps(q)'
      <3>1. CASE r = q
        BY <1>0, <2>0, <2>2, <3>1, PhaseKeeps, SendKeeps, AnswerKeeps DEF RequestStep
      <3>2. CASE r # q
        BY <1>0, <2>0, <2>2, <3>2, OthersSpared, SparedKeeps
      <3> QED BY <3>1, <3>2
    <2>3. ASSUME NEW t \in tasks, TakeTask(t) PROVE Keeps(q)'
      <3>1. CASE t[1][1] = q
        BY <2>0, <2>3, <3>1, TakeKeeps
      <3>2. CASE t[1][1] # q
        BY <1>0, <2>0, <2>3, <3>2, WorkerSpares, SparedKeeps
      <3> QED BY <3>1, <3>2
    <2>4. CASE Process \/ Drop
      <3>1. CASE task[1][1] = q
        BY <2>0, <2>4, <3>1, ProcessKeeps, DropKeeps
      <3>2. CASE task[1][1] # q
        BY <1>0, <2>0, <2>4, <3>2, WorkerSpares, SparedKeeps
      <3> QED BY <3>1, <3>2
    <2>5. ASSUME NEW p \in PDUs, Receive(p) PROVE Keeps(q)'
      <3>1. CASE p[1] = q
        BY <2>0, <2>5, <3>1, ReceiveKeeps
      <3>2. CASE p[1] # q
        BY <1>0, <2>0, <2>5, <3>2, WorkerSpares, SparedKeeps
      <3> QED BY <3>1, <3>2
    <2> QED BY <1>0, <2>1, <2>2, <2>3, <2>4, <2>5, QuietSteps DEF WorkerStep
  <1> QED BY <1>1, <1>2 DEF Agreeing

LEMMA AgreedByAll ==
    ASSUME TypeOK, NEW r \in Requests, NEW o, AllAgreed(r, o), at[r] > Len(Names[r])
    PROVE  Agreement!AllAgree(r, o)
  BY AllAsked DEF AllAgreed, Agreement!AllAgree

\* What send_pending_ax sends may be told.
LEMMA SendTells ==
    ASSUME IInv, Agreeing, NEW r \in Requests, Send(r)
    PROVE  Agreement!Tell(r, Owed(r), OrderIn[phase[r]])
  <1> DEFINE o == OrderIn[phase[r]]
  <1>0. TypeOK /\ Phased /\ Quiet /\ Keeps(r)
    BY DEF IInv, Agreeing
  <1>1. /\ o \in Orders
        /\ told' = [told EXCEPT ![r] = [s \in Sessions |-> IF s \in Owed(r) THEN o ELSE @[s]]]
        /\ \A p \in PDUs : p \in Of(r) \ sent <=> \E s \in Owed(r) : p = <<r, s, o>>
        /\ IF o = "cleanup" THEN UNCHANGED wire ELSE wire' = wire \union (Of(r) \ sent)
        /\ pc[r] = "send" /\ UNCHANGED <<agreed, answer>>
    BY <1>0, SendIs
  <1>2. answer[r] = "none"
    BY <1>0, <1>1 DEF Keeps, Waits
  <1>3. ASSUME NEW s \in Owed(r) PROVE Agreement!May(r, s, o)
    <2>1. s \in Sessions /\ s \in Asked(r)
      BY <1>0, <1>1 DEF Owed, Keeps, Involves
    <2>2. CASE phase[r] = "prepare"
      BY <1>0, <2>1, <2>2 DEF Keeps, Course, OrderIn, Agreement!May
    <2>3. CASE phase[r] = "commit"
      <3>1. told[r][s] = "test" /\ AllAgreed(r, "test") /\ at[r] > Len(Names[r])
        BY <1>0, <2>1, <2>3 DEF Keeps, Course, Waits
      <3> QED BY <1>0, <2>3, <3>1, AgreedByAll DEF OrderIn, Agreement!May
    <2>4. CASE phase[r] = "undo"
      BY <1>0, <2>1, <2>4 DEF Keeps, Course, OrderIn, Agreement!May
    <2>5. CASE phase[r] = "cleanup"
      <3>1. \/ told[r][s] \in {"none", "test"}
            \/ told[r][s] = "commit" /\ ~err[r]
        BY <1>0, <2>1, <2>5 DEF Keeps, Course
      <3>2. ~err[r] => AllAgreed(r, "commit") /\ at[r] > Len(Names[r])
        BY <1>0, <2>5 DEF Keeps, Waits
      <3> QED BY <1>0, <2>5, <3>1, <3>2, AgreedByAll DEF OrderIn, Agreement!May
    <2>6. phase[r] \in {"prepare", "commit", "undo", "cleanup"}
      BY <1>0, <1>1 DEF Phased, TypeOK
    <2> QED BY <2>2, <2>3, <2>4, <2>5, <2>6
  <1>4. Of(r) \ sent = {<<r, s, o>> : s \in Owed(r)}
    <2>1. Of(r) \ sent \subseteq PDUs
      BY <1>0 DEF Of, TypeOK
    <2>2. \A s \in Owed(r) : <<r, s, o>> \in PDUs
      BY <1>1 DEF PDUs, Owed
    <2> QED BY <1>1, <2>1, <2>2
  <1> HIDE DEF o
  <1>5. wire' = IF o = "cleanup" THEN wire ELSE wire \union {<<r, s, o>> : s \in Owed(r)}
    BY <1>1, <1>4
  <1>6. Agreement!Tell(r, Owed(r), o)
    BY <1>1, <1>2, <1>3, <1>5 DEF Agreement!Tell
  <1> QED BY <1>6 DEF o

\* Mib::finalize answers noError only when all have committed, and an error
\* only when none is left with a test or a commit.
LEMMA AnswerAnswers ==
    ASSUME IInv, Agreeing, NEW r \in Requests, Answer(r)
    PROVE  Agreement!Answer(r)
  <1>0. TypeOK /\ Keeps(r)
    BY DEF IInv, Agreeing
  <1>1. /\ pc[r] = "answer" /\ UNCHANGED <<told, wire, agreed>>
        /\ answer' = [answer EXCEPT ![r] = IF err[r] THEN "error" ELSE "ok"]
    BY DEF Answer, netVars
  <1>2. answer[r] = "none"
    BY <1>0, <1>1 DEF Keeps, Waits
  <1>3. phase[r] \in {"undo", "cleanup"}
    BY <1>0, <1>1 DEF Keeps, Waits
  <1>4. \A s \in Sessions : s \notin Owed(r)
    <2>1. OrderIn[phase[r]] \in Orders
      BY <1>3 DEF OrderIn, Orders
    <2> QED BY <1>0, <1>1, <2>1, AllSent DEF Keeps, Owed
  <1>5. CASE err[r]
    <2>1. ASSUME NEW s \in Sessions
          PROVE  \/ told[r][s] \in {"none", "cleanup"}
                 \/ told[r][s] = "undo" /\ <<r, s, "undo">> \notin wire
      <3>1. CASE phase[r] = "cleanup"
        BY <1>0, <1>4, <3>1 DEF Keeps, Course
      <3>2. CASE phase[r] = "undo"
        <4>1. told[r][s] \in {"none", "undo"}
          BY <1>0, <1>4, <3>2 DEF Keeps, Course, Involves
        <4>2. ~Pending(r)
          BY <1>0, <1>1, <3>2 DEF Keeps, Waits
        <4>3. <<r, s, "undo">> \notin queue
          BY <1>0, <4>2, PendingOf DEF Orders
        <4>4. <<r, s, "undo">> \notin wire
          BY <1>0, <4>3 DEF Keeps, Flight, TypeOK, Orders
        <4> QED BY <4>1, <4>4
      <3> QED BY <1>3, <3>1, <3>2
    <2>2. Agreement!Fail(r)
      BY <1>1, <1>5, <2>1 DEF Agreement!Fail
    <2> QED BY <1>1, <1>2, <2>2 DEF Agreement!Answer
  <1>6. CASE ~err[r]
    <2>1. phase[r] = "cleanup"
      BY <1>0, <1>3, <1>6 DEF Keeps, Waits
    <2>2. at[r] > Len(Names[r]) /\ AllAgreed(r, "commit")
          /\ \A s \in Asked(r) : told[r][s] = "cleanup"
      BY <1>0, <1>4, <1>6, <2>1, AskedSessions DEF Keeps, Waits
    <2>3. Agreement!AllAgree(r, "commit")
      BY <1>0, <2>2, AgreedByAll
    <2>4. Agreement!Succeed(r)
      BY <1>0, <1>1, <1>6, <2>2, <2>3, AllAsked DEF Agreement!Succeed
    <2> QED BY <1>1, <1>2, <2>4 DEF Agreement!Answer
  <1> QED BY <1>5, <1>6

LEMMA AgreementInit == Init => Agreement!Init
  BY DEF Init, Agreement!Init

LEMMA AgreementStep ==
    ASSUME NoFaults, IInv, Agreeing, [Next]_vars
    PROVE  [Agreement!Next]_(Agreement!vars)
  <1>0. TypeOK /\ Phased /\ Quiet
    BY DEF IInv, Agreeing
  <1> USE DEF Agreement!vars
  <1>1. CASE UNCHANGED vars
    BY <1>1 DEF vars, netVars
  <1>2. ASSUME NEW r \in Requests, PhaseStep(r) PROVE UNCHANGED Agreement!vars
    BY <1>2 DEF PhaseStep, netVars
  <1>3. ASSUME NEW r \in Requests, Send(r) PROVE Agreement!Next
    <2>1. Agreement!Tell(r, Owed(r), OrderIn[phase[r]])
      BY <1>3, SendTells
    <2>2. OrderIn[phase[r]] \in {"test", "commit", "undo", "cleanup"}
      <3>1. pc[r] = "send"
        BY <1>3 DEF Send
      <3> QED BY <1>0, <3>1, OrderInPhase DEF Orders
    <2>3. Owed(r) \in SUBSET Sessions
      BY DEF Owed
    <2> QED BY <2>1, <2>2, <2>3 DEF Agreement!Next
  <1>4. ASSUME NEW r \in Requests, Answer(r) PROVE Agreement!Next
    BY <1>4, AnswerAnswers DEF Agreement!Next
  <1>5. CASE WorkerStep
    BY <1>5 DEF WorkerStep, TakeTask, Process, Drop, netVars
  <1>6. ASSUME NEW p \in PDUs, Receive(p) PROVE Agreement!Next
    <2>1. Agreement!Reply(p)
      BY <1>6 DEF Receive, Agreement!Reply
    <2> QED BY <1>6, <2>1 DEF Receive, Agreement!Next
  <1> QED BY <1>0, <1>1, <1>2, <1>3, <1>4, <1>5, <1>6, QuietSteps DEF RequestStep

LEMMA SpecAgrees == ASSUME NoFaults PROVE Spec => [](IInv /\ Agreeing)
  <1>1. Init => IInv /\ Agreeing
    BY InvInit, AgreeingInit
  <1>2. (IInv /\ Agreeing) /\ [Next]_vars => (IInv /\ Agreeing)'
    <2> SUFFICES ASSUME IInv, Agreeing, [Next]_vars PROVE IInv' /\ Agreeing'
      OBVIOUS
    <2>1. IInv'
      BY InvStep
    <2>2. TypeOK'
      BY <2>1 DEF IInv
    <2> QED BY <2>1, <2>2, AgreeingStep
  <1> QED BY <1>1, <1>2, PTL DEF Spec

\* With subagents that answer in time and stay, and refuse a commit only of a
\* SET they have for themselves, the master agent does what it owes the manager
\* and them: it commits what all have tested, answers noError when all have
\* committed, and an error when none is left with a test or a commit.
THEOREM SetsAgree == NoFaults => (Spec => ImplementsAgreement)
  <1> SUFFICES ASSUME NoFaults PROVE Spec => ImplementsAgreement
    OBVIOUS
  <1>1. Spec => [](IInv /\ Agreeing)
    BY SpecAgrees
  <1>2. Init => Agreement!Init
    BY AgreementInit
  <1>3. (IInv /\ Agreeing) /\ [Next]_vars => [Agreement!Next]_(Agreement!vars)
    BY AgreementStep
  <1> QED BY <1>1, <1>2, <1>3, PTL DEF Spec, ImplementsAgreement, Agreement!Spec

\* An answer stays true: nothing is told for a request that is answered.
LEMMA AnswersStand ==
    ASSUME TypeOK, Unwound, SuccessIsTrue, [Agreement!Next]_(Agreement!vars)
    PROVE  Unwound' /\ SuccessIsTrue'
  <1>1. CASE UNCHANGED Agreement!vars
    BY <1>1 DEF Agreement!vars, Unwound, SuccessIsTrue
  <1>2. ASSUME NEW r \in Requests, NEW S \in SUBSET Sessions, NEW o, Agreement!Tell(r, S, o)
        PROVE  Unwound' /\ SuccessIsTrue'
    <2>1. answer[r] = "none" /\ UNCHANGED <<agreed, answer>>
          /\ \A q \in Requests \ {r} : told'[q] = told[q]
      BY <1>2 DEF Agreement!Tell, TypeOK
    <2> QED BY <2>1 DEF Unwound, SuccessIsTrue
  <1>3. ASSUME NEW p \in wire, Agreement!Reply(p) PROVE Unwound' /\ SuccessIsTrue'
    <2>1. UNCHANGED <<told, answer>> /\ agreed \subseteq agreed'
      BY <1>3 DEF Agreement!Reply
    <2> QED BY <2>1 DEF Unwound, SuccessIsTrue
  <1>4. ASSUME NEW r \in Requests, Agreement!Answer(r) PROVE Unwound' /\ SuccessIsTrue'
    <2>0. UNCHANGED <<told, agreed>>
      BY <1>4 DEF Agreement!Answer
    <2>1. CASE Agreement!Succeed(r)
      <3>1. \A i \in DOMAIN Names[r] : <<r, SessionOf[Names[r][i]], "commit">> \in agreed
        BY <2>1 DEF Agreement!Succeed, Agreement!AllAgree
      <3>2. answer' = [answer EXCEPT ![r] = "ok"]
        BY <2>1 DEF Agreement!Succeed
      <3>3. \A q \in Requests : answer'[q] = IF q = r THEN "ok" ELSE answer[q]
        BY <3>2 DEF TypeOK
      <3> QED BY <2>0, <3>1, <3>3 DEF Unwound, SuccessIsTrue
    <2>2. CASE Agreement!Fail(r)
      <3>1. \A s \in Sessions : told[r][s] # "commit"
        BY <2>2 DEF Agreement!Fail
      <3>2. answer' = [answer EXCEPT ![r] = "error"]
        BY <2>2 DEF Agreement!Fail
      <3>3. \A q \in Requests : answer'[q] = IF q = r THEN "error" ELSE answer[q]
        BY <3>2 DEF TypeOK
      <3> QED BY <2>0, <3>1, <3>3 DEF Unwound, SuccessIsTrue
    <2> QED BY <1>4, <2>1, <2>2 DEF Agreement!Answer
  <1> QED BY <1>1, <1>2, <1>3, <1>4 DEF Agreement!Next

\* Without faults no request fails that leaves a subagent with a commit not
\* undone, and one that succeeds has the commits of all: what AxUnwound.cfg
\* finds needs an answer that is late.
THEOREM AnswersAreTrue == NoFaults => (Spec => [](Unwound /\ SuccessIsTrue))
  <1> SUFFICES ASSUME NoFaults PROVE Spec => [](Unwound /\ SuccessIsTrue)
    OBVIOUS
  <1>1. Spec => [](IInv /\ Agreeing)
    BY SpecAgrees
  <1>2. Init => Unwound /\ SuccessIsTrue
    BY DEF Init, Unwound, SuccessIsTrue
  <1>3. (IInv /\ Agreeing) /\ (Unwound /\ SuccessIsTrue) /\ [Next]_vars => (Unwound /\ SuccessIsTrue)'
    BY AgreementStep, AnswersStand DEF IInv
  <1> QED BY <1>1, <1>2, <1>3, PTL DEF Spec

=============================================================================
