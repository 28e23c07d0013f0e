------------------------------ MODULE AgentXSets ------------------------------
(***************************************************************************)
(* SET requests for objects that subagents manage.  The thread of a        *)
(* request locks its nodes and sends a TestSet to every session it has     *)
(* bindings for; then axSetThread, a pool of one worker, takes the request *)
(* on with every response, through CommitSet, UndoSet and CleanupSet.  The *)
(* main AgentX thread reads the responses and makes one up for a PDU that  *)
(* is late; after AGENTX_MAX_TIMEOUTS of them it closes the session, as    *)
(* axRegThread does when a connection is lost or a subagent says goodbye.  *)
(*                                                                         *)
(* A PDU is <<r, s, o>>: the order o of request r to session s, with all   *)
(* its bindings.  What a thread does with the PDU queue locked is one step *)
(* and so is a walk over the bindings that cannot block.  A node stands    *)
(* for a registered region, with its MIB entry AgentXNode.                 *)
(***************************************************************************)
EXTENDS Naturals, Sequences

CONSTANTS
    Requests,     \* SET requests
    Nodes,        \* the AgentXNodes of the MIB
    Sessions,     \* sessions open at the start
    SessionOf,    \* the session that has registered a node
    Names,        \* the nodes that the bindings of a request belong to
    Denied,       \* requests that access control or another object may refuse
    Refusing,     \* PDUs that a subagent may answer with an error
    Slow,         \* sessions whose subagent may take too long
    Leaving,      \* sessions whose subagent may leave
    MaxTimeouts,  \* AGENTX_MAX_TIMEOUTS
    NoOne         \* no holder of a lock, no task, no PDU

Orders == {"test", "commit", "undo", "cleanup"}
PDUs == Requests \X Sessions \X Orders
Outcomes == {"ok", "error", "late", "ghost"}
Closers == {"main", "reg"}     \* the threads that close sessions

ASSUME AgentXSetsAssumption ==
    /\ SessionOf \in [Nodes -> Sessions]
    /\ Names \in [Requests -> Seq(Nodes)]
    /\ \A r \in Requests : Len(Names[r]) > 0
    /\ Denied \subseteq Requests /\ Refusing \subseteq PDUs
    /\ Slow \subseteq Sessions /\ Leaving \subseteq Sessions
    /\ MaxTimeouts \in Nat \ {0}
    /\ Requests \intersect Closers = {}
    /\ NoOne \notin Requests \union Closers \union Sessions \union PDUs
    /\ NoOne \notin PDUs \X Outcomes

VARIABLES
    pc,        \* where the thread that has a request locked is; idle: none has
    at,        \* the binding its prepare phase has come to
    phase,     \* Request::phase
    err,       \* its error status is set
    finished,  \* Request::finished
    owner,     \* the request that has a node locked
    mib,       \* who has the MIB locked
    queue,     \* AgentXQueue
    sent,      \* PDUs in it with a timestamp
    ahead,     \* pairs of PDUs of which one is nearer to the head
    late,      \* PDUs whose timestamp has passed
    tasks,     \* responses queued for axSetThread, with their outcome
    task,      \* the one its worker has
    wpc,       \* where the worker is
    mpc,       \* where the main AgentX thread is
    seen,      \* PDUs that were late when it read the clock
    cur,       \* the late one it has copied
    open,      \* openSessions
    count,     \* AgentXSession::consecutiveTimeouts
    node,      \* active, empty (its registration removed), or gone
    cpc,       \* where a thread is that closes a session
    closing,   \* the session it closes
    todo,      \* the nodes it still has to visit
    registry,  \* who holds lock_reg
    link,      \* sessions whose connection stands
    wire,      \* PDUs that a subagent may still answer
    told,      \* the last order sent to a session for a request
    agreed,    \* orders that were answered with noError
    answer     \* how a request was answered

requestVars == <<pc, at, phase, err, finished>>
lockVars == <<owner, mib>>
queueVars == <<queue, sent, ahead, late>>
workVars == <<tasks, task, wpc>>
mainVars == <<mpc, seen, cur>>
closeVars == <<cpc, closing, todo, registry, node>>
sessionVars == <<open, count>>
netVars == <<link, wire, agreed>>
vars == <<requestVars, lockVars, queueVars, workVars, mainVars, closeVars, sessionVars,
          netVars, told, answer>>

TypeOK ==
    /\ pc \in [Requests -> {"new", "prepare", "tested", "committed", "undone", "send", "spin",
                            "idle", "answer", "gone"}]
    /\ at \in [Requests -> Nat]
    /\ phase \in [Requests -> {"default", "prepare", "commit", "undo", "cleanup"}]
    /\ err \in [Requests -> BOOLEAN] /\ finished \in [Requests -> BOOLEAN]
    /\ owner \in [Nodes -> Requests \union {NoOne}]
    /\ mib \in Requests \union Closers \union {NoOne}
    /\ queue \subseteq PDUs /\ sent \subseteq queue /\ late \subseteq sent
    /\ ahead \subseteq queue \X queue
    /\ tasks \subseteq PDUs \X Outcomes
    /\ wpc \in {"free", "lock", "run"}
    /\ IF wpc = "free" THEN task = NoOne ELSE task \in PDUs \X Outcomes
    /\ mpc \in {"poll", "late", "dispatch", "purge"}
    /\ seen \subseteq PDUs
    /\ IF mpc = "dispatch" THEN cur \in PDUs ELSE cur = NoOne
    /\ open \subseteq Sessions
    /\ count \in [Sessions -> 0 .. MaxTimeouts]
    /\ node \in [Nodes -> {"active", "empty", "gone"}]
    /\ cpc \in [Closers -> {"idle", "leave", "registry", "lock", "visit", "victims", "remove"}]
    /\ closing \in [Closers -> Sessions \union {NoOne}]
    /\ \A c \in Closers : cpc[c] # "idle" => closing[c] \in Sessions
    /\ todo \in [Closers -> SUBSET Nodes]
    /\ registry \in Closers \union {NoOne}
    /\ link \subseteq Sessions /\ wire \subseteq PDUs
    /\ told \in [Requests -> [Sessions -> Orders \union {"none"}]]
    /\ agreed \subseteq PDUs
    /\ answer \in [Requests -> {"none", "ok", "error"}]

Init ==
    /\ pc = [r \in Requests |-> "new"] /\ at = [r \in Requests |-> 1]
    /\ phase = [r \in Requests |-> "default"]
    /\ err = [r \in Requests |-> FALSE] /\ finished = [r \in Requests |-> FALSE]
    /\ owner = [n \in Nodes |-> NoOne] /\ mib = NoOne
    /\ queue = {} /\ sent = {} /\ ahead = {} /\ late = {}
    /\ tasks = {} /\ task = NoOne /\ wpc = "free"
    /\ mpc = "poll" /\ seen = {} /\ cur = NoOne
    /\ open = Sessions /\ count = [s \in Sessions |-> 0]
    /\ node = [n \in Nodes |-> "active"]
    /\ cpc = [c \in Closers |-> "idle"] /\ closing = [c \in Closers |-> NoOne]
    /\ todo = [c \in Closers |-> {}] /\ registry = NoOne
    /\ link = Sessions /\ wire = {} /\ agreed = {}
    /\ told = [r \in Requests |-> [s \in Sessions |-> "none"]]
    /\ answer = [r \in Requests |-> "none"]

Goto(r, place) == pc' = [pc EXCEPT ![r] = place]

-----------------------------------------------------------------------------
(* AgentXQueue *)

\* Who spins in send_pending_ax never gives the queue back.
QueueFree == \A r \in Requests : pc[r] # "spin"

Of(r) == {p \in queue : p[1] = r}

Pending(r) == Of(r) # {}

\* The PDUs in front that have no timestamp.
Front == {p \in queue \ sent : \A q \in sent : <<q, p>> \notin ahead}

\* A PDU of r for s is added before one for t.
Before(r, s, t) ==
    \E i \in DOMAIN Names[r] :
        /\ SessionOf[Names[r][i]] = s
        /\ \A j \in 1 .. i : SessionOf[Names[r][j]] # t

\* PDUs of one request, added with the timestamp 0
Add(P) ==
    /\ queue' = queue \union P
    /\ ahead' = ahead \union (Front \X P) \union (P \X (queue \ Front))
                      \union {e \in P \X P : Before(e[1][1], e[1][2], e[2][2])}
    /\ UNCHANGED <<sent, late>>

Remove(P) ==
    /\ queue' = queue \ P /\ sent' = sent \ P /\ late' = late \ P
    /\ ahead' = {e \in ahead : e[1] \notin P /\ e[2] \notin P}

\* All that is in front of p has property S.
Exposed(S) == {p \in queue \intersect S : \A q \in queue : <<q, p>> \in ahead => q \in S}

-----------------------------------------------------------------------------
(* The thread that has the request locked: process_set_request, finalize *)

Held(r) == {n \in Nodes : owner[n] = r}

Release(r) == owner' = [n \in Nodes |-> IF owner[n] = r THEN NoOne ELSE owner[n]]

Fail(r) ==
    /\ err' = [err EXCEPT ![r] = TRUE]
    /\ finished' = [finished EXCEPT ![r] = TRUE]

\* AgentXNode::set_request for nodes of r: a session that has a PDU of r not
\* yet sent gets its bindings with that one, one that is gone gets nothing.
Order(r, N, o) ==
    Add({<<r, s, o>> : s \in {s \in open :
            /\ \E n \in N : node[n] = "active" /\ SessionOf[n] = s
            /\ \A p \in Of(r) \ sent : p[2] # s}})

Start(r) ==
    /\ pc[r] = "new" /\ mib = NoOne
    /\ mib' = r
    /\ Goto(r, "prepare")
    /\ phase' = [phase EXCEPT ![r] = "prepare"]
    /\ UNCHANGED <<at, err, finished, owner, queueVars>>

\* Locks the node of the next binding, with the MIB locked.
Prepare(r) ==
    /\ pc[r] = "prepare" /\ at[r] <= Len(Names[r]) /\ QueueFree
    /\ LET n == Names[r][at[r]] IN
       /\ node[n] # "gone" /\ owner[n] \in {NoOne, r}
       /\ owner' = [owner EXCEPT ![n] = r]
       /\ IF node[n] = "empty" THEN Fail(r) ELSE UNCHANGED <<err, finished>>
       /\ Order(r, {n}, "test")
    /\ at' = [at EXCEPT ![r] = @ + 1]
    /\ UNCHANGED <<pc, phase, mib>>

\* Mutant of Deny: it keeps the MIB locked.
DenyKeepingMib(r) ==
    /\ pc[r] = "prepare" /\ at[r] <= Len(Names[r]) /\ QueueFree
    /\ r \in Denied \/ node[Names[r][at[r]]] = "gone"
    /\ Fail(r)
    /\ Remove(Of(r))
    /\ Goto(r, "tested")
    /\ UNCHANGED <<at, phase, lockVars>>

\* No such object, no access, or an object of the agent itself objects.
Deny(r) ==
    /\ pc[r] = "prepare" /\ at[r] <= Len(Names[r]) /\ QueueFree
    /\ r \in Denied \/ node[Names[r][at[r]]] = "gone"
    /\ Fail(r)
    /\ Remove(Of(r))
    /\ mib' = NoOne
    /\ Goto(r, "tested")
    /\ UNCHANGED <<at, phase, owner>>

Prepared(r) ==
    /\ pc[r] = "prepare" /\ at[r] > Len(Names[r]) /\ QueueFree
    /\ mib' = NoOne
    /\ Goto(r, IF Pending(r) THEN "send" ELSE "tested")
    /\ UNCHANGED <<at, phase, err, finished, owner, queueVars>>

CleanUp(r) ==
    /\ phase' = [phase EXCEPT ![r] = "cleanup"]
    /\ Order(r, Held(r), "cleanup")
    /\ Release(r)
    /\ finished' = [finished EXCEPT ![r] = TRUE]
    /\ Goto(r, "send")

\* Mutant of Tested: the first test that is answered starts the commit.
TestedEagerly(r) ==
    /\ pc[r] = "tested" /\ QueueFree
    /\ IF err[r]
       THEN CleanUp(r)
       ELSE /\ phase' = [phase EXCEPT ![r] = "commit"]
            /\ Order(r, Held(r), "commit")
            /\ finished' = [finished EXCEPT ![r] = FALSE]
            /\ Goto(r, "committed")
            /\ UNCHANGED owner
    /\ UNCHANGED <<at, err, mib>>

\* Mutant of Tested: the nodes are given back with the commit.
TestedReleasing(r) ==
    /\ pc[r] = "tested" /\ QueueFree
    /\ \/ err[r] /\ CleanUp(r)
       \/ /\ ~err[r] /\ Pending(r)
          /\ Goto(r, "committed")
          /\ UNCHANGED <<phase, finished, owner, queueVars>>
       \/ /\ ~err[r] /\ ~Pending(r)
          /\ phase' = [phase EXCEPT ![r] = "commit"]
          /\ Order(r, Held(r), "commit")
          /\ Release(r)
          /\ finished' = [finished EXCEPT ![r] = FALSE]
          /\ Goto(r, "committed")
    /\ UNCHANGED <<at, err, mib>>

\* case PHASE_PREPARE
Tested(r) ==
    /\ pc[r] = "tested" /\ QueueFree
    /\ \/ /\ err[r]
          /\ CleanUp(r)
       \/ /\ ~err[r] /\ Pending(r)
          /\ Goto(r, "committed")
          /\ UNCHANGED <<phase, finished, owner, queueVars>>
       \/ /\ ~err[r] /\ ~Pending(r)
          /\ phase' = [phase EXCEPT ![r] = "commit"]
          /\ Order(r, Held(r), "commit")
          /\ finished' = [finished EXCEPT ![r] = FALSE]
          /\ Goto(r, "committed")
          /\ UNCHANGED owner
    /\ UNCHANGED <<at, err, mib>>

\* case PHASE_COMMIT
Committed(r) ==
    /\ pc[r] = "committed" /\ QueueFree
    /\ \/ /\ Pending(r)
          /\ Goto(r, "send")
          /\ UNCHANGED <<phase, finished, owner, queueVars>>
       \/ /\ ~Pending(r) /\ err[r]
          /\ phase' = [phase EXCEPT ![r] = "undo"]
          /\ Order(r, Held(r), "undo")
          /\ Release(r)
          /\ Goto(r, "undone")
          /\ UNCHANGED finished
       \/ /\ ~Pending(r) /\ ~err[r]
          /\ CleanUp(r)
    /\ UNCHANGED <<at, err, mib>>

\* case PHASE_UNDO
Undone(r) ==
    /\ pc[r] = "undone" /\ QueueFree
    /\ finished' = [finished EXCEPT ![r] = ~Pending(r)]
    /\ Goto(r, "send")
    /\ UNCHANGED <<at, phase, err, lockVars, queueVars>>

\* axSetThread is through with the request.
Leave(r) ==
    IF wpc = "run" /\ task[1][1] = r
    THEN wpc' = "free" /\ task' = NoOne
    ELSE UNCHANGED <<wpc, task>>

\* send_pending_ax: everything of r that is not sent, in the order of the
\* queue, up to a PDU whose session is gone, which it tries for ever.
Send(r) ==
    /\ pc[r] = "send" /\ QueueFree
    /\ LET unsent == Of(r) \ sent
           stuck == {p \in unsent : p[2] \notin open}
           done == {p \in unsent \ stuck : \A q \in stuck : <<q, p>> \notin ahead}
           gone == {p \in done : p[3] = "cleanup"}
       IN
       /\ queue' = queue \ gone
       /\ ahead' = {e \in ahead : e[1] \notin gone /\ e[2] \notin gone}
       /\ sent' = sent \union (done \ gone)
       /\ wire' = wire \union {p \in done \ gone : p[2] \in link}
       /\ told' = [told EXCEPT ![r] = [s \in Sessions |->
                      IF \E p \in done : p[2] = s
                      THEN (CHOOSE p \in done : p[2] = s)[3] ELSE @[s]]]
       /\ \/ /\ stuck # {} /\ Goto(r, "spin") /\ UNCHANGED <<wpc, task>>
          \/ /\ stuck = {} /\ (finished[r] \/ ~Pending(r))
             /\ Goto(r, "answer") /\ UNCHANGED <<wpc, task>>
          \/ /\ stuck = {} /\ ~finished[r] /\ Pending(r)
             /\ Goto(r, "idle") /\ Leave(r)
    /\ UNCHANGED <<at, phase, err, finished, lockVars, late, tasks, mainVars, closeVars,
                   sessionVars, link, agreed, answer>>

\* Mib::finalize, with the destructor of the request
Answer(r) ==
    /\ pc[r] = "answer"
    /\ answer' = [answer EXCEPT ![r] = IF err[r] THEN "error" ELSE "ok"]
    /\ Release(r)
    /\ Goto(r, "gone")
    /\ Leave(r)
    /\ UNCHANGED <<at, phase, err, finished, mib, queueVars, tasks, mainVars, closeVars,
                   sessionVars, netVars, told>>

PhaseStep(r) ==
    /\ \/ Start(r) \/ Prepare(r) \/ Deny(r) \/ Prepared(r)
       \/ Tested(r) \/ Committed(r) \/ Undone(r)
    /\ UNCHANGED <<workVars, mainVars, closeVars, sessionVars, netVars, told, answer>>

RequestStep(r) == PhaseStep(r) \/ Send(r) \/ Answer(r)

-----------------------------------------------------------------------------
(* axSetThread: process_ax_response *)

\* Mutant of TakeTask: every response is used.
TakeAnyTask(t) ==
    /\ wpc = "free" /\ t \in tasks /\ QueueFree
    /\ tasks' = tasks \ {t}
    /\ Remove({t[1]})
    /\ wpc' = "lock" /\ task' = t
    /\ IF t[2] \in {"ok", "error"} /\ t[1][2] \in open
       THEN count' = [count EXCEPT ![t[1][2]] = 0]
       ELSE UNCHANGED count
    /\ UNCHANGED <<requestVars, lockVars, mainVars, closeVars, open, netVars, told, answer>>

\* A response whose PDU is not in the queue any more is ignored.
TakeTask(t) ==
    /\ wpc = "free" /\ t \in tasks /\ QueueFree
    /\ tasks' = tasks \ {t}
    /\ IF t[1] \in queue
       THEN /\ Remove({t[1]})
            /\ wpc' = "lock" /\ task' = t
            /\ IF t[2] \in {"ok", "error"} /\ t[1][2] \in open
               THEN count' = [count EXCEPT ![t[1][2]] = 0]
               ELSE UNCHANGED count
       ELSE UNCHANGED <<queueVars, wpc, task, count>>
    /\ UNCHANGED <<requestVars, lockVars, mainVars, closeVars, open, netVars, told, answer>>

Resume == [prepare |-> "tested", commit |-> "committed", undo |-> "undone"]

\* process_ax_set_response, once the request is unlocked
Process ==
    /\ wpc = "lock"
    /\ LET r == task[1][1] IN
       /\ pc[r] = "idle"
       /\ IF task[2] \in {"error", "late"} THEN Fail(r) ELSE UNCHANGED <<err, finished>>
       /\ Goto(r, Resume[phase[r]])
    /\ wpc' = "run"
    /\ UNCHANGED <<at, phase, lockVars, queueVars, tasks, task, mainVars, closeVars,
                   sessionVars, netVars, told, answer>>

\* The request has been answered meanwhile.
Drop ==
    /\ wpc = "lock" /\ pc[task[1][1]] = "gone"
    /\ wpc' = "free" /\ task' = NoOne
    /\ UNCHANGED <<requestVars, lockVars, queueVars, tasks, mainVars, closeVars,
                   sessionVars, netVars, told, answer>>

WorkerStep == (\E t \in tasks : TakeTask(t)) \/ Process \/ Drop

-----------------------------------------------------------------------------
(* The main AgentX thread: process_agentx *)

MainFree == cpc["main"] = "idle"

\* dispatch_ax_response
DispatchResponse(p, outcome) ==
    IF pc[p[1]] # "gone"
    THEN tasks' = tasks \union {<<p, outcome>>} /\ UNCHANGED queueVars
    ELSE QueueFree /\ Remove({p}) /\ UNCHANGED tasks

\* timeout_requests with the time it is now
Look ==
    /\ mpc = "poll" /\ MainFree /\ late # {}
    /\ seen' = late
    /\ mpc' = "late"
    /\ UNCHANGED <<requestVars, lockVars, queueVars, workVars, cur, closeVars, sessionVars,
                   netVars, told, answer>>

GetLate ==
    /\ mpc = "late" /\ MainFree /\ QueueFree
    /\ \/ \E p \in queue \intersect seen :
            /\ \A q \in queue : <<q, p>> \notin ahead
            /\ cur' = p /\ mpc' = "dispatch"
       \/ /\ \A p \in queue \intersect seen : \E q \in queue : <<q, p>> \in ahead
          /\ mpc' = "purge" /\ UNCHANGED cur
    /\ UNCHANGED <<requestVars, lockVars, queueVars, workVars, seen, closeVars, sessionVars,
                   netVars, told, answer>>

\* is_unable_to_respond, with the timeout that is counted now
Unable(s) == count[s] + 1 >= MaxTimeouts

\* Without its session the copy of the PDU is dispatched as it is: no error.
TimeOut ==
    /\ mpc = "dispatch"
    /\ LET s == cur[2] IN
       IF s \in open
       THEN /\ DispatchResponse(cur, "late")
            /\ count' = [count EXCEPT ![s] = @ + 1]
            /\ IF Unable(s)
               THEN /\ cpc' = [cpc EXCEPT !["main"] = "leave"]
                    /\ closing' = [closing EXCEPT !["main"] = s]
               ELSE UNCHANGED <<cpc, closing>>
       ELSE /\ DispatchResponse(cur, "ghost")
            /\ UNCHANGED <<count, cpc, closing>>
    /\ mpc' = "late" /\ cur' = NoOne
    /\ UNCHANGED <<requestVars, lockVars, wpc, task, seen, todo, registry, node, open,
                   netVars, told, answer>>

\* AgentXQueue::timeout
Purge ==
    /\ mpc = "purge" /\ QueueFree
    /\ Remove(Exposed(seen))
    /\ mpc' = "poll" /\ seen' = {}
    /\ UNCHANGED <<requestVars, lockVars, workVars, cur, closeVars, sessionVars, netVars,
                   told, answer>>

\* The answer of a subagent
Receive(p) ==
    /\ mpc = "poll" /\ MainFree /\ p \in wire
    /\ wire' = wire \ {p}
    /\ \/ DispatchResponse(p, "ok") /\ agreed' = agreed \union {p}
       \/ p \in Refusing /\ DispatchResponse(p, "error") /\ UNCHANGED agreed
    /\ UNCHANGED <<requestVars, lockVars, wpc, task, mainVars, closeVars, sessionVars, link,
                   told, answer>>

\* What a slow subagent has, or one that is gone, is never answered in time.
Tick(p) ==
    /\ p \in sent \ late /\ p[2] \in Slow \union (Sessions \ link)
    /\ late' = late \union {p}
    /\ UNCHANGED <<requestVars, lockVars, queue, sent, ahead, workVars, mainVars, closeVars,
                   sessionVars, netVars, told, answer>>

MainStep == Look \/ GetLate \/ TimeOut \/ Purge

-----------------------------------------------------------------------------
(* Sessions that end *)

\* The connection is lost.
Lose(s) ==
    /\ mpc = "poll" /\ MainFree /\ cpc["reg"] = "idle" /\ s \in link
    /\ link' = link \ {s}
    /\ wire' = {p \in wire : p[2] # s}
    /\ cpc' = [cpc EXCEPT !["reg"] = "leave"]
    /\ closing' = [closing EXCEPT !["reg"] = s]
    /\ UNCHANGED <<requestVars, lockVars, queueVars, workVars, mainVars, todo, registry, node,
                   sessionVars, agreed, told, answer>>

\* A Close PDU arrives.
Goodbye(s) ==
    /\ mpc = "poll" /\ MainFree /\ cpc["reg"] = "idle" /\ s \in open
    /\ cpc' = [cpc EXCEPT !["reg"] = "registry"]
    /\ closing' = [closing EXCEPT !["reg"] = s]
    /\ UNCHANGED <<requestVars, lockVars, queueVars, workVars, mainVars, todo, registry, node,
                   sessionVars, netVars, told, answer>>

Closed(c) ==
    /\ cpc' = [cpc EXCEPT ![c] = "idle"]
    /\ closing' = [closing EXCEPT ![c] = NoOne]
    /\ open' = open \ {closing[c]}

CloserAt(c, place) == cpc' = [cpc EXCEPT ![c] = place]

\* close_session, and remove_peer: the session goes first
RemoveSession(c) ==
    /\ cpc[c] = "leave"
    /\ IF closing[c] \in open
       THEN /\ open' = open \ {closing[c]}
            /\ CloserAt(c, "registry") /\ UNCHANGED closing
       ELSE Closed(c)
    /\ UNCHANGED <<lockVars, todo, registry, node>>

\* remove_entries; all registrations of a session in one pass
LockRegistry(c) ==
    /\ cpc[c] = "registry" /\ registry = NoOne
    /\ IF \E n \in Nodes : SessionOf[n] = closing[c] /\ node[n] = "active"
       THEN registry' = c /\ CloserAt(c, "lock") /\ UNCHANGED <<closing, open>>
       ELSE Closed(c) /\ UNCHANGED registry
    /\ UNCHANGED <<lockVars, todo, node>>

LockMib(c) ==
    /\ cpc[c] = "lock" /\ mib = NoOne
    /\ mib' = c
    /\ todo' = [todo EXCEPT ![c] = {n \in Nodes : node[n] # "gone"}]
    /\ CloserAt(c, "visit")
    /\ UNCHANGED <<owner, closing, registry, node, open>>

\* remove_registration locks every node, whose ever it is.
Visit(c, n) ==
    /\ cpc[c] = "visit" /\ n \in todo[c] /\ owner[n] = NoOne
    /\ todo' = [todo EXCEPT ![c] = @ \ {n}]
    /\ node' = [node EXCEPT ![n] = IF SessionOf[n] = closing[c] THEN "empty" ELSE @]
    /\ UNCHANGED <<lockVars, cpc, closing, registry, open>>

Visited(c) ==
    /\ cpc[c] = "visit" /\ todo[c] = {}
    /\ mib' = NoOne
    /\ CloserAt(c, "victims")
    /\ UNCHANGED <<owner, closing, todo, registry, node, open>>

Victims(c) == {n \in Nodes : SessionOf[n] = closing[c] /\ node[n] = "empty"}

\* Mib::remove
LockVictim(c) ==
    /\ cpc[c] = "victims" /\ mib = NoOne
    /\ \E n \in Victims(c) : todo' = [todo EXCEPT ![c] = {n}]
    /\ mib' = c
    /\ CloserAt(c, "remove")
    /\ UNCHANGED <<owner, closing, registry, node, open>>

RemoveVictim(c, n) ==
    /\ cpc[c] = "remove" /\ n \in todo[c] /\ owner[n] = NoOne
    /\ node' = [node EXCEPT ![n] = "gone"]
    /\ todo' = [todo EXCEPT ![c] = {}]
    /\ mib' = NoOne
    /\ CloserAt(c, "victims")
    /\ UNCHANGED <<owner, closing, registry, open>>

EntriesRemoved(c) ==
    /\ cpc[c] = "victims" /\ Victims(c) = {}
    /\ registry' = NoOne
    /\ Closed(c)
    /\ UNCHANGED <<lockVars, todo, node>>

CloserStep(c) ==
    /\ \/ RemoveSession(c) \/ LockRegistry(c) \/ LockMib(c) \/ Visited(c)
       \/ LockVictim(c) \/ EntriesRemoved(c)
       \/ \E n \in Nodes : Visit(c, n) \/ RemoveVictim(c, n)
    /\ UNCHANGED <<requestVars, queueVars, workVars, mainVars, count, netVars, told, answer>>

-----------------------------------------------------------------------------
Finished == (\A r \in Requests : pc[r] = "gone") /\ UNCHANGED vars

Next ==
    \/ \E r \in Requests : RequestStep(r)
    \/ WorkerStep
    \/ MainStep
    \/ \E p \in PDUs : Receive(p) \/ Tick(p)
    \/ \E s \in Leaving : Lose(s) \/ Goodbye(s)
    \/ \E c \in Closers : CloserStep(c)
    \/ Finished

\* Every thread that can go on again and again does so, a subagent that is not
\* slow answers, and time passes.
Spec ==
    /\ Init /\ [][Next]_vars
    /\ \A r \in Requests : SF_vars(RequestStep(r))
    /\ SF_vars(WorkerStep)
    /\ SF_vars(MainStep \/ CloserStep("main"))
    /\ SF_vars(CloserStep("reg"))
    /\ SF_vars(\E p \in PDUs : p[2] \notin Slow /\ Receive(p))
    /\ WF_vars(\E p \in PDUs : Tick(p))

-----------------------------------------------------------------------------
(* Properties *)

\* The manager of every SET gets an answer.
AllAnswered == \A r \in Requests : <>(answer[r] # "none")

\* A response is only used in the phase its PDU was sent in: a TestSet that is
\* answered late never counts as the commit of the request, nor does a made-up
\* response for one count as that of the other.
InStep ==
    wpc = "lock" /\ pc[task[1][1]] = "idle" =>
        task[1][3] = [prepare |-> "test", commit |-> "commit", undo |-> "undo"][phase[task[1][1]]]

\* The nodes of the bindings of p that are prepared
Bound(p) == {n \in Nodes : /\ SessionOf[n] = p[2]
                           /\ \E i \in DOMAIN Names[p[1]] : i < at[p[1]] /\ Names[p[1]][i] = n}

\* Requests whose tests and commits the master agent has not given up
Going(p) == phase[p[1]] \in {"prepare", "commit"} /\ pc[p[1]] # "gone"

\* No subagent has two of them on its hands for the same region at a time.
NodesApart ==
    \A p, q \in queue \union wire :
        p[1] # q[1] /\ Going(p) /\ Going(q) => Bound(p) \intersect Bound(q) = {}

\* No request fails that leaves a subagent with a commit not undone.
Unwound ==
    \A r \in Requests, s \in Sessions : answer[r] = "error" => told[r][s] # "commit"

\* Who is answered noError has the commits of all subagents.
SuccessIsTrue ==
    \A r \in Requests : answer[r] = "ok" =>
        \A i \in DOMAIN Names[r] : <<r, SessionOf[Names[r][i]], "commit">> \in agreed

\* The thread that reads the answers never waits for a node whose holder waits
\* for one of them.
ReaderFree ==
    \A n \in todo["main"], r \in Requests :
        cpc["main"] = "visit" /\ owner[n] = r /\ pc[r] = "idle" =>
            wpc # "free" \/ tasks # {}

Agreement == INSTANCE SetAgreement WITH
    Involved <- [r \in Requests |-> {SessionOf[Names[r][i]] : i \in DOMAIN Names[r]}],
    out <- wire

ImplementsAgreement == Agreement!Spec
===============================================================================
