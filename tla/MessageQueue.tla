----------------------------- MODULE MessageQueue -----------------------------
(***************************************************************************)
(* The requests of a snmp++ session.  Snmp::snmp_engine puts a message in  *)
(* the CSNMPMessageQueue and sends it; blocking callers and the poll       *)
(* thread take turns (pevents_mutex) to read answers, to call back and to  *)
(* send again what is due; cancel, and a caller that has its answer, take  *)
(* messages out at any time.  Datagrams are lost, duplicated, delayed and  *)
(* reordered on the way.                                                   *)
(*                                                                         *)
(* What a thread does with the queue locked is one step.  A message is     *)
(* named <<r, k>>, the k-th that request r needs: an SNMPv3 request starts *)
(* again when a report tells it the engine or the time of the agent.       *)
(***************************************************************************)
EXTENDS Naturals

CONSTANTS
    Callers,     \* blocking requests
    Askers,      \* asynchronous requests
    V3,          \* the SNMPv3 requests
    Cancelled,   \* the requests that cancel may be called for
    Failing,     \* the messages that the socket may refuse
    Retries,     \* SnmpTarget::retries
    Copies,      \* bound on the answers to a message underway at a time
    Id,          \* the request id that the counter gives each message
    Poller,      \* the poll thread
    None         \* no message, no thread

Requests == Callers \union Askers
Threads == Callers \union {Poller}
Messages == Requests \X (0 .. 2)

ASSUME MessageQueueAssumption ==
    /\ Callers \intersect Askers = {}
    /\ V3 \subseteq Requests /\ Cancelled \subseteq Askers /\ Failing \subseteq Messages
    /\ Retries \in Nat /\ Copies \in Nat \ {0}
    /\ Poller \notin Requests
    /\ None \notin Requests \union Threads \union Messages

VARIABLES
    pc,          \* where each request is, and the poll thread
    try,         \* which of its messages a blocking request waits for
    queue,       \* the messages in the list
    locked,      \* those with m_locked
    retry,       \* their retries left
    got,         \* m_received and the kind of m_pdu
    freed,       \* how often a message's V3CallBackData was deleted
    due,         \* messages whose m_sendTime has passed
    pass,        \* the thread that owns pevents_mutex
    ppc,         \* where it is
    cur,         \* the message it has locked
    late,        \* the messages that were due when it read the clock
    arrived,     \* messages with an answer in the socket when the pass began
    underway,    \* how many answers to a message are on their way
    socket,      \* messages with an answer that has arrived
    replied,     \* requests with an answer that has arrived
    result,      \* how each request has ended
    calls,       \* how often its callback was called
    strayed,     \* a walk went on from an element that was deleted
    dpc          \* where ~Snmp is

userVars == <<result, calls>>
listVars == <<queue, locked, retry, got, freed>>
passVars == <<pass, ppc, cur, late, arrived>>
netVars == <<underway, socket, replied>>
vars == <<pc, try, userVars, listVars, due, passVars, netVars, strayed, dpc>>

Replies == {"response", "error"}
Reports == {"engine", "window"}   \* usmStatsUnknownEngineIDs, usmStatsNotInTimeWindows
Kinds(m) == Replies \union IF m[1] \in V3 THEN Reports ELSE {}

CallPlaces == {"start", "made", "added", "withdraw", "withdrawing", "sent", "cancelling",
               "wait", "pass", "check", "take", "taking", "done"}
PassPlaces == {"out", "poll", "read", "call", "again", "made", "added", "called",
               "retry", "resend", "resent", "refused", "expired"}
Failures == {"timeout", "failed", "cancelled", "destroyed"}

TypeOK ==
    /\ pc \in [Requests \union {Poller} -> CallPlaces]
    /\ try \in [Requests -> 0 .. 2]
    /\ queue \subseteq Messages /\ locked \subseteq queue
    /\ retry \in [Messages -> 0 .. Retries]
    /\ got \in [Messages -> Replies \union Reports \union {"none"}]
    /\ freed \in [Messages -> Nat]
    /\ due \subseteq Messages
    /\ pass \in Threads \union {None} /\ ppc \in PassPlaces
    /\ pass = None <=> ppc = "out"
    /\ IF ppc \in {"out", "poll", "read", "retry"} THEN cur = None ELSE cur \in Messages
    /\ late \subseteq Messages /\ arrived \subseteq Messages
    /\ underway \in [Messages -> 0 .. Copies]
    /\ socket \subseteq Messages
    /\ replied \subseteq Requests
    /\ result \in [Requests -> Failures \union {"none", "answered"}]
    /\ calls \in [Requests -> Nat]
    /\ strayed \in BOOLEAN
    /\ dpc \in {"live", "join", "delete", "gone"}

Init ==
    /\ pc = [r \in Requests \union {Poller} |-> IF r = Poller THEN "wait" ELSE "start"]
    /\ try = [r \in Requests |-> 0]
    /\ queue = {} /\ locked = {} /\ due = {}
    /\ retry = [m \in Messages |-> 0]
    /\ got = [m \in Messages |-> "none"]
    /\ freed = [m \in Messages |-> 0]
    /\ pass = None /\ ppc = "out" /\ cur = None
    /\ late = {} /\ arrived = {}
    /\ underway = [m \in Messages |-> 0]
    /\ socket = {} /\ replied = {}
    /\ result = [r \in Requests |-> "none"]
    /\ calls = [r \in Requests |-> 0]
    /\ strayed = FALSE /\ dpc = "live"

Goto(t, place) == pc' = [pc EXCEPT ![t] = place]

\* The message that request r waits for.
Current(r) == <<r, try[r]>>

\* What GetEntry and DeleteEntry find: whatever has the id.
Found(m) == {x \in queue : Id[x] = Id[m]}

\* deleteV3Callback, if the message has a V3CallBackData
Free(m) == freed' = IF m[1] \in V3 \intersect Askers THEN [freed EXCEPT ![m] = @ + 1] ELSE freed

EndRequest(r, how) == result' = [result EXCEPT ![r] = how]

-----------------------------------------------------------------------------
(* Snmp::snmp_engine *)

\* No message in the queue has the id.
MyMakeReqId(m) == Found(m) = {}

AddEntry(m) ==
    /\ queue' = queue \union {m}
    /\ retry' = [retry EXCEPT ![m] = Retries]

\* The message is deleted.
Remove(m) ==
    /\ queue' = queue \ {m}
    /\ due' = due \ {m}
    /\ retry' = [retry EXCEPT ![m] = 0]
    /\ got' = [got EXCEPT ![m] = "none"]

\* sendto succeeds: the datagram is lost, or the agent answers once or more.
Transmit(m) ==
    \E n \in underway[m] .. Copies : underway' = [underway EXCEPT ![m] = n]

Make(r) ==
    /\ pc[r] = "start" /\ dpc = "live"
    /\ MyMakeReqId(Current(r))
    /\ Goto(r, "made")
    /\ UNCHANGED <<try, userVars, listVars, due, passVars, netVars, strayed, dpc>>

Add(r) ==
    /\ pc[r] = "made"
    /\ AddEntry(Current(r))
    /\ Goto(r, "added")
    /\ UNCHANGED <<try, userVars, locked, got, freed, due, passVars, netVars, strayed, dpc>>

Send(r) ==
    /\ pc[r] = "added"
    /\ Transmit(Current(r))
    /\ Goto(r, IF r \in Callers THEN "wait" ELSE "sent")
    /\ UNCHANGED <<try, userVars, listVars, due, passVars, socket, replied, strayed, dpc>>

SendFails(r) ==
    /\ pc[r] = "added" /\ Current(r) \in Failing
    /\ Goto(r, "withdraw")
    /\ UNCHANGED <<try, userVars, listVars, due, passVars, netVars, strayed, dpc>>

-----------------------------------------------------------------------------
(* CSNMPMessageQueue::DeleteEntry *)

\* A walk that meets its message locked lets go of the queue for a moment and
\* goes on from there.
Spin(r, m, place) ==
    /\ Found(m) \intersect locked # {}
    /\ Goto(r, place)
    /\ UNCHANGED <<try, userVars, listVars, due, passVars, netVars, strayed, dpc>>

\* Mutant of DeleteEntry: it does not look whether the message is locked.
DeleteLocked(r, m, place) ==
    /\ IF Found(m) = {} THEN UNCHANGED <<queue, due, retry, got>> ELSE \E x \in Found(m) : Remove(x)
    /\ UNCHANGED <<locked, passVars, netVars, strayed, dpc>>

\* It ends when the message is not locked, or not there any more.
DeleteEntry(r, m, place) ==
    /\ Found(m) \intersect locked = {}
    /\ IF Found(m) = {} THEN UNCHANGED <<queue, due, retry, got>> ELSE \E x \in Found(m) : Remove(x)
    /\ strayed' = (strayed \/ (pc[r] = place /\ Found(m) = {}))
    /\ UNCHANGED <<locked, passVars, netVars, dpc>>

\* Mutant of Cancel: it reports success for a message that is gone.
CancelGone(r) ==
    /\ r \in Cancelled /\ pc[r] \in {"sent", "cancelling"} /\ dpc = "live"
    /\ DeleteEntry(r, <<r, 0>>, "cancelling")
    /\ Goto(r, "done")
    /\ EndRequest(r, "cancelled")
    /\ UNCHANGED <<try, calls, freed>>

\* Snmp::cancel, with the id of the first message, the only one a caller knows
Cancel(r) ==
    /\ r \in Cancelled /\ pc[r] \in {"sent", "cancelling"} /\ dpc = "live"
    /\ \/ Spin(r, <<r, 0>>, "cancelling")
       \/ /\ DeleteEntry(r, <<r, 0>>, "cancelling")
          /\ Goto(r, "done")
          /\ IF Found(<<r, 0>>) # {} THEN EndRequest(r, "cancelled") ELSE UNCHANGED result
          /\ UNCHANGED <<try, calls, freed>>

\* The end of snmp_engine when the socket has refused the message.
Withdraw(r) ==
    /\ pc[r] \in {"withdraw", "withdrawing"}
    /\ \/ Spin(r, Current(r), "withdrawing")
       \/ /\ DeleteEntry(r, Current(r), "withdrawing")
          /\ Free(Current(r))
          /\ Goto(r, "done")
          /\ EndRequest(r, "failed")
          /\ UNCHANGED <<try, calls>>

-----------------------------------------------------------------------------
(* EventListHolder::SNMPBlockForResponse *)

\* Mutant of Check: a message that is not in the queue is not done.
CheckReceived(r) ==
    /\ pc[r] = "check"
    /\ Goto(r, IF \E m \in Found(Current(r)) : got[m] # "none" THEN "take" ELSE "wait")
    /\ UNCHANGED <<try, userVars, listVars, due, passVars, netVars, strayed, dpc>>

\* Done
Check(r) ==
    /\ pc[r] = "check"
    /\ Goto(r, IF \E m \in Found(Current(r)) : got[m] = "none" THEN "wait" ELSE "take")
    /\ UNCHANGED <<try, userVars, listVars, due, passVars, netVars, strayed, dpc>>

\* What snmp_engine makes of a report: the message that comes next.
NextTries(r, kind) ==
    CASE kind = "engine" /\ try[r] = 0 -> {1}
      [] kind = "window" /\ try[r] < 2 -> {2}
      [] OTHER -> {}

TimedOut(r) ==
    /\ Found(Current(r)) = {}
    /\ EndRequest(r, "timeout")
    /\ Goto(r, "done")
    /\ UNCHANGED try

Taken(r, kind) ==
    \/ /\ \E k \in NextTries(r, kind) : try' = [try EXCEPT ![r] = k]
       /\ Goto(r, "start")
       /\ UNCHANGED result
    \/ /\ NextTries(r, kind) = {}
       /\ EndRequest(r, "answered")
       /\ Goto(r, "done")
       /\ UNCHANGED try

Take(r) ==
    /\ pc[r] \in {"take", "taking"}
    /\ \/ Spin(r, Current(r), "taking")
       \/ /\ DeleteEntry(r, Current(r), "taking")
          /\ TimedOut(r) \/ \E m \in Found(Current(r)) : Taken(r, got[m])
          /\ UNCHANGED <<calls, freed>>

-----------------------------------------------------------------------------
(* EventListHolder::SNMPProcessPendingEvents *)

Enter(t) ==
    /\ pc[t] = "wait" /\ pass = None
    /\ t = Poller => dpc = "live"
    /\ Goto(t, "pass")
    /\ pass' = t /\ ppc' = "poll"
    /\ arrived' = socket \intersect queue
    /\ UNCHANGED <<try, userVars, listVars, due, cur, late, netVars, strayed, dpc>>

\* Mutant of Poll: a pass that found something does not look again.
PollOnce ==
    /\ ppc = "poll"
    /\ \E place \in {"read", "retry"} : ppc' = place /\ (place = "read" => queue # {} /\ socket # {})
    /\ late' = due
    /\ UNCHANGED <<pc, try, userVars, listVars, due, pass, cur, arrived, netVars, strayed, dpc>>

\* poll() looks at the socket only while there is a message in the queue.  The
\* clock is read when it finds nothing.
Poll ==
    /\ ppc = "poll"
    /\ IF queue # {} /\ socket # {}
       THEN ppc' = "read" /\ UNCHANGED late
       ELSE ppc' = "retry" /\ late' = due
    /\ UNCHANGED <<pc, try, userVars, listVars, due, pass, cur, arrived, netVars, strayed, dpc>>

\* The queue has become empty since poll().
NothingLeft ==
    /\ ppc = "read" /\ queue = {}
    /\ ppc' = "poll"
    /\ UNCHANGED <<pc, try, userVars, listVars, due, pass, cur, late, arrived, netVars, strayed, dpc>>

\* HandleEvents reads an answer d without a message in the queue ...
Ignore(d) ==
    /\ ppc = "read" /\ queue # {} /\ Found(d) = {}
    /\ socket' = socket \ {d}
    /\ ppc' = "poll"
    /\ UNCHANGED <<pc, try, userVars, listVars, due, pass, cur, late, arrived, underway, replied,
                   strayed, dpc>>

\* SetPdu: a second answer counts only if it is good and the first was not.
Accept(m, kind) ==
    got' = IF got[m] = "none" \/ (got[m] = "error" /\ kind # "error")
           THEN [got EXCEPT ![m] = kind] ELSE got

\* ... or with one, which a callback then waits for or not.
Receive(d, m) ==
    /\ ppc = "read" /\ m \in Found(d) \ locked
    /\ socket' = socket \ {d}
    /\ \E kind \in Kinds(d) : Accept(m, kind)
    /\ IF m[1] \in Askers
       THEN locked' = locked \union {m} /\ cur' = m /\ ppc' = "call"
       ELSE ppc' = "poll" /\ UNCHANGED <<locked, cur>>
    /\ UNCHANGED <<pc, try, userVars, queue, retry, freed, due, pass, late, arrived, underway, replied,
                   strayed, dpc>>

CallUser(r, how) ==
    /\ calls' = [calls EXCEPT ![r] = @ + 1]
    /\ EndRequest(r, how)

\* The message that the callback has snmp_engine send, v3CallBack's
\* reports_received being k.
Again == <<cur[1], cur[2] + 1>>

Hidden(m) ==
    \/ got[m] = "engine" /\ m[2] = 0
    \/ got[m] = "window" /\ m[2] <= 1

Callback ==
    /\ ppc = "call"
    /\ IF Hidden(cur)
       THEN ppc' = "again" /\ UNCHANGED <<userVars, freed>>
       ELSE ppc' = "called" /\ CallUser(cur[1], "answered") /\ Free(cur)
    /\ UNCHANGED <<pc, try, queue, locked, retry, got, due, pass, cur, late, arrived, netVars, strayed, dpc>>

MakeAgain ==
    /\ ppc = "again"
    /\ MyMakeReqId(Again)
    /\ ppc' = "made"
    /\ UNCHANGED <<pc, try, userVars, listVars, due, pass, cur, late, arrived, netVars, strayed, dpc>>

AddAgain ==
    /\ ppc = "made"
    /\ AddEntry(Again)
    /\ ppc' = "added"
    /\ UNCHANGED <<pc, try, userVars, locked, got, freed, due, pass, cur, late, arrived, netVars,
                   strayed, dpc>>

SendAgain ==
    /\ ppc = "added"
    /\ Transmit(Again)
    /\ Free(cur)
    /\ ppc' = "called"
    /\ UNCHANGED <<pc, try, userVars, queue, locked, retry, got, due, pass, cur, late, arrived, socket,
                   replied, strayed, dpc>>

\* The socket refuses the message: its data goes too, and the user is told.
SendAgainFails ==
    /\ ppc = "added" /\ Again \in Failing
    /\ Remove(Again)
    /\ freed' = [freed EXCEPT ![Again] = @ + 1, ![cur] = @ + 1]
    /\ CallUser(cur[1], "failed")
    /\ ppc' = "called"
    /\ UNCHANGED <<pc, try, locked, pass, cur, late, arrived, netVars, strayed, dpc>>

\* Mutant of Called: the message stays in the queue.
CalledKept ==
    /\ ppc = "called"
    /\ locked' = locked \ {cur}
    /\ ppc' = "poll" /\ cur' = None
    /\ UNCHANGED <<pc, try, userVars, queue, retry, got, freed, due, pass, late, arrived, netVars, strayed, dpc>>

\* The callback has been made: the message goes.
Called ==
    /\ ppc = "called"
    /\ locked' = locked \ {cur} /\ Remove(cur)
    /\ ppc' = "poll" /\ cur' = None
    /\ UNCHANGED <<pc, try, userVars, freed, pass, late, arrived, netVars, strayed, dpc>>

-----------------------------------------------------------------------------
(* CSNMPMessageQueue::DoRetries *)

Retry(m) ==
    /\ ppc = "retry" /\ m \in (late \intersect queue) \ locked
    /\ locked' = locked \union {m}
    /\ cur' = m /\ ppc' = "resend"
    /\ UNCHANGED <<pc, try, userVars, queue, retry, got, freed, due, pass, late, arrived, netVars,
                   strayed, dpc>>

\* SetSendTime
Postponed(m) == due' = due \ {m} /\ late' = late \ {m}

\* ResendMessage: nothing to do for an answer that is waiting for its caller
Received ==
    /\ ppc = "resend" /\ got[cur] # "none"
    /\ Postponed(cur)
    /\ ppc' = "resent"
    /\ UNCHANGED <<pc, try, userVars, listVars, pass, cur, arrived, netVars, strayed, dpc>>

Expire ==
    /\ ppc = "resend" /\ got[cur] = "none" /\ retry[cur] = 0
    /\ IF cur[1] \in Askers
       THEN CallUser(cur[1], "timeout") /\ Free(cur)
       ELSE UNCHANGED <<userVars, freed>>
    /\ ppc' = "expired"
    /\ UNCHANGED <<pc, try, queue, locked, retry, got, due, pass, cur, late, arrived, netVars, strayed, dpc>>

Resend ==
    /\ ppc = "resend" /\ got[cur] = "none" /\ retry[cur] > 0
    /\ retry' = [retry EXCEPT ![cur] = @ - 1]
    /\ Postponed(cur)
    /\ \/ Transmit(cur) /\ ppc' = "resent"
       \/ cur \in Failing /\ ppc' = "refused" /\ UNCHANGED underway
    /\ UNCHANGED <<pc, try, userVars, queue, locked, got, freed, pass, cur, arrived, socket, replied,
                   strayed, dpc>>

\* The pass ends: the thread goes its way.
Exit ==
    /\ pass' = None /\ ppc' = "out" /\ late' = {} /\ arrived' = {}
    /\ Goto(pass, IF pass = Poller THEN "wait" ELSE "check")

Resent ==
    /\ ppc = "resent"
    /\ locked' = locked \ {cur}
    /\ ppc' = "retry" /\ cur' = None
    /\ UNCHANGED <<pc, try, userVars, queue, retry, got, freed, due, pass, late, arrived, netVars,
                   strayed, dpc>>

\* A send that fails ends the pass, whatever else is due.
Refused ==
    /\ ppc = "refused"
    /\ locked' = locked \ {cur} /\ cur' = None
    /\ Exit
    /\ UNCHANGED <<try, userVars, queue, retry, got, freed, due, netVars, strayed, dpc>>

Expired ==
    /\ ppc = "expired"
    /\ locked' = locked \ {cur} /\ Remove(cur)
    /\ ppc' = "retry" /\ cur' = None
    /\ UNCHANGED <<pc, try, userVars, freed, pass, late, arrived, netVars, strayed, dpc>>

NothingDue ==
    /\ ppc = "retry" /\ late \intersect queue = {}
    /\ Exit
    /\ UNCHANGED <<try, userVars, listVars, due, cur, netVars, strayed, dpc>>

-----------------------------------------------------------------------------
(* The network and the clock *)

Arrive(m) ==
    /\ underway[m] > 0
    /\ underway' = [underway EXCEPT ![m] = @ - 1]
    /\ socket' = socket \union {m}
    /\ replied' = replied \union {m[1]}
    /\ UNCHANGED <<pc, try, userVars, listVars, due, passVars, strayed, dpc>>

Tick(m) ==
    /\ m \in queue \ due
    /\ due' = due \union {m}
    /\ UNCHANGED <<pc, try, userVars, listVars, passVars, netVars, strayed, dpc>>

-----------------------------------------------------------------------------
(* ~Snmp, when no call is under way *)

StopPollThread ==
    /\ dpc = "live" /\ \A r \in Requests : pc[r] \in {"sent", "done"}
    /\ dpc' = "join"
    /\ UNCHANGED <<pc, try, userVars, listVars, due, passVars, netVars, strayed>>

\* The poll thread is between two passes, and has seen that it is to stop.
Join ==
    /\ dpc = "join" /\ pass = None
    /\ dpc' = "delete"
    /\ UNCHANGED <<pc, try, userVars, listVars, due, passVars, netVars, strayed>>

\* DeleteSocketEntry, which keeps the queue locked all the time
DestroyNext(m) ==
    /\ dpc = "delete" /\ m \in queue \ locked
    /\ IF m[1] \in Askers
       THEN CallUser(m[1], "destroyed") /\ Free(m)
       ELSE UNCHANGED <<userVars, freed>>
    /\ Remove(m)
    /\ UNCHANGED <<pc, try, locked, passVars, netVars, strayed, dpc>>

Destroyed ==
    /\ dpc = "delete" /\ queue = {}
    /\ dpc' = "gone"
    /\ UNCHANGED <<pc, try, userVars, listVars, due, passVars, netVars, strayed>>

Gone == dpc = "gone" /\ UNCHANGED vars

-----------------------------------------------------------------------------

CallStep(r) == Make(r) \/ Add(r) \/ Send(r) \/ SendFails(r) \/ Cancel(r) \/ Withdraw(r) \/ Check(r) \/ Take(r)

ReadStep ==
    \/ Poll \/ NothingLeft
    \/ \E d \in socket : Ignore(d) \/ \E m \in queue : Receive(d, m)
    \/ Callback \/ MakeAgain \/ AddAgain \/ SendAgain \/ SendAgainFails \/ Called

RetryStep ==
    \/ \E m \in late : Retry(m)
    \/ Received \/ Expire \/ Resend \/ Resent \/ Refused \/ Expired \/ NothingDue

DestroyStep == StopPollThread \/ Join \/ (\E m \in queue : DestroyNext(m)) \/ Destroyed

Next ==
    \/ \E r \in Requests : CallStep(r)
    \/ \E t \in Threads : Enter(t)
    \/ ReadStep \/ RetryStep
    \/ \E m \in Messages : Arrive(m) \/ Tick(m)
    \/ DestroyStep \/ Gone

Spec == Init /\ [][Next]_vars

\* Threads do not stop and each gets its turn of pevents_mutex, the clock goes
\* on; the network owes nothing, and nobody has to cancel or to destroy.
FairSpec ==
    /\ Spec
    /\ \A r \in Callers : SF_vars(CallStep(r) \/ Enter(r))
    /\ \A r \in Askers : WF_vars(Make(r) \/ Add(r) \/ Send(r) \/ SendFails(r) \/ Withdraw(r))
    /\ SF_vars(Enter(Poller))
    /\ WF_vars(ReadStep \/ RetryStep)
    /\ \A m \in Messages : WF_vars(Tick(m))
    /\ WF_vars(Join \/ (\E m \in queue : DestroyNext(m)) \/ Destroyed)

-----------------------------------------------------------------------------
(* Properties *)

\* No user's callback is called twice, nor after cancel has reported success:
\* whatever a walk, a retry and an answer do with the message meanwhile.
CallbackOnce ==
    \A r \in Askers : calls[r] <= 1 /\ (calls[r] = 1 => result[r] # "cancelled")

\* The data of an SNMPv3 callback is deleted once, by the callback or by the
\* caller that could not send.
FreedOnce == \A m \in Messages : freed[m] <= 1

\* A request is not given up in a pass that began with its answer in the socket.
AnswerBeatsTimeout ==
    [][ppc # "expired" /\ ppc' = "expired" => cur \notin arrived]_vars

\* The session keeps what Exchange promises: with its losses, copies, reports
\* and retries, a request ends once, and as answered only if it was.
Promise == INSTANCE Exchange WITH Clients <- Requests

ImplementsExchange == Promise!Spec

\* A request ends, even if nothing ever arrives: whatever the other threads
\* keep from it, and however often an SNMPv3 agent answers with a report.
RequestsEnd == \A r \in Requests : pc[r] = "made" ~> result[r] # "none"

\* No walk goes on from an element that another thread has deleted.
WalkStays == ~strayed
=============================================================================
