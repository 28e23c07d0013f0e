-------------------------- MODULE MessageQueueProofs --------------------------
(***************************************************************************)
(* Theorems about MessageQueue for every number of requests, retries and   *)
(* answers: its types, that no user is called back twice or after a cancel *)
(* that succeeded, that no answer in the socket is given up, that callback *)
(* data is deleted once, and that a session implements Exchange.           *)
(***************************************************************************)
EXTENDS MessageQueue, TLAPS

\* No two messages are given the same id.
IdsDiffer == \A m, n \in Messages : Id[m] = Id[n] => m = n

\* The socket takes the first message of every asynchronous request.
FirstSent == Failing \intersect (Askers \X {0}) = {}

-----------------------------------------------------------------------------
(* Types *)

Calling == {"call", "again", "made", "added", "called"}
Asking == {"again", "made", "added"}

\* Only the thread of the pass locks a message, one at a time; and the message
\* that a callback has sent again exists.
Shape ==
    /\ locked = IF cur = None THEN {} ELSE {cur}
    /\ ppc \in Calling => cur[1] \in Askers
    /\ ppc \in Asking => cur[2] \in 0 .. 1

Typed == TypeOK /\ Shape

LEMMA CurrentMessage ==
    ASSUME TypeOK, NEW r \in Requests
    PROVE  Current(r) \in Messages /\ Current(r)[1] = r /\ <<r, 0>> \in Messages
  BY DEF TypeOK, Current, Messages

LEMMA AgainMessage ==
    ASSUME TypeOK, Shape, ppc \in Asking
    PROVE  Again \in Messages /\ Again # cur /\ cur \in Messages /\ Again[1] = cur[1] /\ Again[2] = cur[2] + 1
  <1>1. cur \in Messages /\ cur[2] \in 0 .. 1
    BY DEF TypeOK, Shape, Asking
  <1>2. PICK r \in Requests, k \in 0 .. 2 : cur = <<r, k>>
    BY <1>1 DEF Messages
  <1> QED BY <1>1, <1>2 DEF Again, Messages

LEMMA TypedInit == Init => Typed
  <1> SUFFICES ASSUME Init PROVE Typed
    OBVIOUS
  <1>1. Shape
    BY DEF Init, Shape, Calling, Asking
  <1>2. /\ pc \in [Requests \union {Poller} -> CallPlaces]
        /\ retry \in [Messages -> 0 .. Retries] /\ underway \in [Messages -> 0 .. Copies]
    BY MessageQueueAssumption DEF Init, CallPlaces
  <1>3. /\ got \in [Messages -> Replies \union Reports \union {"none"}] /\ freed \in [Messages -> Nat]
        /\ result \in [Requests -> Failures \union {"none", "answered"}] /\ calls \in [Requests -> Nat]
        /\ try \in [Requests -> 0 .. 2]
    BY DEF Init
  <1>4. TypeOK
    BY <1>2, <1>3 DEF Init, TypeOK, PassPlaces
  <1> QED BY <1>1, <1>4 DEF Typed

LEMMA RemoveTyped ==
    ASSUME TypeOK, NEW m, Remove(m)
    PROVE  /\ queue' \subseteq Messages /\ due' \subseteq Messages
           /\ retry' \in [Messages -> 0 .. Retries]
           /\ got' \in [Messages -> Replies \union Reports \union {"none"}]
  <1>1. 0 \in 0 .. Retries
    BY MessageQueueAssumption
  <1>2. queue' \subseteq Messages /\ due' \subseteq Messages /\ retry' \in [Messages -> 0 .. Retries]
    BY <1>1 DEF TypeOK, Remove
  <1>3. got' \in [Messages -> Replies \union Reports \union {"none"}]
    BY DEF TypeOK, Remove
  <1> QED BY <1>2, <1>3

LEMMA DeleteTyped ==
    ASSUME Typed, NEW r \in Requests, NEW m \in Messages, NEW place, DeleteEntry(r, m, place)
    PROVE  /\ queue' \subseteq Messages /\ locked' \subseteq queue' /\ due' \subseteq Messages
           /\ retry' \in [Messages -> 0 .. Retries]
           /\ got' \in [Messages -> Replies \union Reports \union {"none"}]
           /\ strayed' \in BOOLEAN
           /\ UNCHANGED <<locked, passVars, netVars, dpc>>
  <1>1. CASE Found(m) = {}
    BY <1>1 DEF Typed, TypeOK, DeleteEntry
  <1>2. CASE Found(m) # {}
    <2>1. PICK x \in Found(m) : Remove(x) /\ x \notin locked
      BY <1>2 DEF DeleteEntry
    <2> QED BY <2>1, RemoveTyped DEF Typed, TypeOK, DeleteEntry, Remove
  <1> QED BY <1>1, <1>2

LEMMA CallTyped ==
    ASSUME Typed, NEW r \in Requests, CallStep(r)
    PROVE  Typed'
  <1> USE MessageQueueAssumption
  <1>c. Current(r) \in Messages /\ <<r, 0>> \in Messages
    BY CurrentMessage DEF Typed
  <1>1. CASE Make(r) \/ SendFails(r) \/ Check(r)
    BY <1>1 DEF Typed, TypeOK, Shape, Make, SendFails, Check, Goto, CallPlaces, userVars, listVars, passVars, netVars
  <1>2. CASE Add(r)
    BY <1>2, <1>c DEF Typed, TypeOK, Shape, Add, AddEntry, Goto, CallPlaces, userVars, passVars, netVars
  <1>3. CASE Send(r)
    <2>1. underway' \in [Messages -> 0 .. Copies]
      BY <1>3, <1>c DEF Typed, TypeOK, Send, Transmit
    <2> QED BY <1>3, <2>1 DEF Typed, TypeOK, Shape, Send, Goto, CallPlaces, userVars, listVars, passVars
  <1>4. ASSUME NEW m, NEW place \in CallPlaces, Spin(r, m, place) PROVE Typed'
    BY <1>4 DEF Typed, TypeOK, Shape, Spin, Goto, userVars, listVars, passVars, netVars
  <1>5. CASE Cancel(r)
    <2>1. ASSUME DeleteEntry(r, <<r, 0>>, "cancelling"), Goto(r, "done"),
                 IF Found(<<r, 0>>) # {} THEN EndRequest(r, "cancelled") ELSE UNCHANGED result,
                 UNCHANGED <<try, calls, freed>>
          PROVE  Typed'
      <3>1. pc' \in [Requests \union {Poller} -> CallPlaces]
        BY <2>1 DEF Typed, TypeOK, Goto, CallPlaces
      <3>2. result' \in [Requests -> Failures \union {"none", "answered"}]
        BY <2>1 DEF Typed, TypeOK, EndRequest, Failures
      <3> QED BY <1>c, <2>1, <3>1, <3>2, DeleteTyped DEF Typed, TypeOK, Shape, passVars, netVars
    <2> QED BY <1>4, <1>5, <2>1 DEF Cancel, CallPlaces
  <1>6. CASE Withdraw(r)
    <2>1. ASSUME DeleteEntry(r, Current(r), "withdrawing"), Free(Current(r)), Goto(r, "done"),
                 EndRequest(r, "failed"), UNCHANGED <<try, calls>>
          PROVE  Typed'
      <3>1. pc' \in [Requests \union {Poller} -> CallPlaces]
        BY <2>1 DEF Typed, TypeOK, Goto, CallPlaces
      <3>2. /\ result' \in [Requests -> Failures \union {"none", "answered"}]
            /\ freed' \in [Messages -> Nat]
        BY <1>c, <2>1 DEF Typed, TypeOK, EndRequest, Failures, Free
      <3> QED BY <1>c, <2>1, <3>1, <3>2, DeleteTyped DEF Typed, TypeOK, Shape, passVars, netVars
    <2> QED BY <1>4, <1>6, <2>1 DEF Withdraw, CallPlaces
  <1>7. CASE Take(r)
    <2>1. ASSUME DeleteEntry(r, Current(r), "taking"), UNCHANGED <<calls, freed>>,
                 TimedOut(r) \/ \E m \in Found(Current(r)) : Taken(r, got[m])
          PROVE  Typed'
      <3>1. /\ pc' \in [Requests \union {Poller} -> CallPlaces]
            /\ result' \in [Requests -> Failures \union {"none", "answered"}]
            /\ try' \in [Requests -> 0 .. 2]
        <4>1. CASE TimedOut(r)
          BY <4>1 DEF Typed, TypeOK, TimedOut, EndRequest, Goto, CallPlaces, Failures
        <4>2. ASSUME NEW kind, Taken(r, kind)
              PROVE  /\ pc' \in [Requests \union {Poller} -> CallPlaces]
                     /\ result' \in [Requests -> Failures \union {"none", "answered"}]
                     /\ try' \in [Requests -> 0 .. 2]
          <5>1. NextTries(r, kind) \subseteq 0 .. 2
            BY DEF NextTries
          <5> QED BY <4>2, <5>1 DEF Typed, TypeOK, Taken, EndRequest, Goto, CallPlaces
        <4> QED BY <2>1, <4>1, <4>2
      <3> QED BY <1>c, <2>1, <3>1, DeleteTyped DEF Typed, TypeOK, Shape, passVars, netVars
    <2> QED BY <1>4, <1>7, <2>1 DEF Take, CallPlaces
  <1> QED BY <1>1, <1>2, <1>3, <1>5, <1>6, <1>7 DEF CallStep

LEMMA ReadTyped ==
    ASSUME Typed, ReadStep
    PROVE  Typed'
  <1> USE MessageQueueAssumption DEF Calling, Asking
  <1>1. CASE Poll \/ NothingLeft
    BY <1>1 DEF Typed, TypeOK, Shape, Poll, NothingLeft, PassPlaces, userVars, listVars, netVars
  <1>2. ASSUME NEW d \in socket, Ignore(d) PROVE Typed'
    BY <1>2 DEF Typed, TypeOK, Shape, Ignore, PassPlaces, userVars, listVars
  <1>3. ASSUME NEW d \in socket, NEW m \in queue, Receive(d, m) PROVE Typed'
    <2>1. PICK kind \in Kinds(d) : Accept(m, kind)
      BY <1>3 DEF Receive
    <2>2. got' \in [Messages -> Replies \union Reports \union {"none"}]
      BY <2>1 DEF Typed, TypeOK, Accept, Kinds
    <2>3. m \in Messages /\ m # None
      BY DEF Typed, TypeOK
    <2> QED BY <1>3, <2>2, <2>3 DEF Typed, TypeOK, Shape, Receive, PassPlaces, userVars
  <1>4. CASE Callback
    <2>1. cur \in Messages /\ cur[1] \in Requests
      BY <1>4 DEF Typed, TypeOK, Callback, Messages
    <2>2. /\ calls' \in [Requests -> Nat]
          /\ result' \in [Requests -> Failures \union {"none", "answered"}]
          /\ freed' \in [Messages -> Nat]
      BY <1>4, <2>1 DEF Typed, TypeOK, Callback, CallUser, EndRequest, Free, userVars
    <2>3. Hidden(cur) => cur[2] \in 0 .. 1
      BY <2>1 DEF Hidden, Messages
    <2> QED BY <1>4, <2>1, <2>2, <2>3 DEF Typed, TypeOK, Shape, Callback, PassPlaces, netVars
  <1>5. CASE MakeAgain
    BY <1>5 DEF Typed, TypeOK, Shape, MakeAgain, PassPlaces, userVars, listVars, netVars
  <1>6. CASE AddAgain
    <2>1. Again \in Messages
      BY <1>6, AgainMessage DEF Typed, AddAgain
    <2> QED BY <1>6, <2>1 DEF Typed, TypeOK, Shape, AddAgain, AddEntry, PassPlaces, userVars, netVars
  <1>7. CASE SendAgain
    <2>1. Again \in Messages /\ cur \in Messages
      BY <1>7, AgainMessage DEF Typed, SendAgain
    <2>2. underway' \in [Messages -> 0 .. Copies] /\ freed' \in [Messages -> Nat]
      BY <1>7, <2>1 DEF Typed, TypeOK, SendAgain, Transmit, Free
    <2> QED BY <1>7, <2>1, <2>2 DEF Typed, TypeOK, Shape, SendAgain, PassPlaces, userVars
  <1>8. CASE SendAgainFails
    <2>1. Again \in Messages /\ cur \in Messages /\ Again # cur /\ cur[1] \in Requests
      BY <1>8, AgainMessage DEF Typed, SendAgainFails, Messages
    <2>2. /\ calls' \in [Requests -> Nat]
          /\ result' \in [Requests -> Failures \union {"none", "answered"}]
      BY <1>8, <2>1 DEF Typed, TypeOK, SendAgainFails, CallUser, EndRequest, Failures
    <2>3. freed' \in [Messages -> Nat]
      BY <1>8, <2>1 DEF Typed, TypeOK, SendAgainFails
    <2>4. Remove(Again)
      BY <1>8 DEF SendAgainFails
    <2>5. locked' \subseteq queue'
      BY <1>8, <2>1, <2>4 DEF Typed, TypeOK, Shape, SendAgainFails, Remove
    <2> QED BY <1>8, <2>1, <2>2, <2>3, <2>4, <2>5, RemoveTyped
            DEF Typed, TypeOK, Shape, SendAgainFails, PassPlaces, netVars
  <1>9. CASE Called
    <2>1. Remove(cur) /\ locked' \subseteq queue'
      BY <1>9 DEF Typed, TypeOK, Called, Remove
    <2> QED BY <1>9, <2>1, RemoveTyped DEF Typed, TypeOK, Shape, Called, PassPlaces, userVars, netVars
  <1> QED BY <1>1, <1>2, <1>3, <1>4, <1>5, <1>6, <1>7, <1>8, <1>9 DEF ReadStep

LEMMA RetryTyped ==
    ASSUME Typed, RetryStep
    PROVE  Typed'
  <1> USE MessageQueueAssumption DEF Calling, Asking
  <1>1. ASSUME NEW m \in late, Retry(m) PROVE Typed'
    <2>1. m \in Messages /\ m # None
      BY DEF Typed, TypeOK
    <2> QED BY <1>1, <2>1 DEF Typed, TypeOK, Shape, Retry, PassPlaces, userVars, netVars
  <1>2. CASE Received
    BY <1>2 DEF Typed, TypeOK, Shape, Received, Postponed, PassPlaces, userVars, listVars, netVars
  <1>3. CASE Expire
    <2>1. cur \in Messages /\ cur[1] \in Requests
      BY <1>3 DEF Typed, TypeOK, Expire, Messages
    <2>2. /\ calls' \in [Requests -> Nat]
          /\ result' \in [Requests -> Failures \union {"none", "answered"}]
          /\ freed' \in [Messages -> Nat]
      BY <1>3, <2>1 DEF Typed, TypeOK, Expire, CallUser, EndRequest, Free, userVars, Failures
    <2> QED BY <1>3, <2>1, <2>2 DEF Typed, TypeOK, Shape, Expire, PassPlaces, netVars
  <1>4. CASE Resend
    <2>1. cur \in Messages
      BY <1>4 DEF Typed, TypeOK, Resend
    <2>2. underway' \in [Messages -> 0 .. Copies] /\ retry' \in [Messages -> 0 .. Retries]
      BY <1>4, <2>1 DEF Typed, TypeOK, Resend, Transmit
    <2>3. pass # None /\ ppc' \in {"resent", "refused"}
      BY <1>4 DEF Typed, TypeOK, Resend
    <2> QED BY <1>4, <2>1, <2>2, <2>3 DEF Typed, TypeOK, Shape, Resend, Postponed, PassPlaces, userVars
  <1>5. CASE Resent
    BY <1>5 DEF Typed, TypeOK, Shape, Resent, PassPlaces, userVars, netVars
  <1>6. CASE Refused \/ NothingDue
    <2>1. pc' \in [Requests \union {Poller} -> CallPlaces]
      BY <1>6 DEF Typed, TypeOK, Refused, NothingDue, Exit, Goto, CallPlaces
    <2> QED BY <1>6, <2>1 DEF Typed, TypeOK, Shape, Refused, NothingDue, Exit, PassPlaces, userVars, listVars, netVars
  <1>7. CASE Expired
    <2>1. Remove(cur) /\ locked' \subseteq queue'
      BY <1>7 DEF Typed, TypeOK, Expired, Remove
    <2> QED BY <1>7, <2>1, RemoveTyped DEF Typed, TypeOK, Shape, Expired, PassPlaces, userVars, netVars
  <1> QED BY <1>1, <1>2, <1>3, <1>4, <1>5, <1>6, <1>7 DEF RetryStep

LEMMA TypedStep == ASSUME Typed, [Next]_vars PROVE Typed'
  <1> USE MessageQueueAssumption
  <1>1. ASSUME NEW t \in Threads, Enter(t) PROVE Typed'
    <2>1. pc' \in [Requests \union {Poller} -> CallPlaces]
      BY <1>1 DEF Typed, TypeOK, Enter, Goto, CallPlaces
    <2> QED BY <1>1, <2>1 DEF Typed, TypeOK, Shape, Enter, PassPlaces, Calling, Asking, userVars, listVars, netVars
  <1>2. ASSUME NEW m \in Messages, Arrive(m) PROVE Typed'
    <2>1. underway' \in [Messages -> 0 .. Copies] /\ m[1] \in Requests
      BY <1>2 DEF Typed, TypeOK, Arrive, Messages
    <2> QED BY <1>2, <2>1 DEF Typed, TypeOK, Shape, Arrive, userVars, listVars, passVars
  <1>3. ASSUME NEW m \in Messages, Tick(m) PROVE Typed'
    BY <1>3 DEF Typed, TypeOK, Shape, Tick, userVars, listVars, passVars, netVars
  <1>4. CASE StopPollThread \/ Join \/ Destroyed \/ Gone \/ UNCHANGED vars
    BY <1>4 DEF Typed, TypeOK, Shape, StopPollThread, Join, Destroyed, Gone, vars, userVars, listVars, passVars, netVars
  <1>5. ASSUME NEW m \in queue, DestroyNext(m) PROVE Typed'
    <2>1. m \in Messages /\ m[1] \in Requests
      BY DEF Typed, TypeOK, Messages
    <2>2. /\ calls' \in [Requests -> Nat]
          /\ result' \in [Requests -> Failures \union {"none", "answered"}]
          /\ freed' \in [Messages -> Nat]
      BY <1>5, <2>1 DEF Typed, TypeOK, DestroyNext, CallUser, EndRequest, Free, userVars, Failures
    <2>3. Remove(m) /\ locked' \subseteq queue'
      BY <1>5 DEF Typed, TypeOK, DestroyNext, Remove
    <2> QED BY <1>5, <2>2, <2>3, RemoveTyped DEF Typed, TypeOK, Shape, DestroyNext, passVars, netVars
  <1> QED BY <1>1, <1>2, <1>3, <1>4, <1>5, CallTyped, ReadTyped, RetryTyped DEF Next, DestroyStep

\* The variables keep their types; above all, a message that is locked stays in
\* the queue.
THEOREM TypeCorrect == Spec => []TypeOK
  <1>1. Typed => TypeOK
    BY DEF Typed
  <1> QED BY <1>1, TypedInit, TypedStep, PTL DEF Spec

-----------------------------------------------------------------------------
(* One message for a request *)

Pair(m, n) == m = cur /\ n = Again

\* A request has one message in the queue, and for a moment two while a callback
\* sends it again.
OneEach ==
    /\ \A m, n \in queue : m[1] = n[1] /\ m # n =>
         ppc \in {"added", "called"} /\ (Pair(m, n) \/ Pair(n, m))
    /\ \A m \in queue : pc[m[1]] \notin {"start", "made"}
    /\ \A m \in queue : m[1] \in Callers => m = Current(m[1])

\* Once a callback was called, or cancel has succeeded, only the pass still has
\* the message.
Over(r) == calls[r] = 1 \/ result[r] = "cancelled"

Closed ==
    /\ \A r \in Askers : pc[r] \in {"start", "made"} => calls[r] = 0 /\ result[r] = "none"
    /\ \A m \in queue : m[1] \in Askers /\ Over(m[1]) => m = cur /\ ppc \in {"called", "expired"}
    /\ CallbackOnce

\* Where threads can be.
Placed ==
    /\ \A r \in Askers : try[r] = 0 /\ pc[r] \notin {"wait", "pass", "check", "take", "taking"}
    /\ \A r \in Requests : pass = r => pc[r] = "pass"
    /\ dpc # "live" => \A r \in Requests : pc[r] \in {"sent", "done"}
    /\ dpc \in {"delete", "gone"} => pass = None

Life == OneEach /\ Closed /\ Placed

LEMMA FoundIs ==
    ASSUME IdsDiffer, TypeOK, NEW m \in Messages
    PROVE  Found(m) = {m} \intersect queue
  BY DEF IdsDiffer, TypeOK, Found

LEMMA CurIn ==
    ASSUME Typed, ppc \notin {"out", "poll", "read", "retry"}
    PROVE  /\ cur \in Messages /\ cur \in queue /\ locked = {cur} /\ cur # None
           /\ cur[1] \in Requests
  BY MessageQueueAssumption DEF Typed, TypeOK, Shape, Messages

LEMMA MessageParts ==
    /\ \A m \in Messages : m[1] \in Requests /\ m[2] \in 0 .. 2 /\ m = <<m[1], m[2]>>
    /\ \A m \in Messages : \A n \in Messages : m[1] = n[1] /\ m[2] = n[2] => m = n
  BY DEF Messages

\* The walk of DeleteEntry: it removes the message it looks for, if that is there.
LEMMA WalkLemma ==
    ASSUME IdsDiffer, TypeOK, NEW r, NEW m \in Messages, NEW place, DeleteEntry(r, m, place)
    PROVE  /\ m \in queue => m \notin locked
           /\ queue' = queue \ {m}
           /\ m \notin queue => UNCHANGED <<retry, got, due>>
           /\ m \in queue => Remove(m)
           /\ UNCHANGED <<locked, passVars, netVars, dpc>>
           /\ Found(m) = {} <=> m \notin queue
  BY FoundIs DEF DeleteEntry, Remove

LEMMA PlacedStep == ASSUME Typed, Placed, [Next]_vars PROVE Placed'
  <1> USE MessageQueueAssumption
  <1>0. /\ \A r \in Requests : r # Poller
        /\ \A r \in Callers : r \notin Askers
        /\ pc \in [Requests \union {Poller} -> CallPlaces] /\ try \in [Requests -> 0 .. 2]
    BY DEF Typed, TypeOK
  <1>1. ASSUME NEW r \in Requests, CallStep(r) PROVE Placed'
    <2>1. /\ UNCHANGED <<pass, dpc>> /\ \A s \in Requests : s # r => pc'[s] = pc[s]
          /\ dpc = "live" \/ pc[r] \notin {"sent", "done"}
          /\ pc[r] # "pass"
      BY <1>0, <1>1 DEF CallStep, Make, Add, Send, SendFails, Cancel, Withdraw, Check, Take, Spin, DeleteEntry, TimedOut,
                   Taken, Goto, passVars
    <2>2. r \in Askers => try' = try /\ pc'[r] \notin {"wait", "pass", "check", "take", "taking"}
      BY <1>0, <1>1 DEF Placed, CallStep, Make, Add, Send, SendFails, Cancel, Withdraw, Check, Take, Spin, DeleteEntry,
                   Goto
    <2>3. \A s \in Askers : s # r => try'[s] = try[s]
      BY <1>0, <1>1 DEF CallStep, Make, Add, Send, SendFails, Cancel, Withdraw, Check, Take, Spin, DeleteEntry, TimedOut,
                   Taken, Requests
    <2> QED BY <1>0, <2>1, <2>2, <2>3 DEF Placed, Requests
  <1>2. ASSUME NEW t \in Threads, Enter(t) PROVE Placed'
    <2>1. /\ pass' = t /\ pass = None /\ UNCHANGED <<try, dpc>> /\ pc[t] = "wait" /\ pc' = [pc EXCEPT ![t] = "pass"]
          /\ dpc = "live"
      BY <1>0, <1>2 DEF Enter, Goto, Placed, Threads, Requests
    <2>2. \A r \in Requests : pc'[r] = IF r = t THEN "pass" ELSE pc[r]
      BY <1>0, <2>1
    <2>3. \A r \in Askers : r # t /\ r \in Requests
      BY <1>0 DEF Threads, Requests
    <2>4. \A r \in Requests : pass' = r => pc'[r] = "pass"
      BY <2>1, <2>2
    <2>5. \A r \in Askers : try'[r] = 0 /\ pc'[r] \notin {"wait", "pass", "check", "take", "taking"}
      BY <2>1, <2>2, <2>3 DEF Placed
    <2>6. dpc' = "live"
      BY <2>1
    <2> QED BY <2>4, <2>5, <2>6 DEF Placed
  <1>3. CASE ReadStep
    BY <1>3 DEF Placed, ReadStep, Poll, NothingLeft, Ignore, Receive, Callback, MakeAgain, AddAgain, SendAgain,
                SendAgainFails, Called
  <1>4. CASE RetryStep
    <2>1. CASE Refused \/ NothingDue
      <3>1. /\ pass' = None /\ UNCHANGED <<try, dpc>> /\ pass \in Threads
            /\ pc' = [pc EXCEPT ![pass] = IF pass = Poller THEN "wait" ELSE "check"]
        BY <2>1 DEF Typed, TypeOK, Refused, NothingDue, Exit, Goto
      <3>2. pass # Poller => pass \in Callers /\ pc[pass] = "pass" /\ dpc = "live"
        BY <3>1 DEF Placed, Threads, Requests
      <3>3. \A r \in Requests : r # pass => pc'[r] = pc[r]
        BY <1>0, <3>1
      <3>4. \A r \in Askers : r # pass
        BY <1>0, <3>1 DEF Threads, Requests
      <3>5. \A r \in Askers : r \in Requests /\ try'[r] = try[r] /\ pc'[r] = pc[r]
        BY <3>1, <3>3, <3>4 DEF Requests
      <3>6. pass' \notin Requests
        BY <3>1
      <3>7. dpc' # "live" => \A r \in Requests : pc'[r] \in {"sent", "done"}
        BY <1>0, <3>1, <3>2, <3>3 DEF Placed, Requests
      <3> QED BY <3>1, <3>5, <3>6, <3>7 DEF Placed
    <2>2. CASE ~(Refused \/ NothingDue)
      BY <1>4, <2>2 DEF Placed, RetryStep, Retry, Received, Expire, Resend, Resent, Expired
    <2> QED BY <2>1, <2>2
  <1>5. ASSUME NEW m \in Messages, Arrive(m) \/ Tick(m) PROVE Placed'
    BY <1>5 DEF Placed, Arrive, Tick, passVars
  <1>6. CASE DestroyStep \/ Gone \/ UNCHANGED vars
    BY <1>6 DEF Placed, DestroyStep, StopPollThread, Join, DestroyNext, Destroyed, Gone, vars, passVars
  <1> QED BY <1>1, <1>2, <1>3, <1>4, <1>5, <1>6 DEF Next

\* Taking a message out leaves the rest as it is.
LEMMA OneEachLess ==
    ASSUME OneEach, queue' \subseteq queue, UNCHANGED <<ppc, cur>>,
           \A m \in queue' : pc'[m[1]] \notin {"start", "made"},
           \A m \in queue' : m[1] \in Callers => try'[m[1]] = try[m[1]]
    PROVE  OneEach'
  BY DEF OneEach, Pair, Again, Current

LEMMA OneEachCall ==
    ASSUME IdsDiffer, Typed, OneEach, Placed, NEW r \in Requests, CallStep(r)
    PROVE  OneEach'
  <1>0. /\ pc \in [Requests \union {Poller} -> CallPlaces] /\ try \in [Requests -> 0 .. 2]
        /\ queue \subseteq Messages /\ \A m \in queue : m[1] \in Requests
        /\ Current(r) \in Messages /\ Current(r)[1] = r /\ <<r, 0>> \in Messages
    BY CurrentMessage, MessageParts DEF Typed, TypeOK
  <1>1. \A s \in Requests : s # r => pc'[s] = pc[s] /\ try'[s] = try[s]
    BY <1>0 DEF CallStep, Make, Add, Send, SendFails, Cancel, Withdraw, Check, Take, Spin, TimedOut, Taken, Goto
  <1>2. UNCHANGED <<ppc, cur>>
    BY DEF CallStep, Make, Add, Send, SendFails, Cancel, Withdraw, Check, Take, Spin, DeleteEntry, passVars
  <1>3. CASE Add(r)
    <2>1. queue' = queue \union {Current(r)} /\ UNCHANGED try /\ pc[r] = "made" /\ pc'[r] = "added"
      BY <1>0, <1>3 DEF Add, AddEntry, Goto
    <2>2. \A m \in queue : m[1] # r
      BY <2>1 DEF OneEach
    <2>3. ASSUME NEW m \in queue', NEW n \in queue', m[1] = n[1], m # n
          PROVE  ppc' \in {"added", "called"} /\ (Pair(m, n) \/ Pair(n, m))'
      <3>1. m \in queue /\ n \in queue
        BY <1>0, <2>1, <2>2, <2>3
      <3> QED BY <1>2, <2>3, <3>1 DEF OneEach, Pair, Again
    <2>4. \A m \in queue' : pc'[m[1]] \notin {"start", "made"}
      BY <1>0, <1>1, <2>1, <2>2 DEF OneEach
    <2>5. \A m \in queue' : m[1] \in Callers => m = Current(m[1])'
      BY <1>0, <2>1 DEF OneEach, Current
    <2> QED BY <2>3, <2>4, <2>5 DEF OneEach
  <1>4. CASE Make(r) \/ Send(r) \/ SendFails(r) \/ Check(r)
    <2>1. UNCHANGED <<queue, try>>
      BY <1>4 DEF Make, Send, SendFails, Check, listVars
    <2>2. pc'[r] \in {"start", "made"} => pc[r] = "start"
      BY <1>0, <1>4 DEF Make, Send, SendFails, Check, Goto
    <2> QED BY <1>0, <1>1, <1>2, <2>1, <2>2, OneEachLess DEF OneEach
  <1>5. ASSUME NEW m, NEW place \in {"cancelling", "withdrawing", "taking"}, Spin(r, m, place) PROVE OneEach'
    <2>1. UNCHANGED <<queue, try>> /\ pc'[r] = place
      BY <1>0, <1>5 DEF Spin, Goto, listVars
    <2> QED BY <1>0, <1>1, <1>2, <2>1, OneEachLess DEF OneEach
  <1>6. CASE Cancel(r) \/ Withdraw(r)
    <2>1. ASSUME NEW m \in Messages, NEW place, DeleteEntry(r, m, place), Goto(r, "done"), UNCHANGED try
          PROVE  OneEach'
      <3>1. queue' \subseteq queue /\ pc'[r] = "done"
        BY <1>0, <2>1, WalkLemma DEF Typed, Goto
      <3> QED BY <1>0, <1>1, <1>2, <2>1, <3>1, OneEachLess DEF OneEach
    <2> QED BY <1>0, <1>5, <1>6, <2>1 DEF Cancel, Withdraw
  <1>7. CASE Take(r)
    <2>1. ASSUME DeleteEntry(r, Current(r), "taking"),
                 TimedOut(r) \/ \E m \in Found(Current(r)) : Taken(r, got[m])
          PROVE  OneEach'
      <3>1. queue' = queue \ {Current(r)}
        BY <1>0, <2>1, WalkLemma DEF Typed
      <3>2. r \in Callers
        BY <1>7 DEF Take, Placed, Requests
      <3>3. \A m \in queue' : m[1] # r
        BY <3>1, <3>2 DEF OneEach
      <3> QED BY <1>0, <1>1, <1>2, <3>1, <3>3, OneEachLess DEF OneEach
    <2> QED BY <1>5, <1>7, <2>1 DEF Take
  <1> QED BY <1>3, <1>4, <1>6, <1>7 DEF CallStep

LEMMA OneEachStep ==
    ASSUME IdsDiffer, Typed, OneEach, Placed, [Next]_vars
    PROVE  OneEach'
  <1>0. queue \subseteq Messages /\ \A m \in queue : m[1] \in Requests
    BY MessageParts DEF Typed, TypeOK
  <1>1. ASSUME NEW t \in Threads, Enter(t) PROVE OneEach'
    <2>1. UNCHANGED <<queue, try, cur>> /\ ppc = "out" /\ pc' = [pc EXCEPT ![t] = "pass"]
      BY <1>1 DEF Typed, TypeOK, Enter, Goto, listVars
    <2>2. \A m \in queue : pc'[m[1]] \notin {"start", "made"}
      BY <1>0, <2>1 DEF OneEach, Typed, TypeOK
    <2> QED BY <2>1, <2>2 DEF OneEach, Current
  <1>2. CASE ReadStep
    <2>0. UNCHANGED <<pc, try>>
      BY <1>2 DEF ReadStep, Poll, NothingLeft, Ignore, Receive, Callback, MakeAgain, AddAgain, SendAgain,
                  SendAgainFails, Called
    <2>1. CASE Poll \/ NothingLeft \/ Callback \/ MakeAgain \/ \E d \in socket : Ignore(d) \/ \E m \in queue : Receive(d, m)
      <3>1. UNCHANGED queue /\ ppc \notin {"added", "called"}
        BY <2>1 DEF Poll, NothingLeft, Callback, MakeAgain, Ignore, Receive, listVars
      <3> QED BY <2>0, <3>1 DEF OneEach, Current
    <2>2. CASE AddAgain
      <3>1. /\ queue' = queue \union {Again} /\ UNCHANGED cur /\ ppc = "made" /\ ppc' = "added"
            /\ cur \in queue /\ Again[1] = cur[1] /\ Again # cur /\ cur[1] \in Askers
        BY <2>2, AgainMessage, CurIn DEF Typed, Shape, AddAgain, AddEntry, Calling, Asking
      <3>2. \A m, n \in queue : m[1] = n[1] => m = n
        BY <3>1 DEF OneEach
      <3>3. ASSUME NEW m \in queue', NEW n \in queue', m[1] = n[1], m # n
            PROVE  (Pair(m, n) \/ Pair(n, m))'
        <4>1. Again' = Again
          BY <3>1 DEF Again
        <4> QED BY <3>1, <3>2, <3>3, <4>1 DEF Pair
      <3>4. \A m \in queue' : pc'[m[1]] \notin {"start", "made"}
        BY <2>0, <3>1 DEF OneEach
      <3>5. cur[1] \notin Callers
        BY <3>1, MessageQueueAssumption
      <3>6. \A m \in queue' : m[1] \in Callers => m = Current(m[1])'
        BY <2>0, <3>1, <3>5 DEF OneEach, Current
      <3> QED BY <3>1, <3>3, <3>4, <3>6 DEF OneEach
    <2>3. CASE SendAgain
      <3>1. UNCHANGED <<queue, cur>> /\ ppc = "added" /\ ppc' = "called"
        BY <2>3 DEF SendAgain
      <3> QED BY <2>0, <3>1 DEF OneEach, Pair, Again, Current
    <2>4. CASE SendAgainFails \/ Called
      <3>1. /\ \/ queue' = queue \ {Again}
               \/ queue' = queue \ {cur}
        BY <2>4 DEF SendAgainFails, Called, Remove
      <3>2. \A m, n \in queue' : m[1] = n[1] => m = n
        BY <3>1 DEF OneEach, Pair
      <3> QED BY <2>0, <3>1, <3>2 DEF OneEach, Current
    <2> QED BY <1>2, <2>1, <2>2, <2>3, <2>4 DEF ReadStep
  <1>3. CASE RetryStep
    <2>1. ppc \notin {"added", "called"} /\ UNCHANGED try /\ queue' \subseteq queue
      BY <1>3 DEF RetryStep, Retry, Received, Expire, Resend, Resent, Refused, Expired, NothingDue, Remove, listVars
    <2>2. \A r \in Requests : pc'[r] = pc[r] \/ pc'[r] = "check"
      <3>1. CASE Refused \/ NothingDue
        BY <3>1, MessageQueueAssumption DEF Typed, TypeOK, Refused, NothingDue, Exit, Goto
      <3>2. CASE ~(Refused \/ NothingDue)
        BY <1>3, <3>2 DEF RetryStep, Retry, Received, Expire, Resend, Resent, Expired
      <3> QED BY <3>1, <3>2
    <2> QED BY <1>0, <2>1, <2>2 DEF OneEach, Current
  <1>4. ASSUME NEW m \in Messages, Arrive(m) \/ Tick(m) PROVE OneEach'
    BY <1>4 DEF OneEach, Pair, Again, Current, Arrive, Tick, passVars, listVars
  <1>5. CASE StopPollThread \/ Join \/ Destroyed \/ Gone \/ UNCHANGED vars
    BY <1>5 DEF OneEach, Pair, Again, Current, StopPollThread, Join, Destroyed, Gone, vars, passVars, listVars
  <1>6. ASSUME NEW m \in queue, DestroyNext(m) PROVE OneEach'
    BY <1>6 DEF OneEach, Pair, Again, Current, DestroyNext, Remove, passVars
  <1> QED BY <1>1, <1>2, <1>3, <1>4, <1>5, <1>6, OneEachCall DEF Next, DestroyStep

LEMMA ClosedLess ==
    ASSUME Closed, UNCHANGED <<ppc, cur, calls>>, queue' \subseteq queue,
           \A s \in Askers : pc'[s] \in {"start", "made"} => pc[s] \in {"start", "made"},
           \A s \in Askers : result'[s] = result[s]
    PROVE  Closed'
  BY DEF Closed, Over, CallbackOnce

\* The user of a message that waits has not been called.
LEMMA NotOver ==
    ASSUME Typed, Closed, NEW m \in queue, m[1] \in Askers, m # cur \/ ppc \notin {"called", "expired"}
    PROVE  calls[m[1]] = 0 /\ result[m[1]] # "cancelled"
  <1>1. ~Over(m[1])
    BY DEF Closed
  <1>2. calls[m[1]] \in Nat /\ calls[m[1]] <= 1
    BY DEF Typed, TypeOK, Closed, CallbackOnce, Requests
  <1> QED BY <1>1, <1>2 DEF Over

LEMMA ClosedCall ==
    ASSUME IdsDiffer, Typed, Life, NEW r \in Requests, CallStep(r)
    PROVE  Closed'
  <1>0. /\ pc \in [Requests \union {Poller} -> CallPlaces]
        /\ result \in [Requests -> Failures \union {"none", "answered"}]
        /\ Current(r) \in Messages /\ Current(r)[1] = r /\ <<r, 0>> \in Messages /\ Askers \subseteq Requests
    BY CurrentMessage DEF Typed, TypeOK, Requests
  <1>1. \A s \in Requests : s # r => pc'[s] = pc[s] /\ result'[s] = result[s]
    BY <1>0 DEF CallStep, Make, Add, Send, SendFails, Cancel, Withdraw, Check, Take, Spin, TimedOut, Taken, Goto,
                EndRequest, userVars
  <1>2. UNCHANGED <<ppc, cur, calls>>
    BY DEF CallStep, Make, Add, Send, SendFails, Cancel, Withdraw, Check, Take, Spin, DeleteEntry, passVars, userVars
  <1>3. CASE Add(r)
    <2>1. queue' = queue \union {Current(r)} /\ UNCHANGED result /\ pc[r] = "made" /\ pc'[r] = "added"
      BY <1>0, <1>3 DEF Add, AddEntry, Goto, userVars
    <2>2. r \in Askers => calls[r] = 0 /\ result[r] = "none"
      BY <2>1 DEF Life, Closed
    <2>3. \A s \in Askers : Over(s)' => Over(s) /\ s # r
      BY <1>2, <2>1, <2>2 DEF Over
    <2>4. \A m \in queue' : m[1] \in Askers /\ Over(m[1])' => m = cur' /\ ppc' \in {"called", "expired"}
      BY <1>0, <1>2, <2>1, <2>3 DEF Life, Closed
    <2> QED BY <1>0, <1>1, <1>2, <2>1, <2>4 DEF Life, Closed, CallbackOnce
  <1>4. CASE Make(r) \/ Send(r) \/ SendFails(r) \/ Check(r)
    <2>1. UNCHANGED <<queue, result>> /\ (pc'[r] \in {"start", "made"} => pc[r] = "start")
      BY <1>0, <1>4 DEF Make, Send, SendFails, Check, Goto, listVars, userVars
    <2> QED BY <1>0, <1>1, <1>2, <2>1, ClosedLess DEF Life
  <1>5. ASSUME NEW m, NEW place \in {"cancelling", "withdrawing", "taking"}, Spin(r, m, place) PROVE Closed'
    <2>1. UNCHANGED <<queue, result>> /\ pc'[r] = place
      BY <1>0, <1>5 DEF Spin, Goto, listVars, userVars
    <2> QED BY <1>0, <1>1, <1>2, <2>1, ClosedLess DEF Life
  <1>6. CASE Withdraw(r)
    <2>1. ASSUME DeleteEntry(r, Current(r), "withdrawing"), Goto(r, "done"), EndRequest(r, "failed") PROVE Closed'
      <3>1. queue' \subseteq queue /\ pc'[r] = "done" /\ result'[r] = "failed"
        BY <1>0, <2>1, WalkLemma DEF Typed, Goto, EndRequest
      <3>2. \A s \in Askers : Over(s)' => Over(s)
        BY <1>0, <1>1, <1>2, <3>1 DEF Over
      <3>3. CallbackOnce'
        BY <1>0, <1>1, <1>2, <3>1 DEF Life, Closed, CallbackOnce
      <3>4. \A m \in queue' : m[1] \in Askers /\ Over(m[1])' => m = cur' /\ ppc' \in {"called", "expired"}
        BY <1>2, <3>1, <3>2 DEF Life, Closed
      <3>5. \A s \in Askers : pc'[s] \in {"start", "made"} => calls'[s] = 0 /\ result'[s] = "none"
        BY <1>0, <1>1, <1>2, <3>1 DEF Life, Closed
      <3> QED BY <3>3, <3>4, <3>5 DEF Closed
    <2> QED BY <1>5, <1>6, <2>1 DEF Withdraw
  <1>7. CASE Cancel(r)
    <2>1. ASSUME DeleteEntry(r, <<r, 0>>, "cancelling"), Goto(r, "done"), Found(<<r, 0>>) # {},
                 EndRequest(r, "cancelled")
          PROVE  Closed'
      <3>1. /\ <<r, 0>> \in queue \ locked /\ queue' = queue \ {<<r, 0>>}
            /\ pc'[r] = "done" /\ result'[r] = "cancelled" /\ r \in Askers
        BY <1>0, <1>7, <2>1, WalkLemma, MessageQueueAssumption DEF Typed, Goto, EndRequest, Cancel
      <3>2. <<r, 0>> # cur
        BY <1>0, <3>1, MessageQueueAssumption DEF Typed, Shape
      <3>3. calls[r] = 0
        BY <3>1, <3>2, NotOver DEF Life
      <3>4. \A m \in queue' : m[1] # r
        <4>1. SUFFICES ASSUME NEW m \in queue', m[1] = r PROVE FALSE
          OBVIOUS
        <4>2. m \in queue /\ m # <<r, 0>>
          BY <3>1
        <4>3. ppc \in {"added", "called"} /\ (Pair(m, <<r, 0>>) \/ Pair(<<r, 0>>, m))
          BY <3>1, <4>1, <4>2 DEF Life, OneEach
        <4>4. <<r, 0>> = Again /\ cur = m
          BY <3>2, <4>3 DEF Pair
        <4>5. m[2] \in 0 .. 2
          BY <4>2, MessageParts DEF Typed, TypeOK
        <4> QED BY <4>4, <4>5 DEF Again
      <3>5. \A s \in Askers : s # r /\ Over(s)' => Over(s)
        BY <1>0, <1>1, <1>2 DEF Over
      <3>6. \A m \in queue' : m[1] \in Askers /\ Over(m[1])' => m = cur' /\ ppc' \in {"called", "expired"}
        BY <1>2, <3>1, <3>4, <3>5 DEF Life, Closed
      <3>7. CallbackOnce'
        BY <1>0, <1>1, <1>2, <3>1, <3>3 DEF Life, Closed, CallbackOnce
      <3>8. \A s \in Askers : pc'[s] \in {"start", "made"} => calls'[s] = 0 /\ result'[s] = "none"
        BY <1>0, <1>1, <1>2, <3>1 DEF Life, Closed
      <3> QED BY <3>6, <3>7, <3>8 DEF Closed
    <2>2. ASSUME DeleteEntry(r, <<r, 0>>, "cancelling"), Goto(r, "done"), UNCHANGED result PROVE Closed'
      <3>1. queue' \subseteq queue /\ pc'[r] = "done"
        BY <1>0, <2>2, WalkLemma DEF Typed, Goto
      <3> QED BY <1>0, <1>1, <1>2, <2>2, <3>1, ClosedLess DEF Life
    <2> QED BY <1>5, <1>7, <2>1, <2>2 DEF Cancel
  <1>8. CASE Take(r)
    <2>1. r \notin Askers
      BY <1>8 DEF Take, Life, Placed
    <2>2. queue' \subseteq queue
      BY <1>0, <1>8, WalkLemma DEF Take, Typed, Spin, listVars
    <2> QED BY <1>0, <1>1, <1>2, <2>1, <2>2, ClosedLess DEF Life
  <1> QED BY <1>3, <1>4, <1>6, <1>7, <1>8 DEF CallStep

\* A user is called for the first time, for the one message of a request.
LEMMA ClosedUser ==
    ASSUME Typed, Life, ppc \notin {"called", "expired"}, NEW m \in queue, m[1] \in Askers,
           NEW how \in Failures \union {"answered"}, how # "cancelled", CallUser(m[1], how), UNCHANGED pc,
           queue' \subseteq queue,
           \A n \in queue' : n[1] = m[1] => n = cur' /\ ppc' \in {"called", "expired"}
    PROVE  Closed'
  <1>0. /\ calls \in [Requests -> Nat] /\ result \in [Requests -> Failures \union {"none", "answered"}]
        /\ Askers \subseteq Requests
    BY DEF Typed, TypeOK, Requests
  <1>1. calls[m[1]] = 0
    BY NotOver DEF Life
  <1>2. calls'[m[1]] = 1 /\ result'[m[1]] = how
    BY <1>0, <1>1 DEF CallUser, EndRequest
  <1>3. \A s \in Askers : s # m[1] => calls'[s] = calls[s] /\ result'[s] = result[s]
    BY <1>0 DEF CallUser, EndRequest
  <1>4. CallbackOnce'
    BY <1>2, <1>3 DEF Life, Closed, CallbackOnce
  <1>5. \A n \in queue : n[1] \in Askers => ~Over(n[1])
    BY DEF Life, Closed
  <1>6. \A n \in queue' : n[1] \in Askers /\ Over(n[1])' => n = cur' /\ ppc' \in {"called", "expired"}
    BY <1>3, <1>5 DEF Over
  <1>7. \A s \in Askers : pc'[s] \in {"start", "made"} => calls'[s] = 0 /\ result'[s] = "none"
    BY <1>3 DEF Life, Closed, OneEach
  <1> QED BY <1>4, <1>6, <1>7 DEF Closed

LEMMA ClosedRead ==
    ASSUME IdsDiffer, Typed, Life, ReadStep
    PROVE  Closed'
  <1>0. UNCHANGED pc
    BY DEF ReadStep, Poll, NothingLeft, Ignore, Receive, Callback, MakeAgain, AddAgain, SendAgain, SendAgainFails, Called
  <1>1. CASE Poll \/ NothingLeft \/ MakeAgain \/ \E d \in socket : Ignore(d) \/ \E m \in queue : Receive(d, m)
    <2>1. UNCHANGED <<queue, userVars>> /\ ppc \notin {"called", "expired"}
      BY <1>1 DEF Poll, NothingLeft, MakeAgain, Ignore, Receive, listVars
    <2> QED BY <1>0, <2>1 DEF Life, Closed, Over, CallbackOnce, userVars
  <1>2. CASE Callback
    <2>1. CASE Hidden(cur)
      BY <1>0, <1>2, <2>1 DEF Callback, Life, Closed, Over, CallbackOnce, userVars
    <2>2. CASE ~Hidden(cur)
      <3>1. /\ ppc = "call" /\ ppc' = "called" /\ CallUser(cur[1], "answered") /\ UNCHANGED <<queue, cur>>
            /\ cur \in queue /\ cur[1] \in Askers
        BY <1>2, <2>2, CurIn DEF Callback, Typed, Shape, Calling
      <3>2. \A n \in queue' : n[1] = cur[1] => n = cur'
        BY <3>1 DEF Life, OneEach
      <3> QED BY <1>0, <3>1, <3>2, ClosedUser
    <2> QED BY <2>1, <2>2
  <1>3. CASE AddAgain
    <2>1. /\ queue' = queue \union {Again} /\ UNCHANGED userVars /\ ppc = "made" /\ cur \in queue
          /\ Again[1] = cur[1] /\ cur[1] \in Askers
      BY <1>3, AgainMessage, CurIn DEF Typed, Shape, AddAgain, AddEntry, Calling, Asking
    <2>2. ~Over(cur[1])
      BY <2>1 DEF Life, Closed
    <2> QED BY <1>0, <2>1, <2>2 DEF Life, Closed, Over, CallbackOnce, userVars
  <1>4. CASE SendAgain
    <2>1. UNCHANGED <<queue, userVars>> /\ ppc = "added"
      BY <1>4 DEF SendAgain
    <2> QED BY <1>0, <2>1 DEF Life, Closed, Over, CallbackOnce, userVars
  <1>5. CASE SendAgainFails
    <2>1. /\ ppc = "added" /\ ppc' = "called" /\ CallUser(cur[1], "failed") /\ queue' = queue \ {Again}
          /\ UNCHANGED cur /\ cur \in queue /\ cur[1] \in Askers
      BY <1>5, CurIn DEF SendAgainFails, Remove, Typed, Shape, Calling
    <2>2. \A n \in queue' : n[1] = cur[1] => n = cur'
      BY <2>1 DEF Life, OneEach, Pair
    <2> QED BY <1>0, <2>1, <2>2, ClosedUser DEF Failures
  <1>6. CASE Called
    <2>1. queue' = queue \ {cur} /\ UNCHANGED userVars
      BY <1>6 DEF Called, Remove
    <2> QED BY <1>0, <2>1 DEF Life, Closed, Over, CallbackOnce, userVars
  <1> QED BY <1>1, <1>2, <1>3, <1>4, <1>5, <1>6 DEF ReadStep

LEMMA ClosedRetry ==
    ASSUME IdsDiffer, Typed, Life, RetryStep
    PROVE  Closed'
  <1>1. CASE Expire
    <2>1. ppc = "resend" /\ ppc' = "expired" /\ UNCHANGED <<pc, queue, cur>> /\ cur \in queue
      BY <1>1, CurIn DEF Expire
    <2>2. CASE cur[1] \in Askers
      <3>1. CallUser(cur[1], "timeout") /\ \A n \in queue' : n[1] = cur[1] => n = cur'
        BY <1>1, <2>1, <2>2 DEF Expire, Life, OneEach
      <3> QED BY <2>1, <2>2, <3>1, ClosedUser DEF Failures
    <2>3. CASE cur[1] \notin Askers
      <3>1. UNCHANGED userVars
        BY <1>1, <2>3 DEF Expire
      <3> QED BY <2>1, <3>1 DEF Life, Closed, Over, CallbackOnce, userVars
    <2> QED BY <2>2, <2>3
  <1>2. CASE Expired
    <2>1. queue' = queue \ {cur} /\ UNCHANGED <<pc, userVars>>
      BY <1>2 DEF Expired, Remove
    <2> QED BY <2>1 DEF Life, Closed, Over, CallbackOnce, userVars
  <1>3. CASE ~(Expire \/ Expired)
    <2>1. UNCHANGED <<queue, userVars>> /\ ppc \notin {"called", "expired"}
      BY <1>3 DEF RetryStep, Retry, Received, Resend, Resent, Refused, NothingDue, listVars
    <2>2. \A s \in Askers : pc'[s] = pc[s] \/ pc'[s] = "check"
      <3>1. CASE Refused \/ NothingDue
        BY <3>1, MessageQueueAssumption DEF Typed, TypeOK, Requests, Refused, NothingDue, Exit, Goto
      <3>2. CASE ~(Refused \/ NothingDue)
        BY <1>3, <3>2 DEF RetryStep, Retry, Received, Resend, Resent
      <3> QED BY <3>1, <3>2
    <2> QED BY <2>1, <2>2 DEF Life, Closed, Over, CallbackOnce, userVars
  <1> QED BY <1>1, <1>2, <1>3

LEMMA ClosedStep ==
    ASSUME IdsDiffer, Typed, Life, [Next]_vars
    PROVE  Closed'
  <1>1. ASSUME NEW t \in Threads, Enter(t) PROVE Closed'
    <2>1. UNCHANGED <<queue, cur, userVars>> /\ ppc = "out"
      BY <1>1 DEF Typed, TypeOK, Enter, listVars
    <2>2. \A s \in Askers : pc'[s] = pc[s] \/ pc'[s] = "pass"
      BY <1>1 DEF Typed, TypeOK, Requests, Enter, Goto
    <2> QED BY <2>1, <2>2 DEF Life, Closed, Over, CallbackOnce, userVars
  <1>2. ASSUME NEW m \in Messages, Arrive(m) \/ Tick(m) PROVE Closed'
    <2>1. UNCHANGED <<pc, ppc, cur, calls, result, queue>>
      BY <1>2 DEF Arrive, Tick, passVars, userVars, listVars
    <2> QED BY <2>1, ClosedLess DEF Life
  <1>3. CASE StopPollThread \/ Join \/ Destroyed \/ Gone \/ UNCHANGED vars
    <2>1. UNCHANGED <<pc, ppc, cur, calls, result, queue>>
      BY <1>3 DEF StopPollThread, Join, Destroyed, Gone, vars, passVars, userVars, listVars
    <2> QED BY <2>1, ClosedLess DEF Life
  <1>4. ASSUME NEW m \in queue, DestroyNext(m) PROVE Closed'
    <2>1. queue' = queue \ {m} /\ UNCHANGED <<pc, ppc, cur>> /\ ppc = "out"
      BY <1>4 DEF DestroyNext, Remove, passVars, Life, Placed, Typed, TypeOK
    <2>2. CASE m[1] \in Askers
      <3>1. CallUser(m[1], "destroyed") /\ \A n \in queue' : n[1] # m[1]
        BY <1>4, <2>1, <2>2 DEF DestroyNext, Life, OneEach
      <3> QED BY <2>1, <2>2, <3>1, ClosedUser DEF Failures
    <2>3. CASE m[1] \notin Askers
      <3>1. UNCHANGED userVars
        BY <1>4, <2>3 DEF DestroyNext
      <3> QED BY <2>1, <3>1, ClosedLess DEF Life, userVars
    <2> QED BY <2>2, <2>3
  <1> QED BY <1>1, <1>2, <1>3, <1>4, ClosedCall, ClosedRead, ClosedRetry DEF Next, DestroyStep

LEMMA LifeInit == Init => Life
  <1> SUFFICES ASSUME Init PROVE Life
    OBVIOUS
  <1>1. OneEach
    BY DEF Init, OneEach
  <1>2. Closed
    BY DEF Init, Closed, CallbackOnce, Requests
  <1>3. Placed
    BY MessageQueueAssumption DEF Init, Placed, Requests, Threads
  <1> QED BY <1>1, <1>2, <1>3 DEF Life

\* When no two messages have the same id, no callback is made twice or after a
\* cancel that has succeeded, whatever thread took the message out.
THEOREM CalledBackOnce == ASSUME IdsDiffer PROVE Spec => []CallbackOnce
  <1>1. Typed /\ Life /\ [Next]_vars => (Typed /\ Life)'
    BY IdsDiffer, TypedStep, OneEachStep, ClosedStep, PlacedStep DEF Life
  <1>2. Life => CallbackOnce
    BY DEF Life, Closed
  <1> QED BY <1>1, <1>2, TypedInit, LifeInit, PTL DEF Spec

-----------------------------------------------------------------------------
(* The answers that were there when a pass began *)

\* They are read before anything is sent again or given up.
ReadFirst ==
    \A m \in arrived \intersect queue :
      got[m] # "none" \/ (ppc \in {"poll", "read"} \union Calling /\ m \in socket)

\* Their messages do not come into the queue again: what is added is newer.
Bygone ==
    \A m \in arrived :
      /\ m[1] \in Callers =>
           /\ m[2] <= try[m[1]]
           /\ pc[m[1]] \in {"start", "made"} => m[2] < try[m[1]]
      /\ m[1] \in Askers =>
           /\ pc[m[1]] \notin {"start", "made"}
           /\ \A x \in queue : x[1] = m[1] => x[2] >= m[2]

Beat == ReadFirst /\ Bygone

\* Nothing happens to the answers, except that messages leave the queue.
LEMMA BeatLess ==
    ASSUME Typed, Beat, UNCHANGED <<arrived, try>>, queue' \subseteq queue, socket \subseteq socket',
           \A m \in queue' : got[m] # "none" => got'[m] # "none",
           ppc' = ppc \/ ppc' \in {"poll", "read"} \union Calling \/ ppc \notin {"poll", "read"} \union Calling,
           \A r \in Requests : pc'[r] \in {"start", "made"} => pc[r] \in {"start", "made"}
    PROVE  Beat'
  <1>1. \A m \in arrived : m[1] \in Requests
    BY MessageParts DEF Typed, TypeOK
  <1>2. ReadFirst'
    BY DEF Beat, ReadFirst
  <1>3. Bygone'
    BY <1>1 DEF Beat, Bygone
  <1> QED BY <1>2, <1>3 DEF Beat

LEMMA BeatCall ==
    ASSUME IdsDiffer, Typed, Life, Beat, NEW r \in Requests, CallStep(r)
    PROVE  Beat'
  <1>0. /\ pc \in [Requests \union {Poller} -> CallPlaces] /\ try \in [Requests -> 0 .. 2]
        /\ got \in [Messages -> Replies \union Reports \union {"none"}]
        /\ queue \subseteq Messages /\ arrived \subseteq Messages
        /\ Current(r) \in Messages /\ Current(r)[1] = r /\ <<r, 0>> \in Messages
        /\ \A m \in Messages : m[1] \in Requests /\ m[2] \in 0 .. 2
        /\ \A s \in Callers : s \notin Askers
    BY CurrentMessage, MessageParts, MessageQueueAssumption DEF Typed, TypeOK
  <1>1. /\ \A s \in Requests : s # r => pc'[s] = pc[s] /\ try'[s] = try[s]
        /\ UNCHANGED <<arrived, ppc, socket>>
    BY <1>0 DEF CallStep, Make, Add, Send, SendFails, Cancel, Withdraw, Check, Take, Spin, DeleteEntry, TimedOut,
                Taken, Goto, passVars, netVars
  <1>2. CASE Add(r)
    <2>1. /\ queue' = queue \union {Current(r)} /\ UNCHANGED <<try, got>>
          /\ pc[r] = "made" /\ pc'[r] = "added"
      BY <1>0, <1>2 DEF Add, AddEntry, Goto
    <2>2. Current(r) \notin arrived
      BY <1>0, <2>1 DEF Beat, Bygone, Current, Requests
    <2>3. ReadFirst'
      BY <1>1, <2>1, <2>2 DEF Beat, ReadFirst
    <2>4. Bygone'
      BY <1>0, <1>1, <2>1 DEF Beat, Bygone
    <2> QED BY <2>3, <2>4 DEF Beat
  <1>3. CASE Make(r) \/ Send(r) \/ SendFails(r) \/ Check(r)
    <2>1. UNCHANGED <<queue, try, got>> /\ (pc'[r] \in {"start", "made"} => pc[r] = "start")
      BY <1>0, <1>3 DEF Make, Send, SendFails, Check, Goto, listVars
    <2> QED BY <1>1, <2>1, BeatLess
  <1>4. ASSUME NEW m, NEW place \in {"cancelling", "withdrawing", "taking"}, Spin(r, m, place) PROVE Beat'
    <2>1. UNCHANGED <<queue, try, got>> /\ pc'[r] = place
      BY <1>0, <1>4 DEF Spin, Goto, listVars
    <2> QED BY <1>1, <2>1, BeatLess
  <1>5. ASSUME NEW m \in Messages, NEW place, DeleteEntry(r, m, place)
        PROVE  queue' \subseteq queue /\ \A x \in queue' : got'[x] = got[x]
    BY <1>0, <1>5, WalkLemma DEF Typed, Remove
  <1>6. CASE Cancel(r) \/ Withdraw(r)
    <2>1. ASSUME NEW m \in Messages, NEW place, DeleteEntry(r, m, place), Goto(r, "done"), UNCHANGED try
          PROVE  Beat'
      <3>1. pc'[r] = "done"
        BY <1>0, <2>1 DEF Goto
      <3> QED BY <1>1, <1>5, <2>1, <3>1, BeatLess
    <2> QED BY <1>0, <1>4, <1>6, <2>1 DEF Cancel, Withdraw
  <1>7. CASE Take(r)
    <2>1. ASSUME DeleteEntry(r, Current(r), "taking"), TimedOut(r) PROVE Beat'
      <3>1. UNCHANGED try /\ pc'[r] = "done"
        BY <1>0, <2>1 DEF TimedOut, Goto
      <3> QED BY <1>0, <1>1, <1>5, <2>1, <3>1, BeatLess
    <2>2. ASSUME DeleteEntry(r, Current(r), "taking"), NEW m \in Found(Current(r)), Taken(r, got[m])
          PROVE  Beat'
      <3>1. queue' \subseteq queue /\ \A x \in queue' : got'[x] = got[x]
        BY <1>0, <1>5, <2>2
      <3>2. CASE UNCHANGED try /\ pc' = [pc EXCEPT ![r] = "done"]
        BY <1>0, <1>1, <3>1, <3>2, BeatLess
      <3>3. ASSUME NEW k \in NextTries(r, got[m]), try' = [try EXCEPT ![r] = k] PROVE Beat'
        <4>1. try[r] \in 0 .. 2 /\ k \in 0 .. 2 /\ try[r] < k /\ try'[r] = k
          BY <1>0, <3>3 DEF NextTries
        <4>2. r \in Callers
          BY <1>7, <1>0 DEF Take, Life, Placed, Requests
        <4>3. ReadFirst'
          BY <1>1, <3>1 DEF Beat, ReadFirst
        <4>4. ASSUME NEW x \in arrived, x[1] \in Callers
              PROVE  /\ x[2] <= try'[x[1]]
                     /\ pc'[x[1]] \in {"start", "made"} => x[2] < try'[x[1]]
          <5>1. x[1] \in Requests /\ x[2] \in 0 .. 2 /\ x[2] <= try[x[1]]
            BY <1>0, <4>4 DEF Beat, Bygone
          <5>2. CASE x[1] = r
            BY <4>1, <5>1, <5>2
          <5>3. CASE x[1] # r
            BY <1>1, <4>4, <5>1, <5>3 DEF Beat, Bygone
          <5> QED BY <5>2, <5>3
        <4>5. ASSUME NEW x \in arrived, x[1] \in Askers
              PROVE  /\ pc'[x[1]] \notin {"start", "made"}
                     /\ \A y \in queue' : y[1] = x[1] => y[2] >= x[2]
          <5>1. x[1] \in Requests /\ x[1] # r
            BY <1>0, <4>2, <4>5
          <5> QED BY <1>1, <3>1, <4>5, <5>1 DEF Beat, Bygone
        <4>6. Bygone'
          BY <1>1, <4>4, <4>5 DEF Bygone
        <4> QED BY <4>3, <4>6 DEF Beat
      <3> QED BY <2>2, <3>2, <3>3 DEF Taken, Goto
    <2> QED BY <1>4, <1>7, <2>1, <2>2 DEF Take
  <1> QED BY <1>2, <1>3, <1>6, <1>7 DEF CallStep

LEMMA BeatRead ==
    ASSUME IdsDiffer, Typed, Life, Beat, ReadStep
    PROVE  Beat'
  <1>0. /\ got \in [Messages -> Replies \union Reports \union {"none"}]
        /\ queue \subseteq Messages /\ arrived \subseteq Messages /\ socket \subseteq Messages
        /\ UNCHANGED <<pc, try, arrived>>
    BY DEF Typed, TypeOK, ReadStep, Poll, NothingLeft, Ignore, Receive, Callback, MakeAgain, AddAgain, SendAgain,
           SendAgainFails, Called, passVars
  <1>1. CASE Poll
    <2>1. /\ UNCHANGED <<queue, socket, got>>
          /\ ppc' = "read" \/ queue = {} \/ socket = {}
      BY <1>1 DEF Poll, listVars, netVars
    <2> QED BY <1>0, <2>1 DEF Beat, ReadFirst, Bygone
  <1>2. CASE NothingLeft \/ Callback \/ MakeAgain \/ SendAgain
    <2>1. UNCHANGED <<queue, socket, got>> /\ ppc' \in {"poll"} \union Calling
      BY <1>2 DEF NothingLeft, Callback, MakeAgain, SendAgain, listVars, netVars, Calling
    <2> QED BY <1>0, <2>1, BeatLess
  <1>3. ASSUME NEW d \in socket, Ignore(d) PROVE Beat'
    <2>1. /\ UNCHANGED <<queue, got>> /\ socket' = socket \ {d} /\ ppc = "read" /\ ppc' = "poll"
          /\ d \notin queue
      BY <1>3 DEF Ignore, listVars, Found
    <2> QED BY <1>0, <2>1 DEF Beat, ReadFirst, Bygone
  <1>4. ASSUME NEW d \in socket, NEW m \in queue, Receive(d, m) PROVE Beat'
    <2>1. PICK kind \in Kinds(d) : Accept(m, kind)
      BY <1>4 DEF Receive
    <2>2. /\ m = d /\ UNCHANGED queue /\ socket' = socket \ {d}
          /\ ppc = "read" /\ ppc' \in {"poll", "call"}
      BY <1>0, <1>4, FoundIs DEF Receive, Typed
    <2>3. \A x \in queue : got[x] # "none" \/ x = d => got'[x] # "none"
      BY <1>0, <2>1, <2>2 DEF Accept, Kinds, Replies, Reports
    <2> QED BY <1>0, <2>2, <2>3 DEF Beat, ReadFirst, Bygone, Calling
  <1>5. CASE AddAgain
    <2>1. /\ queue' = queue \union {Again} /\ UNCHANGED <<got, socket>> /\ ppc = "made" /\ ppc' = "added"
          /\ cur \in queue /\ Again[1] = cur[1] /\ cur[1] \in Askers /\ Again \in Messages
          /\ cur[2] \in 0 .. 2 /\ Again[2] = cur[2] + 1
      BY <1>5, AgainMessage, CurIn, MessageParts
         DEF Typed, Shape, AddAgain, AddEntry, Calling, Asking, netVars
    <2>2. Again \notin arrived
      BY <2>1 DEF Beat, Bygone
    <2>3. ReadFirst'
      BY <1>0, <2>1, <2>2 DEF Beat, ReadFirst, Calling
    <2>4. \A m \in arrived : m[1] = cur[1] => m[2] \in 0 .. 2 /\ Again[2] >= m[2]
      BY <1>0, <2>1, MessageParts DEF Beat, Bygone
    <2>5. Bygone'
      BY <1>0, <2>1, <2>4 DEF Beat, Bygone
    <2> QED BY <2>3, <2>5 DEF Beat
  <1>6. CASE SendAgainFails \/ Called
    <2>1. /\ \A m \in queue' : m \in queue /\ got'[m] = got[m]
          /\ UNCHANGED socket /\ ppc' \in {"poll", "called"}
      BY <1>0, <1>6 DEF SendAgainFails, Called, Remove, netVars
    <2> QED BY <1>0, <2>1, BeatLess DEF Calling
  <1> QED BY <1>1, <1>2, <1>3, <1>4, <1>5, <1>6 DEF ReadStep

LEMMA BeatStep == ASSUME IdsDiffer, Typed, Life, Beat, [Next]_vars PROVE Beat'
  <1>0. /\ got \in [Messages -> Replies \union Reports \union {"none"}]
        /\ queue \subseteq Messages /\ arrived \subseteq Messages
        /\ \A m \in Messages : m[1] \in Requests /\ m[2] \in 0 .. 2
    BY MessageParts DEF Typed, TypeOK
  <1>1. ASSUME NEW t \in Threads, Enter(t) PROVE Beat'
    <2>1. /\ arrived' = socket \intersect queue /\ UNCHANGED <<queue, socket, try>>
          /\ ppc = "out" /\ ppc' = "poll" /\ pc' = [pc EXCEPT ![t] = "pass"]
      BY <1>1 DEF Typed, TypeOK, Enter, Goto, listVars, netVars
    <2>2. \A m \in queue : pc'[m[1]] \notin {"start", "made"}
      BY <1>0, <2>1 DEF Life, OneEach, Typed, TypeOK
    <2>3. \A m, x \in queue : x[1] = m[1] => x = m
      BY <2>1 DEF Life, OneEach
    <2>4. \A m \in queue : m[1] \in Callers => m[2] = try[m[1]]
      BY DEF Life, OneEach, Current
    <2>5. Bygone'
      BY <1>0, <2>1, <2>2, <2>3, <2>4 DEF Bygone
    <2> QED BY <2>1, <2>5 DEF Beat, ReadFirst
  <1>2. CASE RetryStep
    <2>1. CASE Refused \/ NothingDue
      BY <2>1 DEF Refused, NothingDue, Exit, Beat, ReadFirst, Bygone
    <2>2. CASE ~(Refused \/ NothingDue)
      <3>1. /\ \A m \in queue' : m \in queue /\ got'[m] = got[m]
            /\ UNCHANGED <<pc, try, arrived, socket>> /\ ppc \notin {"poll", "read"} \union Calling
        BY <1>0, <1>2, <2>2 DEF RetryStep, Retry, Received, Expire, Resend, Resent, Expired, Remove, listVars,
                                netVars, Calling
      <3> QED BY <3>1, BeatLess
    <2> QED BY <2>1, <2>2
  <1>3. ASSUME NEW m \in Messages, Arrive(m) \/ Tick(m) PROVE Beat'
    BY <1>3, BeatLess DEF Arrive, Tick, passVars, listVars, netVars
  <1>4. CASE StopPollThread \/ Join \/ Destroyed \/ Gone \/ UNCHANGED vars
    BY <1>4, BeatLess DEF StopPollThread, Join, Destroyed, Gone, vars, passVars, listVars, netVars
  <1>5. ASSUME NEW m \in queue, DestroyNext(m) PROVE Beat'
    <2>1. /\ \A x \in queue' : x \in queue /\ got'[x] = got[x]
          /\ UNCHANGED <<pc, try, ppc, arrived, socket>>
      BY <1>0, <1>5 DEF DestroyNext, Remove, passVars, netVars
    <2> QED BY <2>1, BeatLess
  <1> QED BY <1>1, <1>2, <1>3, <1>4, <1>5, BeatCall, BeatRead DEF Next, DestroyStep

\* A message expires only if a pass has read all answers that were there when it
\* began, and none was for this message.
THEOREM AnswersBeatTimeouts == ASSUME IdsDiffer PROVE Spec => AnswerBeatsTimeout
  <1>1. Init => Beat
    BY DEF Init, Beat, ReadFirst, Bygone
  <1>2. ASSUME Typed, Beat, [Next]_vars
        PROVE  [ppc # "expired" /\ ppc' = "expired" => cur \notin arrived]_vars
    <2>1. ASSUME ppc # "expired", ppc' = "expired" PROVE cur \notin arrived
      <3>1. Expire
        BY <1>2, <2>1 DEF Next, CallStep, Make, Add, Send, SendFails, Cancel, Withdraw, Check, Take, Spin, DeleteEntry,
             Enter, ReadStep, Poll, NothingLeft, Ignore, Receive, Callback, MakeAgain, AddAgain, SendAgain,
             SendAgainFails, Called, RetryStep, Retry, Received, Resend, Resent, Refused, Expired, NothingDue, Exit,
             Arrive, Tick, DestroyStep, StopPollThread, Join, DestroyNext, Destroyed, Gone, vars, passVars
      <3> QED BY <1>2, <3>1, CurIn DEF Expire, Beat, ReadFirst, Calling
    <2> QED BY <2>1
  <1>3. Typed /\ Life /\ Beat /\ [Next]_vars => (Typed /\ Life /\ Beat)'
    BY IdsDiffer, TypedStep, OneEachStep, ClosedStep, PlacedStep, BeatStep DEF Life
  <1> QED BY <1>1, <1>2, <1>3, TypedInit, LifeInit, PTL DEF Spec, AnswerBeatsTimeout

-----------------------------------------------------------------------------
(* Callback data *)

\* The data of a message in the queue is still there, and that of the messages
\* the request may need next, until the callback is over.
Data ==
    /\ FreedOnce
    /\ \A m \in queue : freed[m] # 0 => m = cur /\ ppc \in {"called", "expired"}
    /\ \A m \in queue : \A n \in Messages :
         n[1] = m[1] /\ n[2] > m[2] /\ freed[n] # 0 => m = cur /\ ppc = "called"
    /\ \A n \in Messages : n[1] \in Callers \/ pc[n[1]] \in {"start", "made"} => freed[n] = 0
    /\ \A s \in Askers : pc[s] \notin {"withdraw", "withdrawing"}

LEMMA DataLess ==
    ASSUME Data, UNCHANGED <<ppc, cur, freed>>, queue' \subseteq queue,
           \A s \in Askers : pc'[s] \in {"start", "made"} => pc[s] \in {"start", "made"},
           \A s \in Askers : pc'[s] \notin {"withdraw", "withdrawing"}
    PROVE  Data'
  BY MessageParts DEF Data, FreedOnce, Requests

LEMMA DataCall ==
    ASSUME IdsDiffer, FirstSent, Typed, Life, Data, NEW r \in Requests, CallStep(r)
    PROVE  Data'
  <1>0. /\ pc \in [Requests \union {Poller} -> CallPlaces]
        /\ Current(r) \in Messages /\ Current(r)[1] = r /\ <<r, 0>> \in Messages /\ Askers \subseteq Requests
        /\ r \in Askers => Current(r) = <<r, 0>>
    BY CurrentMessage DEF Typed, TypeOK, Requests, Life, Placed, Current
  <1>1. UNCHANGED <<ppc, cur>> /\ \A s \in Requests : s # r => pc'[s] = pc[s]
    BY <1>0 DEF CallStep, Make, Add, Send, SendFails, Cancel, Withdraw, Check, Take, Spin, DeleteEntry, TimedOut, Taken,
                Goto, passVars
  <1>2. UNCHANGED freed
    <2>1. CASE Withdraw(r)
      <3>1. r \notin Askers
        BY <2>1 DEF Withdraw, Data
      <3> QED BY <1>0, <2>1, <3>1 DEF Withdraw, Spin, Free, listVars
    <2>2. CASE ~Withdraw(r)
      BY <2>2 DEF CallStep, Make, Add, Send, SendFails, Cancel, Check, Take, Spin, listVars
    <2> QED BY <2>1, <2>2
  <1>3. r \in Askers => pc'[r] \notin {"withdraw", "withdrawing"}
    <2>1. SUFFICES ASSUME r \in Askers PROVE pc'[r] \notin {"withdraw", "withdrawing"}
      OBVIOUS
    <2>2. ~SendFails(r)
      BY <1>0, <2>1 DEF FirstSent, SendFails
    <2>3. ~Withdraw(r) /\ ~Check(r) /\ ~Take(r)
      BY <2>1 DEF Withdraw, Check, Take, Data, Life, Placed
    <2> QED BY <1>0, <2>2, <2>3 DEF CallStep, Make, Add, Send, Cancel, Spin, Goto
  <1>4. \A s \in Askers : pc'[s] \notin {"withdraw", "withdrawing"}
    BY <1>0, <1>1, <1>3 DEF Data
  <1>5. CASE Add(r)
    <2>1. queue' = queue \union {Current(r)} /\ pc[r] = "made" /\ pc'[r] = "added"
      BY <1>0, <1>5 DEF Add, AddEntry, Goto
    <2>2. \A n \in Messages : n[1] = r => freed[n] = 0
      BY <2>1 DEF Data
    <2>3. \A m \in queue' : freed'[m] # 0 => m = cur' /\ ppc' \in {"called", "expired"}
      BY <1>0, <1>1, <1>2, <2>1, <2>2 DEF Data
    <2>4. \A m \in queue' : \A n \in Messages :
            n[1] = m[1] /\ n[2] > m[2] /\ freed'[n] # 0 => m = cur' /\ ppc' = "called"
      BY <1>0, <1>1, <1>2, <2>1, <2>2 DEF Data
    <2>5. \A n \in Messages : n[1] \in Callers \/ pc'[n[1]] \in {"start", "made"} => freed'[n] = 0
      BY <1>0, <1>1, <1>2, <2>1, MessageParts DEF Data
    <2>6. FreedOnce'
      BY <1>2 DEF Data, FreedOnce
    <2> QED BY <1>4, <2>3, <2>4, <2>5, <2>6 DEF Data
  <1>6. CASE ~Add(r)
    <2>1. queue' \subseteq queue
      BY <1>0, <1>6, WalkLemma DEF Typed, CallStep, Make, Send, SendFails, Cancel, Withdraw, Check, Take, Spin, listVars
    <2>2. r \in Askers => (pc'[r] \in {"start", "made"} => pc[r] \in {"start", "made"})
      BY <1>0, <1>6 DEF CallStep, Make, Send, SendFails, Cancel, Withdraw, Check, Take, Spin, Goto, Life, Placed
    <2> QED BY <1>0, <1>1, <1>2, <1>4, <2>1, <2>2, DataLess
  <1> QED BY <1>5, <1>6

\* The data of a message goes when its user is called.
LEMMA DataUser ==
    ASSUME Typed, Life, Data, ppc \notin {"called", "expired"}, NEW m \in queue, m[1] \in Askers, Free(m), UNCHANGED pc,
           queue' \subseteq queue,
           \A n \in queue' : n[1] = m[1] => n = m /\ m = cur' /\ ppc' \in {"called", "expired"}
    PROVE  Data'
  <1>0. freed \in [Messages -> Nat] /\ m \in Messages /\ queue \subseteq Messages
    BY DEF Typed, TypeOK
  <1>1. freed[m] = 0
    BY DEF Data
  <1>2. /\ \A n \in Messages : n # m => freed'[n] = freed[n]
        /\ freed'[m] <= 1
    BY <1>0, <1>1 DEF Free
  <1>3. FreedOnce'
    BY <1>2 DEF Data, FreedOnce
  <1>4. \A n \in queue' : freed'[n] # 0 => n = cur' /\ ppc' \in {"called", "expired"}
    BY <1>0, <1>2 DEF Data
  <1>5. ASSUME NEW x \in queue', NEW n \in Messages, n[1] = x[1], n[2] > x[2], freed'[n] # 0 PROVE FALSE
    <2>1. n # m
      <3>1. SUFFICES ASSUME n = m PROVE FALSE
        OBVIOUS
      <3>2. x = n
        BY <1>5, <3>1
      <3>3. x[2] \in 0 .. 2
        BY <1>0, MessageParts
      <3> QED BY <1>5, <3>2, <3>3
    <2> QED BY <1>2, <1>5, <2>1 DEF Data
  <1>6. \A n \in Messages : n[1] \in Callers \/ pc'[n[1]] \in {"start", "made"} => freed'[n] = 0
    BY <1>2, MessageQueueAssumption DEF Data, Life, OneEach
  <1>7. \A s \in Askers : pc'[s] \notin {"withdraw", "withdrawing"}
    BY DEF Data
  <1> QED BY <1>3, <1>4, <1>5, <1>6, <1>7 DEF Data

LEMMA DataRead ==
    ASSUME Typed, Life, Data, ReadStep
    PROVE  Data'
  <1>0. UNCHANGED pc /\ freed \in [Messages -> Nat] /\ queue \subseteq Messages
    BY DEF ReadStep, Poll, NothingLeft, Ignore, Receive, Callback, MakeAgain, AddAgain, SendAgain, SendAgainFails, Called,
           Typed, TypeOK
  <1>1. CASE Poll \/ NothingLeft \/ MakeAgain \/ \E d \in socket : Ignore(d) \/ \E m \in queue : Receive(d, m)
    <2>1. UNCHANGED <<queue, freed>> /\ ppc \notin {"called", "expired"}
      BY <1>1 DEF Poll, NothingLeft, MakeAgain, Ignore, Receive, listVars
    <2> QED BY <1>0, <2>1 DEF Data, FreedOnce
  <1>2. CASE Callback
    <2>1. CASE Hidden(cur)
      BY <1>0, <1>2, <2>1 DEF Callback, Data, FreedOnce
    <2>2. CASE ~Hidden(cur)
      <3>1. /\ ppc = "call" /\ ppc' = "called" /\ Free(cur) /\ UNCHANGED <<queue, cur>>
            /\ cur \in queue /\ cur[1] \in Askers
        BY <1>2, <2>2, CurIn DEF Callback, Typed, Shape, Calling
      <3>2. \A n \in queue' : n[1] = cur[1] => n = cur
        BY <3>1 DEF Life, OneEach
      <3> QED BY <1>0, <3>1, <3>2, DataUser
    <2> QED BY <2>1, <2>2
  <1>3. CASE AddAgain
    <2>1. /\ queue' = queue \union {Again} /\ UNCHANGED <<freed, cur>> /\ ppc = "made" /\ ppc' = "added" /\ cur \in queue
          /\ Again[1] = cur[1] /\ Again[2] = cur[2] + 1 /\ Again \in Messages /\ cur \in Messages
      BY <1>3, AgainMessage, CurIn DEF Typed, AddAgain, AddEntry, Asking
    <2>2. \A n \in Messages : n[1] = cur[1] /\ n[2] > cur[2] => freed[n] = 0
      BY <2>1 DEF Data
    <2>3. \A n \in Messages : n[1] = Again[1] /\ (n = Again \/ n[2] > Again[2]) => freed[n] = 0
      BY <2>1, <2>2, MessageParts
    <2>4. \A m \in queue : freed[m] = 0
      BY <2>1 DEF Data
    <2>5. \A m \in queue : \A n \in Messages : n[1] = m[1] /\ n[2] > m[2] => freed[n] = 0
      BY <2>1 DEF Data
    <2>6. \A m \in queue' : freed'[m] = 0 /\ \A n \in Messages : n[1] = m[1] /\ n[2] > m[2] => freed'[n] = 0
      BY <1>0, <2>1, <2>3, <2>4, <2>5
    <2> QED BY <1>0, <2>1, <2>6 DEF Data, FreedOnce
  <1>4. CASE SendAgain \/ SendAgainFails
    <2>1. /\ ppc = "added" /\ ppc' = "called" /\ UNCHANGED cur /\ queue' \subseteq queue
          /\ cur \in queue /\ cur \in Messages /\ cur[1] \in Askers
          /\ Again \in Messages /\ Again # cur /\ Again[1] = cur[1] /\ Again[2] = cur[2] + 1
      BY <1>4, AgainMessage, CurIn DEF Typed, Shape, SendAgain, SendAgainFails, Remove, Calling, Asking
    <2>2. freed[cur] = 0 /\ freed[Again] = 0
      BY <2>1, MessageParts DEF Data
    <2>3. freed' \in [Messages -> Nat] /\ \A n \in Messages : n \notin {cur, Again} => freed'[n] = freed[n]
      BY <1>0, <1>4, <2>1 DEF SendAgain, SendAgainFails, Free
    <2>4. freed'[cur] <= 1 /\ freed'[Again] <= 1 /\ (Again \in queue' => freed'[Again] = 0)
      BY <1>0, <1>4, <2>1, <2>2 DEF SendAgain, SendAgainFails, Free, Remove
    <2>5. FreedOnce'
      BY <2>3, <2>4 DEF Data, FreedOnce
    <2>6. \A m \in queue' : freed'[m] # 0 => m = cur' /\ ppc' \in {"called", "expired"}
      BY <1>0, <2>1, <2>3, <2>4 DEF Data
    <2>7. ASSUME NEW m \in queue', NEW n \in Messages, n[1] = m[1], n[2] > m[2], freed'[n] # 0 PROVE m = cur
      <3>1. CASE m[1] = cur[1]
        <4>1. SUFFICES ASSUME m # cur PROVE FALSE
          OBVIOUS
        <4>2. m = Again
          BY <2>1, <3>1, <4>1 DEF Life, OneEach, Pair
        <4>3. n \notin {cur, Again}
          BY <1>0, <2>1, <2>7, <4>2, MessageParts
        <4> QED BY <2>1, <2>3, <2>7, <4>1, <4>3 DEF Data
      <3>2. CASE m[1] # cur[1]
        <4>1. n \notin {cur, Again}
          BY <2>1, <2>7, <3>2
        <4> QED BY <2>1, <2>3, <2>7, <4>1 DEF Data
      <3> QED BY <3>1, <3>2
    <2>8. \A n \in Messages : n[1] \in Callers \/ pc'[n[1]] \in {"start", "made"} => freed'[n] = 0
      BY <1>0, <2>1, <2>3, MessageQueueAssumption DEF Data, Life, OneEach
    <2>9. \A s \in Askers : pc'[s] \notin {"withdraw", "withdrawing"}
      BY <1>0 DEF Data
    <2> QED BY <2>1, <2>5, <2>6, <2>7, <2>8, <2>9 DEF Data
  <1>5. CASE Called
    <2>1. queue' = queue \ {cur} /\ UNCHANGED freed
      BY <1>5 DEF Called, Remove
    <2> QED BY <1>0, <2>1 DEF Data, FreedOnce
  <1> QED BY <1>1, <1>2, <1>3, <1>4, <1>5 DEF ReadStep

LEMMA DataRetry ==
    ASSUME Typed, Life, Data, RetryStep
    PROVE  Data'
  <1>1. CASE Expire
    <2>1. ppc = "resend" /\ ppc' = "expired" /\ UNCHANGED <<pc, queue, cur>> /\ cur \in queue
      BY <1>1, CurIn DEF Expire
    <2>2. CASE cur[1] \in Askers
      <3>1. Free(cur) /\ \A n \in queue' : n[1] = cur[1] => n = cur
        BY <1>1, <2>1, <2>2 DEF Expire, Life, OneEach
      <3> QED BY <2>1, <2>2, <3>1, DataUser
    <2>3. CASE cur[1] \notin Askers
      <3>1. UNCHANGED freed
        BY <1>1, <2>3 DEF Expire
      <3> QED BY <2>1, <3>1 DEF Data, FreedOnce
    <2> QED BY <2>2, <2>3
  <1>2. CASE Expired
    <2>1. queue' = queue \ {cur} /\ UNCHANGED <<pc, freed>> /\ ppc = "expired"
      BY <1>2 DEF Expired, Remove
    <2> QED BY <2>1 DEF Data, FreedOnce
  <1>3. CASE ~(Expire \/ Expired)
    <2>1. UNCHANGED <<queue, freed>> /\ ppc \notin {"called", "expired"}
      BY <1>3 DEF RetryStep, Retry, Received, Resend, Resent, Refused, NothingDue, listVars
    <2>2. \A s \in Requests : pc'[s] = pc[s] \/ pc'[s] = "check"
      <3>1. CASE Refused \/ NothingDue
        BY <3>1, MessageQueueAssumption DEF Typed, TypeOK, Refused, NothingDue, Exit, Goto
      <3>2. CASE ~(Refused \/ NothingDue)
        BY <1>3, <3>2 DEF RetryStep, Retry, Received, Resend, Resent
      <3> QED BY <3>1, <3>2
    <2> QED BY <2>1, <2>2, MessageParts DEF Data, FreedOnce, Requests
  <1> QED BY <1>1, <1>2, <1>3

LEMMA DataStep ==
    ASSUME IdsDiffer, FirstSent, Typed, Life, Data, [Next]_vars
    PROVE  Data'
  <1>1. ASSUME NEW t \in Threads, Enter(t) PROVE Data'
    <2>1. UNCHANGED <<queue, cur, freed>> /\ ppc = "out"
      BY <1>1 DEF Typed, TypeOK, Enter, listVars
    <2>2. \A s \in Requests : pc'[s] = pc[s] \/ pc'[s] = "pass"
      BY <1>1 DEF Typed, TypeOK, Enter, Goto
    <2> QED BY <2>1, <2>2, MessageParts DEF Data, FreedOnce, Requests
  <1>2. ASSUME NEW m \in Messages, Arrive(m) \/ Tick(m) PROVE Data'
    <2>1. UNCHANGED <<pc, ppc, cur, freed, queue>>
      BY <1>2 DEF Arrive, Tick, passVars, listVars
    <2> QED BY <2>1 DEF Data, FreedOnce
  <1>3. CASE StopPollThread \/ Join \/ Destroyed \/ Gone \/ UNCHANGED vars
    <2>1. UNCHANGED <<pc, ppc, cur, freed, queue>>
      BY <1>3 DEF StopPollThread, Join, Destroyed, Gone, vars, passVars, listVars
    <2> QED BY <2>1 DEF Data, FreedOnce
  <1>4. ASSUME NEW m \in queue, DestroyNext(m) PROVE Data'
    <2>1. queue' = queue \ {m} /\ UNCHANGED <<pc, ppc, cur>> /\ ppc = "out"
      BY <1>4 DEF DestroyNext, Remove, passVars, Life, Placed, Typed, TypeOK
    <2>2. CASE m[1] \in Askers
      <3>1. Free(m) /\ \A n \in queue' : n[1] # m[1]
        BY <1>4, <2>1, <2>2 DEF DestroyNext, Life, OneEach
      <3> QED BY <2>1, <2>2, <3>1, DataUser
    <2>3. CASE m[1] \notin Askers
      <3>1. UNCHANGED freed
        BY <1>4, <2>3 DEF DestroyNext
      <3> QED BY <2>1, <3>1 DEF Data, FreedOnce
    <2> QED BY <2>2, <2>3
  <1> QED BY <1>1, <1>2, <1>3, <1>4, DataCall, DataRead, DataRetry DEF Next, DestroyStep

\* When besides the socket takes the first message of every asynchronous
\* request, callback data is deleted once: by the callback, or by v3CallBack
\* when the message it starts again is refused.
THEOREM DataFreedOnce == ASSUME IdsDiffer, FirstSent PROVE Spec => []FreedOnce
  <1>1. Init => Data
    BY DEF Init, Data, FreedOnce, Requests
  <1>2. Typed /\ Life /\ Data /\ [Next]_vars => (Typed /\ Life /\ Data)'
    BY IdsDiffer, FirstSent, TypedStep, OneEachStep, ClosedStep, PlacedStep, DataStep DEF Life
  <1>3. Data => FreedOnce
    BY DEF Data
  <1> QED BY <1>1, <1>2, <1>3, TypedInit, LifeInit, PTL DEF Spec

-----------------------------------------------------------------------------
(* The session implements Exchange. *)

\* What a request has been told, it was told once; and it was told of an answer
\* only if there was one.
Told ==
    /\ \A r \in Callers : pc[r] # "done" => result[r] = "none"
    /\ \A r \in Askers : result[r] # "none" => Over(r)
    /\ \A m \in socket : m[1] \in replied
    /\ \A m \in Messages : got[m] # "none" => m[1] \in replied
    /\ ppc = "call" => cur[1] \in replied
    /\ \A r \in Callers : pc[r] \in {"take", "taking"} /\ Current(r) \in queue => got[Current(r)] # "none"

Kept == [Promise!Next]_(Promise!vars)

LEMMA KeptStill == ASSUME UNCHANGED <<result, replied>> PROVE Kept
  BY DEF Kept, Promise!vars

LEMMA KeptEnd ==
    ASSUME NEW r \in Requests, result[r] = "none", UNCHANGED replied, NEW how \in Failures \union {"answered"},
           how = "answered" => r \in replied, EndRequest(r, how)
    PROVE  Kept
  BY DEF Kept, EndRequest, Promise!Next, Promise!Answer, Promise!Fail

LEMMA ToldCall ==
    ASSUME IdsDiffer, FirstSent, Typed, Life, Data, Told, NEW r \in Requests, CallStep(r)
    PROVE  Told' /\ Kept
  <1>0. /\ pc \in [Requests \union {Poller} -> CallPlaces] /\ try \in [Requests -> 0 .. 2]
        /\ result \in [Requests -> Failures \union {"none", "answered"}]
        /\ Current(r) \in Messages /\ Current(r)[1] = r /\ <<r, 0>> \in Messages
        /\ Askers \subseteq Requests /\ \A s \in Callers : s \in Requests /\ s \notin Askers
    BY CurrentMessage, MessageQueueAssumption DEF Typed, TypeOK, Requests
  <1>1. /\ UNCHANGED <<ppc, cur, calls, socket, replied>>
        /\ \A s \in Requests : s # r => pc'[s] = pc[s] /\ result'[s] = result[s] /\ try'[s] = try[s]
    BY <1>0 DEF CallStep, Make, Add, Send, SendFails, Cancel, Withdraw, Check, Take, Spin, DeleteEntry, TimedOut, Taken,
                EndRequest, Goto, passVars, userVars, netVars
  <1>2. \A m \in Messages : got'[m] = got[m] \/ (got'[m] = "none" /\ m \notin queue')
    <2>1. ASSUME NEW m \in Messages, NEW place, DeleteEntry(r, m, place)
          PROVE  \A n \in Messages : got'[n] = got[n] \/ (got'[n] = "none" /\ n \notin queue')
      BY <2>1, WalkLemma DEF Typed, TypeOK, Remove
    <2> QED BY <1>0, <2>1 DEF CallStep, Make, Add, Send, SendFails, Cancel, Withdraw, Check, Take, Spin, listVars
  <1>3. queue' \subseteq queue \union {Current(r)}
    BY <1>0, WalkLemma DEF Typed, CallStep, Make, Add, AddEntry, Send, SendFails, Cancel, Withdraw, Check, Take, Spin,
                           listVars
  <1>4. \A m \in Messages : got'[m] # "none" => m[1] \in replied'
    BY <1>1, <1>2 DEF Told
  <1>5. \A s \in Callers : s # r /\ pc'[s] \in {"take", "taking"} /\ Current(s)' \in queue' => got'[Current(s)'] # "none"
    <2>1. SUFFICES ASSUME NEW s \in Callers, s # r, pc'[s] \in {"take", "taking"}, Current(s)' \in queue'
                   PROVE  got'[Current(s)'] # "none"
      OBVIOUS
    <2>2. Current(s)' = Current(s) /\ Current(s)[1] = s /\ Current(s) \in Messages
      BY <1>0, <1>1, <2>1, CurrentMessage DEF Current, Typed
    <2>3. Current(s) \in queue /\ pc[s] \in {"take", "taking"}
      BY <1>0, <1>1, <1>3, <2>1, <2>2
    <2> QED BY <1>2, <2>1, <2>2, <2>3 DEF Told
  <1>6. ASSUME result'[r] = result[r],
               r \in Callers /\ pc'[r] \in {"take", "taking"} /\ Current(r)' \in queue' => got'[Current(r)'] # "none",
               pc[r] = "done" => pc'[r] = "done"
        PROVE  Told' /\ Kept
    <2>1. UNCHANGED result
      BY <1>0, <1>1, <1>6 DEF CallStep, Make, Add, Send, SendFails, Cancel, Withdraw, Check, Take, Spin, TimedOut, Taken,
                EndRequest, userVars
    <2>2. Told'
      BY <1>0, <1>1, <1>4, <1>5, <1>6, <2>1 DEF Told, Over
    <2> QED BY <1>1, <2>1, <2>2, KeptStill
  <1>7. ASSUME pc[r] # "done", pc'[r] = "done", result[r] = "none", result'[r] # "none",
               r \in Askers => result'[r] = "cancelled"
        PROVE  Told'
    <2>1. \A s \in Askers : result'[s] # "none" => Over(s)'
      BY <1>0, <1>1, <1>7 DEF Told, Over
    <2>2. \A s \in Callers : pc'[s] # "done" => result'[s] = "none"
      BY <1>0, <1>1, <1>7 DEF Told
    <2> QED BY <1>0, <1>1, <1>4, <1>5, <1>7, <2>1, <2>2 DEF Told
  <1>8. ASSUME NEW m, NEW place \in {"cancelling", "withdrawing", "taking"}, Spin(r, m, place), pc[r] # "done",
               place = "taking" => pc[r] \in {"take", "taking"}
        PROVE Told' /\ Kept
    <2>1. UNCHANGED <<queue, got, try, result>> /\ pc'[r] = place
      BY <1>0, <1>8 DEF Spin, Goto, listVars, userVars
    <2> QED BY <1>0, <1>6, <1>8, <2>1 DEF Told, Current
  <1>9. CASE Make(r) \/ Add(r) \/ Send(r) \/ SendFails(r)
    BY <1>0, <1>6, <1>9 DEF Make, Add, Send, SendFails, Goto, userVars
  <1>10. CASE Check(r)
    <2>1. UNCHANGED <<queue, got, try, result>> /\ pc[r] = "check"
      BY <1>10 DEF Check, listVars, userVars
    <2>2. pc'[r] \in {"take", "taking"} /\ Current(r) \in queue => got[Current(r)] # "none"
      <3>1. Current(r) \in queue => Current(r) \in Found(Current(r))
        BY <1>0 DEF Found
      <3> QED BY <1>0, <1>10, <3>1 DEF Check, Goto
    <2> QED BY <1>0, <1>6, <2>1, <2>2 DEF Current
  <1>11. CASE Withdraw(r)
    <2>1. r \in Callers /\ pc[r] # "done"
      BY <1>11 DEF Withdraw, Data, Requests
    <2>2. ASSUME Goto(r, "done"), EndRequest(r, "failed") PROVE Told' /\ Kept
      <3>1. result[r] = "none" /\ result'[r] = "failed" /\ pc'[r] = "done"
        BY <1>0, <2>1, <2>2 DEF Told, EndRequest, Goto
      <3> QED BY <1>0, <1>1, <1>7, <2>1, <2>2, <3>1, KeptEnd DEF Failures
    <2> QED BY <1>8, <1>11, <2>1, <2>2 DEF Withdraw
  <1>12. CASE Cancel(r)
    <2>1. r \in Askers /\ pc[r] # "done" /\ r \notin Callers
      BY <1>12, MessageQueueAssumption DEF Cancel
    <2>2. ASSUME DeleteEntry(r, <<r, 0>>, "cancelling"), Goto(r, "done"), Found(<<r, 0>>) # {},
                 EndRequest(r, "cancelled")
          PROVE  Told' /\ Kept
      <3>1. <<r, 0>> \in queue \ locked
        BY <1>0, <2>2, WalkLemma DEF Typed
      <3>2. <<r, 0>> # cur
        BY <1>0, <3>1, MessageQueueAssumption DEF Typed, Shape
      <3>3. result[r] = "none"
        BY <2>1, <3>1, <3>2 DEF Life, Closed, Told
      <3>4. result'[r] = "cancelled" /\ pc'[r] = "done"
        BY <1>0, <2>2 DEF EndRequest, Goto
      <3> QED BY <1>0, <1>1, <1>7, <2>1, <2>2, <3>3, <3>4, KeptEnd DEF Failures
    <2>3. ASSUME Goto(r, "done"), UNCHANGED result PROVE Told' /\ Kept
      BY <1>0, <1>6, <2>1, <2>3 DEF Goto
    <2> QED BY <1>8, <1>12, <2>1, <2>2, <2>3 DEF Cancel
  <1>13. CASE Take(r)
    <2>1. r \in Callers /\ pc[r] # "done" /\ r \notin Askers /\ result[r] = "none" /\ pc[r] \in {"take", "taking"}
      BY <1>0, <1>13 DEF Take, Life, Placed, Requests, Told
    <2>2. CASE TimedOut(r)
      <3>1. result'[r] = "timeout" /\ pc'[r] = "done"
        BY <1>0, <2>2 DEF TimedOut, EndRequest, Goto
      <3> QED BY <1>0, <1>1, <1>7, <2>1, <2>2, <3>1, KeptEnd DEF Failures, TimedOut
    <2>3. ASSUME NEW m \in Found(Current(r)), Taken(r, got[m]) PROVE Told' /\ Kept
      <3>1. m = Current(r) /\ m \in queue
        BY <1>0, <2>3, FoundIs DEF Typed
      <3>2. r \in replied
        BY <1>0, <2>1, <3>1 DEF Told
      <3>3. CASE EndRequest(r, "answered") /\ Goto(r, "done")
        <4>1. result'[r] = "answered" /\ pc'[r] = "done"
          BY <1>0, <3>3 DEF EndRequest, Goto
        <4> QED BY <1>0, <1>1, <1>7, <2>1, <3>2, <3>3, <4>1, KeptEnd
      <3>4. CASE Goto(r, "start") /\ UNCHANGED result
        BY <1>0, <1>6, <2>1, <3>4 DEF Goto
      <3> QED BY <2>3, <3>3, <3>4 DEF Taken
    <2>4. Spin(r, Current(r), "taking") \/ TimedOut(r) \/ \E m \in Found(Current(r)) : Taken(r, got[m])
      BY <1>13 DEF Take
    <2> QED BY <1>8, <2>1, <2>2, <2>3, <2>4
  <1> QED BY <1>9, <1>10, <1>11, <1>12, <1>13 DEF CallStep

\* A user who is called had not been told anything.
LEMMA ToldUser ==
    ASSUME Typed, Life, Told, ppc \notin {"called", "expired"}, NEW m \in queue, m[1] \in Askers,
           NEW how \in Failures \union {"answered"}, how = "answered" => m[1] \in replied,
           CallUser(m[1], how), UNCHANGED <<pc, try, replied, socket>>, ppc' # "call",
           queue' \subseteq queue, \A n \in Messages : got'[n] = got[n] \/ (got'[n] = "none" /\ n \notin queue')
    PROVE  Told' /\ Kept
  <1>0. /\ calls \in [Requests -> Nat] /\ result \in [Requests -> Failures \union {"none", "answered"}]
        /\ m[1] \in Requests /\ \A r \in Callers : r \in Requests /\ r # m[1]
    BY MessageQueueAssumption DEF Typed, TypeOK, Requests
  <1>1. calls[m[1]] = 0 /\ result[m[1]] = "none"
    BY NotOver DEF Life, Told, Over
  <1>2. calls'[m[1]] = 1
    BY <1>0, <1>1 DEF CallUser
  <1>3. \A s \in Requests : s # m[1] => calls'[s] = calls[s] /\ result'[s] = result[s]
    BY <1>0 DEF CallUser, EndRequest
  <1>4. \A s \in Callers : pc'[s] # "done" => result'[s] = "none"
    BY <1>0, <1>3 DEF Told
  <1>5. \A s \in Askers : result'[s] # "none" => Over(s)'
    BY <1>2, <1>3 DEF Told, Over, Requests
  <1>6. ASSUME NEW s \in Callers, pc'[s] \in {"take", "taking"}, Current(s)' \in queue' PROVE got'[Current(s)'] # "none"
    <2>1. Current(s)' = Current(s) /\ Current(s) \in Messages
      BY <1>0, CurrentMessage DEF Current, Typed
    <2> QED BY <1>6, <2>1 DEF Told
  <1>7. (\A n \in socket' : n[1] \in replied') /\ (\A n \in Messages : got'[n] # "none" => n[1] \in replied')
    BY DEF Told
  <1>8. Told'
    BY <1>4, <1>5, <1>6, <1>7 DEF Told
  <1> QED BY <1>0, <1>1, <1>8, KeptEnd DEF CallUser

\* Steps that tell nobody anything.
LEMMA ToldLess ==
    ASSUME Typed, Told, UNCHANGED <<userVars, try>>, UNCHANGED replied, socket' \subseteq socket,
           queue' \intersect (Callers \X (0 .. 2)) \subseteq queue,
           \A n \in Messages : got'[n] = got[n] \/ (got'[n] = "none" /\ n \notin queue'),
           \A s \in Callers : pc'[s] = pc[s] \/ (pc[s] # "done" /\ pc'[s] \notin {"take", "taking"}),
           ppc' = "call" => ppc = "call" /\ cur' = cur
    PROVE  Told' /\ Kept
  <1>1. ASSUME NEW s \in Callers, pc'[s] \in {"take", "taking"}, Current(s)' \in queue' PROVE got'[Current(s)'] # "none"
    <2>1. Current(s)' = Current(s) /\ Current(s) \in Messages /\ Current(s) \in Callers \X (0 .. 2)
      BY CurrentMessage DEF Current, Typed, TypeOK, Requests
    <2> QED BY <1>1, <2>1 DEF Told
  <1>2. \A s \in Callers : pc'[s] # "done" => result'[s] = "none"
    BY DEF Told, userVars
  <1>3. \A s \in Askers : result'[s] # "none" => Over(s)'
    BY DEF Told, Over, userVars
  <1>4. (\A n \in socket' : n[1] \in replied') /\ (\A n \in Messages : got'[n] # "none" => n[1] \in replied')
    BY DEF Told
  <1> QED BY <1>1, <1>2, <1>3, <1>4, KeptStill DEF Told, userVars

LEMMA ToldRead ==
    ASSUME IdsDiffer, Typed, Life, Told, ReadStep
    PROVE  Told' /\ Kept
  <1>0. UNCHANGED <<pc, try, replied>> /\ got \in [Messages -> Replies \union Reports \union {"none"}]
    BY DEF ReadStep, Poll, NothingLeft, Ignore, Receive, Callback, MakeAgain, AddAgain, SendAgain, SendAgainFails, Called,
           netVars, Typed, TypeOK
  <1>1. CASE Poll \/ NothingLeft \/ MakeAgain \/ SendAgain \/ \E d \in socket : Ignore(d)
    <2>1. UNCHANGED <<queue, got, userVars>> /\ socket' \subseteq socket /\ ppc' # "call"
      BY <1>1 DEF Poll, NothingLeft, MakeAgain, SendAgain, Ignore, listVars, netVars
    <2> QED BY <1>0, <2>1, ToldLess
  <1>2. ASSUME NEW d \in socket, NEW m \in queue, Receive(d, m) PROVE Told' /\ Kept
    <2>1. m = d /\ m \in Messages /\ m[1] \in replied
      BY <1>2, FoundIs DEF Receive, Typed, TypeOK, Told
    <2>2. PICK kind \in Replies \union Reports : Accept(m, kind)
      BY <1>2 DEF Receive, Kinds
    <2>3. /\ \A n \in Messages : n # m => got'[n] = got[n]
          /\ got'[m] # "none"
      BY <1>0, <2>1, <2>2 DEF Accept, Replies, Reports
    <2>4. UNCHANGED <<queue, userVars>> /\ socket' \subseteq socket /\ (ppc' = "call" => cur' = m)
      BY <1>2 DEF Receive
    <2>5. ASSUME NEW s \in Callers, pc'[s] \in {"take", "taking"}, Current(s)' \in queue'
          PROVE  got'[Current(s)'] # "none"
      <3>1. Current(s)' = Current(s) /\ Current(s) \in Messages
        BY <1>0, CurrentMessage DEF Current, Typed, Requests
      <3> QED BY <1>0, <2>3, <2>4, <2>5, <3>1 DEF Told
    <2>6. \A n \in Messages : got'[n] # "none" => n[1] \in replied'
      BY <1>0, <2>1, <2>3 DEF Told
    <2>7. \A s \in Askers : result'[s] # "none" => Over(s)'
      BY <2>4 DEF Told, Over, userVars
    <2>8. \A s \in Callers : pc'[s] # "done" => result'[s] = "none"
      BY <1>0, <2>4 DEF Told, userVars
    <2>9. Told'
      BY <1>0, <2>1, <2>4, <2>5, <2>6, <2>7, <2>8 DEF Told
    <2> QED BY <1>0, <2>4, <2>9, KeptStill DEF userVars
  <1>3. CASE Callback
    <2>1. CASE Hidden(cur)
      <3>1. UNCHANGED <<queue, got, userVars, socket>> /\ ppc' # "call"
        BY <1>3, <2>1 DEF Callback, netVars
      <3> QED BY <1>0, <3>1, ToldLess
    <2>2. CASE ~Hidden(cur)
      <3>1. /\ ppc = "call" /\ ppc' = "called" /\ CallUser(cur[1], "answered") /\ UNCHANGED <<queue, got, socket>>
            /\ cur \in queue /\ cur[1] \in Askers /\ cur[1] \in replied
        BY <1>3, <2>2, CurIn DEF Callback, Typed, Shape, Calling, Told, netVars
      <3> QED BY <1>0, <3>1, ToldUser
    <2> QED BY <2>1, <2>2
  <1>4. CASE AddAgain
    <2>1. queue' = queue \union {Again} /\ UNCHANGED <<userVars, got, socket>> /\ ppc' = "added" /\ Again[1] \in Askers
      BY <1>4, AgainMessage DEF Typed, Shape, AddAgain, AddEntry, Calling, Asking, netVars
    <2>2. queue' \intersect (Callers \X (0 .. 2)) \subseteq queue
      BY <2>1, MessageQueueAssumption
    <2> QED BY <1>0, <2>1, <2>2, ToldLess
  <1>5. CASE SendAgainFails
    <2>1. /\ ppc = "added" /\ ppc' = "called" /\ CallUser(cur[1], "failed") /\ queue' = queue \ {Again}
          /\ got' = [got EXCEPT ![Again] = "none"] /\ UNCHANGED socket /\ cur \in queue /\ cur[1] \in Askers
      BY <1>5, CurIn DEF SendAgainFails, Remove, Typed, Shape, Calling, netVars
    <2>2. \A n \in Messages : got'[n] = got[n] \/ (got'[n] = "none" /\ n \notin queue')
      BY <1>0, <2>1
    <2> QED BY <1>0, <2>1, <2>2, ToldUser DEF Failures
  <1>6. CASE Called
    <2>1. queue' = queue \ {cur} /\ got' = [got EXCEPT ![cur] = "none"] /\ UNCHANGED <<userVars, socket>> /\ ppc' = "poll"
      BY <1>6 DEF Called, Remove, netVars
    <2>2. \A n \in Messages : got'[n] = got[n] \/ (got'[n] = "none" /\ n \notin queue')
      BY <1>0, <2>1
    <2> QED BY <1>0, <2>1, <2>2, ToldLess
  <1> QED BY <1>1, <1>2, <1>3, <1>4, <1>5, <1>6 DEF ReadStep

LEMMA ToldRetry ==
    ASSUME IdsDiffer, Typed, Life, Told, RetryStep
    PROVE  Told' /\ Kept
  <1>0. UNCHANGED <<try, replied, socket>> /\ got \in [Messages -> Replies \union Reports \union {"none"}]
        /\ ppc' # "call" /\ queue' \subseteq queue
    BY DEF RetryStep, Retry, Received, Expire, Resend, Resent, Refused, Expired, NothingDue, Exit, Remove, netVars,
           listVars, Typed, TypeOK
  <1>1. CASE Expire
    <2>1. ppc = "resend" /\ UNCHANGED <<pc, queue, got>> /\ cur \in queue
      BY <1>1, CurIn DEF Expire
    <2>2. CASE cur[1] \in Askers
      BY <1>0, <1>1, <2>1, <2>2, ToldUser DEF Expire, Failures
    <2>3. CASE cur[1] \notin Askers
      BY <1>0, <1>1, <2>1, <2>3, ToldLess DEF Expire
    <2> QED BY <2>2, <2>3
  <1>2. CASE Expired
    <2>1. queue' = queue \ {cur} /\ got' = [got EXCEPT ![cur] = "none"] /\ UNCHANGED <<pc, userVars>>
      BY <1>2 DEF Expired, Remove
    <2>2. \A n \in Messages : got'[n] = got[n] \/ (got'[n] = "none" /\ n \notin queue')
      BY <1>0, <2>1
    <2> QED BY <1>0, <2>1, <2>2, ToldLess
  <1>3. CASE ~(Expire \/ Expired)
    <2>1. UNCHANGED <<queue, got, userVars>>
      BY <1>3 DEF RetryStep, Retry, Received, Resend, Resent, Refused, NothingDue, listVars
    <2>2. \A s \in Requests : pc'[s] = pc[s] \/ (pc[s] = "pass" /\ pc'[s] = "check")
      <3>1. CASE Refused \/ NothingDue
        BY <3>1, MessageQueueAssumption DEF Life, Placed, Typed, TypeOK, Refused, NothingDue, Exit, Goto
      <3>2. CASE ~(Refused \/ NothingDue)
        BY <1>3, <3>2 DEF RetryStep, Retry, Received, Resend, Resent
      <3> QED BY <3>1, <3>2
    <2> QED BY <1>0, <2>1, <2>2, ToldLess DEF Requests
  <1> QED BY <1>1, <1>2, <1>3

LEMMA ToldStep ==
    ASSUME IdsDiffer, FirstSent, Typed, Life, Data, Told, [Next]_vars
    PROVE  Told' /\ Kept
  <1>0. got \in [Messages -> Replies \union Reports \union {"none"}]
    BY DEF Typed, TypeOK
  <1>1. ASSUME NEW t \in Threads, Enter(t) PROVE Told' /\ Kept
    <2>1. UNCHANGED <<try, userVars, replied, socket, queue, got>> /\ ppc' = "poll"
      BY <1>1 DEF Enter, listVars, netVars
    <2>2. \A s \in Requests : pc'[s] = pc[s] \/ (pc[s] = "wait" /\ pc'[s] = "pass")
      BY <1>1 DEF Typed, TypeOK, Enter, Goto
    <2> QED BY <2>1, <2>2, ToldLess DEF Requests
  <1>2. ASSUME NEW m \in Messages, Arrive(m) PROVE Told' /\ Kept
    <2>1. /\ socket' = socket \union {m} /\ replied' = replied \union {m[1]}
          /\ UNCHANGED <<pc, try, userVars, listVars, ppc, cur>> /\ m[1] \in Requests
      BY <1>2, MessageParts DEF Arrive, passVars
    <2>2. Told'
      BY <2>1 DEF Told, Over, Current, userVars, listVars
    <2>3. Kept
      BY <2>1 DEF Kept, Promise!Next, Promise!Reply, userVars
    <2> QED BY <2>2, <2>3
  <1>3. ASSUME NEW m \in Messages, Tick(m) PROVE Told' /\ Kept
    <2>1. UNCHANGED <<pc, try, userVars, replied, socket, queue, got, ppc, cur>>
      BY <1>3 DEF Tick, listVars, netVars, passVars
    <2> QED BY <2>1, ToldLess
  <1>4. CASE StopPollThread \/ Join \/ Destroyed \/ Gone \/ UNCHANGED vars
    <2>1. UNCHANGED <<pc, try, userVars, replied, socket, queue, got, ppc, cur>>
      BY <1>4 DEF StopPollThread, Join, Destroyed, Gone, vars, listVars, netVars, passVars
    <2> QED BY <2>1, ToldLess
  <1>5. ASSUME NEW m \in queue, DestroyNext(m) PROVE Told' /\ Kept
    <2>1. /\ queue' = queue \ {m} /\ got' = [got EXCEPT ![m] = "none"]
          /\ UNCHANGED <<pc, try, ppc, cur, replied, socket>> /\ ppc = "out"
      BY <1>5 DEF DestroyNext, Remove, passVars, netVars, Life, Placed, Typed, TypeOK
    <2>2. \A n \in Messages : got'[n] = got[n] \/ (got'[n] = "none" /\ n \notin queue')
      BY <1>0, <2>1
    <2>3. CASE m[1] \in Askers
      BY <1>5, <2>1, <2>2, <2>3, ToldUser DEF DestroyNext, Failures
    <2>4. CASE m[1] \notin Askers
      BY <1>5, <2>1, <2>2, <2>4, ToldLess DEF DestroyNext
    <2> QED BY <2>3, <2>4
  <1> QED BY <1>1, <1>2, <1>3, <1>4, <1>5, ToldCall, ToldRead, ToldRetry DEF Next, DestroyStep

\* Under the same conditions a session implements Exchange: whatever is lost,
\* copied, sent again or destroyed, a request ends once, and as answered only if
\* an answer to it has arrived.
THEOREM Refinement == ASSUME IdsDiffer, FirstSent PROVE Spec => ImplementsExchange
  <1>1. Init => Data /\ Told /\ Promise!Init
    BY DEF Init, Data, FreedOnce, Told, Requests, Promise!Init
  <1>2. /\ Typed /\ Life /\ Data /\ Told /\ [Next]_vars => (Typed /\ Life /\ Data /\ Told)'
        /\ Typed /\ Life /\ Data /\ Told /\ [Next]_vars => [Promise!Next]_(Promise!vars)
    BY IdsDiffer, FirstSent, TypedStep, OneEachStep, ClosedStep, PlacedStep, DataStep, ToldStep DEF Life, Kept
  <1> QED BY <1>1, <1>2, TypedInit, LifeInit, PTL DEF Spec, ImplementsExchange, Promise!Spec
=============================================================================
