# A TLA+ model of agent++, AgentX++ and snmp++

This directory holds TLA+ modules that model the SNMP agent tool kit of this
repository, the TLC configurations that check them on small instances, and
theorems about them that TLAPS proves. `PROJECT.json` maps every definition to
the lines it models and lists the runs, the hazards and the theorems.

Run a check with `tlc -config SetPlain.cfg MCMibSetTransaction`, a proof with
`tlapm MibSetProofs.tla`.

## The system

| Component | State | Operations | Interacts with |
|---|---|---|---|
| MIB instrumentation: `MibLeaf`, `snmpRowStatus`, `MibTable` (`agent++/src/mib.cpp`) | values, undo copies, rows, `delete_rows`, `notready_rows` | get, prepare, commit, undo, cleanup, row creation and removal, row sweep | called by `Mib` with the entry locked; tells its listeners (other tables) about rows |
| SET and GET processing: `Mib`, `Request` (`mib.cpp`, `request.cpp`) | MIB lock, per request: phase, `ready`, `done`, `locks` | four SET phases, GET, GETNEXT, GETBULK | runs in threads of the pool; locks entries through the lock queue |
| Request list (`request.cpp`) | requests in progress, transaction ids | receive, add, answer, remove | main thread receives, pool threads answer |
| Threads (`threads.cpp`) | monitors, tasks, pools, lock queue | lock, wait, notify, execute, terminate, acquire, release | everything |
| Contexts and registration (`mib_context.cpp`) | entries by OID | add, remove, find | `Mib` under the MIB lock |
| VACM (`vacm.cpp`) | groups, access, views | isAccessAllowed | asked by `Mib` before an entry is locked |
| Administration MIBs, notifications, log, proxy | tables of the kinds above | SET hooks, notification generation, log limits | `MibTable` hooks and listeners |
| AgentX master (`agentx++/src/agentx_master.cpp` and friends) | sessions, registrations, index values, queue of subrequests | open, close, register, allocate, response, timeout, SET phases | subagents over sockets; the pool |
| AgentX subagent (`agentx_subagent.cpp`, `agentx_request.cpp`) | request list, locks kept from TestSet to CleanupSet | receive, reconnect | master |
| snmp++ (`snmp++/src`) | message queue with retries, notify queue, USM time and MPv3 caches | send, receive, retry, time out | used by notifications, proxies and `RequestList` |

What is hard in it: SETs run concurrently and lock entry by entry in the order
of their bindings; the mutexes belong to the thread of the lock queue, not to
the request; a SET touches its rows again in a later phase, through indexes
that other bindings of the same PDU may have changed; a binding may cover
others; failures happen in the middle of a phase; the sweep, the removal of
entries and the master agent's timeouts run beside all of that.

What makes each part correct: a SET takes effect as a whole or not at all and
nobody sees the middle of it; nothing a request acquires (locks, undo copies,
`delete_rows`) outlives it; every request is answered; a pool runs each task
once; the lock queue grants each lock to one holder at a time; an index value
belongs to one session.

## Modules

| Module | Contents |
|---|---|
| `MibObjects` | instances and bindings, and what one binding does to them: RowStatus transitions, prepare, commit, undo, cleanup of leaves and tables |
| `MibSetTransaction` | requests as processes: MIB lock, entry locks, the four SET phases, the GET branch; its safety and liveness properties |
| `MibStore` | what a manager may rely on: an atomic store |
| `MibSetAtomicity` | `MibSetTransaction` with a history variable, and the refinement mapping to `MibStore` |
| `MibSetProofs` | lemmas about `MibObjects`; type correctness and the locks of `MibSetTransaction` |
| `MibAtomicityProofs` | what the phases of a SET leave behind, and that `MibSetAtomicity` implements `MibStore` |
| `AgentXIndex` | allocation of index values by the AgentX master, its index PDUs, and the sessions as they are opened and closed beside them |
| `AgentXIndexProofs` | lemmas and theorems about it |
| `TaskManagers` | the workers of a thread pool |
| `ThreadPool` | callers of `execute`, workers, and the thread that terminates and deletes the pool |
| `TaskBag` | what a pool promises: a bag of tasks, each run at most once |
| `ThreadPoolProofs` | lemmas and theorems about it |
| `LockQueue` | the queue's thread and lists, with SETs that acquire and release through it, GETs that lock beside it, and its destructor |
| `LockTable` | what a lock queue promises: a table with at most one owner of each object |
| `LockQueueProofs` | lemmas and theorems about it |
| `MessageQueue` | the requests of a snmp++ session: blocking callers, asynchronous ones, the poll thread, retries, reports, cancel, the destructor, and the network |
| `Exchange` | what a session promises: a request ends once, and as answered only if it was |
| `MessageQueueProofs` | lemmas and theorems about it |
| `AgentXSets` | SETs for the objects of subagents: the threads of the master agent, its PDU queue, timeouts, and sessions that end meanwhile |
| `SetAgreement` | what the master owes: commit only what all have tested, success only when all have committed, an error only when all is undone or cleaned up |
| `AgentXSetProofs` | lemmas and theorems about it |
| `SubagentRequests` | the requests of a subagent: its main thread, its pool, the entry locks that go from phase to phase of a SET, and the master that sends the phases |
| `SubagentProofs` | lemmas and theorems about it |
| `MCMibSetTransaction`, `MCAgentXIndex`, `MCMessageQueue`, `MCAgentXSets`, `MCSubagentRequests` | small instances for TLC; `ThreadPool` and `LockQueue` need none |

### SET transactions: how the model corresponds to the code

`pc[r]` is where a request's thread is in `Mib::process_set_request`
(`prepare`, `commit`, `undo`, `cleanup`), `Request::set_locked` (`lock`),
`Mib::finalize` (`answer`) or `~Request` (`delete`); `idx[r]` is the loop
variable of the phase. `locks[r]`, `ready[r]`, `done[r]` are the arrays of
`Request`. `owner[e]` is the holder of the entry's mutex: for a SET that is
really the lock queue's thread, which is why `Unlock` releases any lock a SET
holds, whoever that SET is. `want[r]` is what `set_locked` still has to
acquire. `undo` is `MibLeaf::undo`, `deleteRows` the union of all
`MibTable::delete_rows`.

One action is one iteration of a phase's loop. That is as fine as other
requests can observe: an iteration touches objects only while the entry is
locked, and `Lock` is an action for each lock. What instrumentation may add
(`value_ok`, voters, locked columns, access rights, a `set` that fails) is a
nondeterministic rejection or failure. A failed `set` has already made its undo
copy, as `MibLeaf::set` makes it first. The call that creates a row commits the
other bindings of that row too, but of several for its status only the last
(`FinishedByAddRow`): the others stay `ready`, without a lock and not `done`.

Bounds: two scalars, a table (and a listener table in some runs) with one row,
two values, two SETs and one GET, PDUs of at most `MaxVbs` bindings, drawn from
the sets `MCMibSetTransaction` defines. They are enough for two SETs in opposite lock
orders, repeated entries, row creation with and without covered bindings, row
destruction, failure at every binding, and a reader at every point. No PDU of the
passing runs names the status of a row twice; `RepeatedStatus`, in `SetGap`, does.

Fairness: weak fairness of each request's next step. Threads of the pool are
scheduled by the operating system; a thread that waits for a lock is woken by
the lock queue, which tries all pending requests after every release and every
5 s (`threads.cpp:1118`). With entry locks taken while the MIB lock is held, no
second SET competes for the same entry, and each competing GET holds it once
per binding, so weak fairness is enough.

### Index allocation: how the model corresponds to the code

`AgentXIndex` models one context, thus one `AgentXIndexDB`. `owner[i]` is
`allocatedValues` of index `i` with the session of each entry, `used[i]` is
`usedValues`, `syntax[i]` the syntax the `AgentXIndex` was made with. `phase`,
`pdu` and `at` are where the master thread is in `process_ax_indexallocate` or
`process_ax_indexdeallocate`: a loop that tests every binding, a loop that
commits every binding, and the answer. One action is one iteration, because
the lock of the database covers one binding. `Silent` sessions are those whose
own subagent closed them or is gone.

A closing is a record with the duties it still has, in the order of the code:
`AgentXCloseTask::run` removes the indexes before the session when a Close PDU
came, `remove_peer` and `close_session` after it. The first two run in the
registration thread, a timeout in the master thread between two PDUs, and an
administrative close wherever the row of the session is deleted
(`agentx_mib.cpp:49`). `closing` has one record per session and way, so they
may overlap.

`Values` are the single sub-identifiers an integer index may have, and stand
for the values of a string index too. `MaxValue` is the greatest: an int32
past it is negative and has no index value (`agentx_index.cpp:59`), an unsigned
one wraps to 0, because the projects of this repository are built where
`unsigned long` has 32 bits (`vs2013`). `claims` and `handedOut` are history:
what each subagent was answered, and every value ever allocated.

Bounds: two sessions, two indexes, `MaxPdus` PDUs of one or two bindings, values
up to 2. Three values let one be owned, one released and one fresh at the same
time; four PDUs are an allocation, a release, another allocation and one more by
the other session, which every counterexample needs at most. In the run `index`
the values of one index are allocated by name and those of the other by
`any_index` and `new_index`: mixing them is what `IndexStolen` shows to fail.

Fairness (`FairSpec`): weak fairness of the master's steps and of the closings'.
The master thread does not block between two bindings, the registration thread
has a queue and one worker, and `close_session` waits for nothing that waits for
it. Neither opening a session nor sending or closing is fair.

### The thread pool: how the model corresponds to the code

`task[w]` and `go[w]` are the fields of `TaskManager` number `w` in `taskList`,
`wpc[w]` is where its thread is in `TaskManager::run`. A worker holds its own
lock from the test of `go` to the end of the task (`Locked`), so `set_task` waits
for a task that is running, as does the destructor. Everybody else takes that
lock for one step. `cpc[c]` and `at[c]` are the place and the cursor of a caller
in `ThreadPool::execute`: the pool's lock is held in `scan` and given up before
`set_task` (`set`), which is where the interesting interleavings are. `is_idle`
and `stop` take no lock of the worker. The owner (`tpc`, `tat`) goes through
`terminate`, the loop of `Mib::~Mib` over `is_idle`, and the destructors;
`MasterAgentXMib::~MasterAgentXMib` deletes its pool without that loop, which is
`Delete` from `pause`. The second `terminate`, in the destructor of the pool,
finds `go` unset everywhere and is left out. Waits end when notified and for no
reason (`Awake`, `Timeout`).

It is assumed that a call of `execute` does not begin after `terminate`
(`threads.h:544`) but may overlap with it, and that a pool is not deleted while
somebody is in `execute`.

Bounds: two workers, two callers, three tasks. Two callers compete for one
worker, one waits while both workers are busy, and a worker gets a second task.
The counterexamples need one worker.

Fairness (`FairSpec`): strong fairness of each thread's steps. A thread is at one
place at a time, so that is strong fairness of the step it waits to take: a lock
that is free again and again is got some time, tasks end, waits with a timeout
end. A wait without a timeout may last until it is notified (`Awake` is not
fair), and nothing makes a caller call or the owner terminate.

### The lock queue: how the model corresponds to the code

`owner` of `MibSetTransaction` says who may use an entry; `LockQueue` says how
that comes about. `mutex[t]` is the mutex of object `t`: the queue's thread owns
it for every SET that holds `t`, a GET owns it itself. `pendingLock` and
`pendingRelease` are the lists of the queue, with a SET for its `LockRequest`;
`tgt[r]` is `LockRequest::target`, and `call[r]` how far `r` is between putting
the `LockRequest` in a list and coming back from `r.wait()`. `qpc` is where the
queue's thread is in `LockQueue::run`: it has the queue locked (`Busy`) from
`drain`, where it serves the releases, over `scan`, where it tries as many
requests as were waiting when the scan began (`left`) and puts those it cannot
serve at the end, to its `wait(5000)`. `released` and `granted` are the places
where it waits for the lock of a `LockRequest` in order to notify it, which it
gets when the request waits. `dpc` is `~LockQueue`.

The requests are reduced to what they do with locks: a SET locks some of the
objects it names while it has the MIB locked, and later gives back each of them;
a GET locks one entry and gives it back without a word to the queue.
A step of a caller that has the queue locked is one action.

Bounds: two SETs, a GET, two objects; every PDU over them. Two SETs and a GET
compete for an object, and a SET has one lock while it waits for another.
`FairSpec`: strong fairness of each request's steps, because they compete for
mutexes; weak fairness of the queue's thread, whose wait ends after 5 s, which
`CallsReturn` depends on: a GET tells the queue nothing, and a notification that
finds the queue's thread at work is lost.

### snmp++ sessions: how the model corresponds to the code

`queue`, `locked`, `retry`, `got` are the elements of `CSNMPMessageQueue` with
`m_locked`, the retries left, and `m_received` with the kind of `m_pdu`; a message
`<<r, k>>` is the `k`-th that request `r` needs, because `snmp_engine` and
`v3CallBack` start an SNMPv3 request again after a report. `pc[r]` is a caller's
place in `snmp_engine`, `cancel` or `SNMPBlockForResponse`. `pass` owns
`pevents_mutex`, `ppc` is its place in `SNMPProcessPendingEvents`: `HandleEvents`
until the socket is empty (`poll` to `called`), then `DoRetries` (`retry` to
`expired`) for what was due when it read the clock (`late`). A callback runs with
the queue unlocked and the message `locked`, which is where cancels, retries and
the destructor interleave. `freed` counts the deletions of the `V3CallBackData`.
`strayed` records that `DeleteEntry` went on from an element that had been deleted.

The network: `underway` answers may be lost, doubled, late and out of order;
`socket` holds what has arrived. `Failing` are messages that `sendto` may refuse.
A blocking caller's answer locks its message for a moment inside one step, which
is left out. `Id` is the request id the counter gives each message: a constant,
so that the theorems can say which properties need different ids.

Not modelled: user timeouts and file descriptors, the notify queue, discovery by
broadcast, callbacks that start or cancel requests. Several calls with one `Snmp`
object at a time are what `uxsnmp.h:89` allows.

Bounds: a blocking and an asynchronous request, one retry or none, one answer
underway at a time. A retry makes two answers to one request possible, a report
up to three messages of one request. `FairSpec`: strong fairness of the callers
and of the poll thread's turn, because they compete for `pevents_mutex`; weak
fairness of the thread that has it, and of the clock. The network owes nothing:
`RequestsEnd` holds if no datagram ever arrives.

### SETs in the AgentX master: how the model corresponds to the code

A PDU `<<r, s, o>>` is the order `o` (TestSet, CommitSet, UndoSet, CleanupSet) of
request `r` to session `s`, with all its bindings for that session. `queue` is
`AgentXQueue`, in the order `ahead` (a relation, because only who is nearer to the
head matters), `sent` the PDUs with a timestamp, `late` those whose time is up.
Four kinds of threads work on it:

- the thread of a request, then `axSetThread`, go through the phases
  (`Start` to `Answer`; `pc[r] = "idle"` is a request that nobody
  has locked, waiting for responses);
- `axSetThread` takes responses from its queue of tasks (`TakeTask`, `Process`);
- the main AgentX thread receives responses (`Receive`) and makes up one for
  every late PDU (`Look`, `GetLate`, `TimeOut`, `Purge`: the loop over `get_late`
  and then `AgentXQueue::timeout`); a PDU whose session is gone gets a response
  without error (`ghost`);
- it closes a session that was late too often, and the registration thread one
  that said goodbye or lost its connection (`CloserStep`), locking node after
  node with the MIB locked.

`node`, `registry` and `todo` are what a closing does to the registrations.
`told`, `agreed` and `answer` are history: what each subagent was sent, what it has
agreed to, what the manager was answered; `wire` are the PDUs a subagent may still
answer. `SetAgreement` is stated about these.

Simplifications: a walk over the bindings that cannot block is one step; a node
stands for one region, without splits and merges; all registrations of a session
go in one pass; objects of the agent itself appear as a refusal (`Denied`); a
closed session is not opened again; the loss of a connection is noticed when the
registration thread is idle; `outstanding` is the question whether a PDU of the
request is in the queue. GET, GETNEXT and GETBULK subrequests are left out.

Bounds: two sessions with a region each; in `ax_sets` three SETs, one with two
bindings for one session and one for the other, in `ax_faults` two SETs. Every
SET meets another at some node, phases involve two subagents, and a session with
two timeouts is closed while SETs hold its node. In `ax_sets` subagents refuse
commits only of SETs they have for themselves: when one of several refuses a
commit the outcome of the others is a matter of timing, as `ax_unwound` shows.

Fairness: strong fairness of each request's steps, of `axSetThread`, of the main and
the registration thread, because they compete for node, MIB and registry locks;
subagents that are not `Slow` answer, and the time of a PDU that is not answered
runs out.

### The subagent's requests: how the model corresponds to the code

A request is named by its PDU `<<t, o>>`, the order `o` of transaction `t`, because
the master sends an order of a transaction once. `main`, `cur` and `old` are where
the main thread is: it reads a PDU from the socket (`inbox`) and looks for the
request it follows (`Receive`), waits in `r->lock()` until the thread that works on
that one has let go of it and takes its locks over (`Take`), puts the new request in
the list, after a sweep of old SETs (`Add`), and waits in `ThreadPool::execute` for
an idle thread (`Hand`). `pc[p]` is how far `do_process_request` has come with a
request: at the MIB lock (`start`), locking entries with the MIB locked (`lock`),
reading one (`read`), in `AgentXRequestList::answer`, and in `delete_request`
(`unlock`), which unlocks a TestSet or CommitSet (`rest`) and deletes everything
else (`done`). `locks[p]` is `Request::locks`, `holder[e]` the transaction that has
an entry locked, `freed` the requests that were deleted: a thread that works on one
of those is stopped in the model, as nothing is known of what it does
(`NoStaleUse`). `val` and `copy` are `MibLeaf::value` and `undo` with the SET that
wrote them; `got` and `undone` are history.

The master (`order`, `closing`) sends a phase when the one before it was answered,
or when it gives up waiting for a PDU in `Late`: a CleanupSet may overtake the
thread that still waits for an entry for the TestSet. What the master does with
several subagents is the subject of `AgentXSets`; here its next phase is a choice
among those it may come to. One of them is none: when a commit fails while another is
pending, the SET is over after its CommitSet, answered or not, and neither an UndoSet
nor a CleanupSet follows (`ax_unwound`). `GoOn` then ends a SET in `Abandoned` with
the order `abandoned`. The subagent keeps its entries locked until a sweep: "If we do
not get a CLEANUP from the master we have to remove the pending request by ourselves"
(`agentx_request.cpp:208`), which happens only when `add_request` is called for
something else. The master locks the node of a region for a SET, so the SETs of
a region come one after the other.

Simplifications: an entry is locked and read once however many bindings it has; the
walk of `receive` through the list is one step; requests the subagent makes itself,
with their responses, reconnection, GETNEXT and GETBULK are left out.

Bounds: in `sub_requests` two SETs of one region, of one and of two entries, and a
GET of both entries by way of another region; two threads; every phase of a SET may
be late or be refused, and either SET may be left after its CommitSet; the larger SET
may be swept; the master closes the session (`CloseWhen = "orderly"`) when no SET is
under way and none was left. The second SET meets what the first one left, the GET
every phase of both. That the master gives up waiting for a GET is left out: it
tells the subagent nothing.

Fairness: weak fairness of the master, whose timeouts end every phase, though only by
leaving the SET where it is; of the main
thread; and of the pool as a whole, some thread of which goes on if one can: no
thread waits for another that may overtake it for ever, because GETs read each
entry once.

## Runs

| Run | Configuration | Shows |
|---|---|---|
| `set_plain` | `SetPlain` | type correctness; entry locks, undo copies and `delete_rows` belong to a running SET; no lock is left when a request is answered; `MibSetTransaction` implements `MibStore` |
| `set_live` | `SetLive` | with rows used after their destruction: a SET that changes a table holds the table's listeners, readers are excluded, every commit finds its entry, as no PDU names a status twice; every request is answered |
| `index` | `Index` | type correctness; a subagent owns what it was told it owns, nobody takes an allocated value, with sessions closed in three ways beside it; until a session is closed `new_index` repeats no value; a value waits for reuse by `any_index` only while free; closed sessions leave nothing allocated, and their values become free in the end |
| `pool_tasks` | `PoolTasks` | type correctness; no task is lost or handed out twice; `ThreadPool` implements `TaskBag`; every task is run unless the pool is terminated; an unused pool can be deleted |
| `lock_queue` | `LockQueue` | no two requests hold an object; the queue implements `LockTable`; no SET is left waiting for a lock or for the acknowledgement of a release; the destructor returns |
| `msg_calls` | `MessageCalls` | type correctness; one callback, none after a successful cancel; no request is given up whose answer was in the socket; the session implements `Exchange` |
| `msg_reports` | `MessageReports` | SNMPv3: callback data is deleted once; every request ends though nothing need arrive |
| `msg_stray` (violation) | `MessageStray` | `DeleteEntry` goes on from an element that another thread has deleted (`msgqueue.cpp:402`) |
| `ax_sets` | `AxSets` | the master implements `SetAgreement` while subagents answer and refuse; every SET is answered |
| `ax_faults` | `AxFaults` | late, made-up and lost responses and closings: a response is used only in the phase of its PDU, and no subagent has two tests or commits for one region |
| `sub_requests` | `SubRequests` | in a subagent: an entry that is locked belongs to one request that is not deleted; no thread works on a deleted request; what was undone is gone and was never read; every entry becomes free again, unless the master has left a SET whose entries are still locked (`LeftLocked`) |
| `ax_unwound` (violation) | `AxUnwound` | a CommitSet that times out while another is still out: no UndoSet is sent to anybody (`agentx_master.cpp:584`, `:598`, `:698`) |

More configurations end in a counterexample and are kept for the reader. They
show where the properties above do not hold, and why the runs and the theorems
assume what they do:

| Configuration | Property | Shows |
|---|---|---|
| `SetGap` | `UnlockedWhenAnswered` | `mib.cpp:3703` stops cleaning up at a covered binding: later entries stay locked after the answer |
| `SetGap` | `CommitFindsEntry` | of two bindings for the status of a new row `MibTable::set_value` finishes the last (`mib.cpp:1412`, `:1426`); the commit phase meets the other without an entry (`mib.cpp:3633`) |
| `SetListenerFirst` | `ListenersHeld` | a listener named before its table is unlocked too early (`request.cpp:692`) |
| `SetCreated` | `ChangedOnlyBySuccess` | undo leaves a created row behind (`mib.cpp:2309`) |
| `SetUpgrade` | `UndoCopiesOwned` | the upgrade of a notReady row (`mib.cpp:1390`) leaves an undo copy behind |
| `SetRepeated` | `ChangedOnlyBySuccess` | two bindings for one instance: the wrong value is restored (`mib.cpp:380`) |
| `IndexStolen` | `AnyIsFree` | `any_index` (`agentx_index.cpp:202`) gives away a value that was released and then allocated by name |
| `IndexLeaked` | `NoOrphans` | a manager closes a session between the look-up of `create_response` and the commit: its values stay allocated for ever |
| `PoolStuck` | `EndedAreIdle` | `execute` hands a task to a worker that has ended (`threads.cpp:885`): `is_idle` stays FALSE, `Mib::~Mib` waits for ever |
| `LockSpurious` | `Exclusive` | a condition variable that wakes for no reason is taken for a granted lock (`request.cpp:659`) |
| `MessageRefused` | `FreedOnce` | the socket refuses a message after its timeout has called back and deleted the callback data (`uxsnmp.cpp:1839`) |
| `AxGhost` | `SuccessIsTrue` | a SET for a session that is being closed gets no PDU, or one that counts as its own response, and succeeds (`agentx_master.cpp:504`, `:2207`) |
| `AxClosing` | `ReaderFree` | the main thread closes a session and waits for a node of a SET whose response only it can read (`agentx_master.cpp:2121`) |
| `AxSilent` | `AllAnswered` | the loop over `get_late` dispatches one timeout several times, the session is closed, and `send_pending_ax` spins on a PDU of it with the queue locked (`agentx_master.cpp:667`) |
| `SubClosed` | `NoStaleUse` | a Close PDU after a SET that ended with its CommitSet, no other being under way: `terminate_set_requests` deletes the CommitSet another thread still works on (`agentx_request.cpp:351`) |
| `SubAbandoned` | `AllComeFree` | a SET that ended with its CommitSet keeps its entries locked: only a further request makes `add_request` sweep it (`agentx_request.cpp:335`), and here none comes |
| `SubExpired` | `UndoFollows` | the sweep in `add_request` removes a committed SET before its UndoSet comes, which is then ignored (`agentx_request.cpp:335`, `:264`) |
| `SubPool` | `EntriesComeFree` | as many GETs as threads wait for an entry of a SET: `execute` never gets a thread for its next phase |
| `SubStuck` | `EntriesComeFree` | a TestSet waits for an entry of another SET with the MIB locked, its CleanupSet makes the main thread wait for it, and the CommitSet of the other SET is never read (`agentx_request.cpp:279`) |

TLC stops at the first counterexample; `tlc -continue` shows both of `SetGap`.
`SetPlain` uses PDUs that avoid the six counterexamples for SETs; `SetLive`
uses rows after their destruction, where its properties still hold.
`Index` asks `any` of one
index and allocates another by name, while `IndexStolen` needs both for one; it
has no administrative close, which is what `IndexLeaked` needs. `PoolGoes` is
about pools in which no ended worker has a task, which is what `PoolStuck`
needs. `MessageReports` lets the socket refuse only messages that `MessageRefused`
does not need. `AxFaults` checks what holds in spite of the faults; `AxSets`
has none, which is what `AxGhost`, `AxClosing` and `AxSilent` need. `SubRequests` has
no close over a SET that is under way or was left, no GET too many and no second
region with SETs; it asks `UndoneUnseen` instead of `UndoFollows`, and
`EntriesComeFree` allows what `SubAbandoned` shows: once the master has left a SET,
its entries may stay locked, and requests may wait for them. The code does not see to
any of this. In particular a subagent that was late too often is closed by the very
timeouts that end a SET after its CommitSet (`SubClosed`).

## Proofs

`TypeCorrect` (`Spec => []TypeOK`) holds for all constants that satisfy
`ObjectsAssumption` and `TransactionAssumption`. `TypeOK` is not inductive: a
commit copies `value[x]` to `undo[x]`, which is a `Backup` only if the instance
exists. `TypeInv` adds `DataOK`, a row is there as a whole or not at all, and
`AtBinding`, a request that locks or reads stands at a binding of its PDU.
The first part of `MibSetProofs` shows that commit, undo and cleanup keep `DataOK`.

`LocksCorrect` proves `LockInv`, from which `EntriesAreHeld`,
`ListenersAreHeld` and `ReadersAreExcluded` follow. They assume
`SeparateListeners`: no PDU names a table together with one of its listeners.
Without it `SetListenerFirst` is a counterexample; the run `SetLive`
checks `ListenersHeld` beyond the assumption, for PDUs that name the table
first. The invariant says that

- `locks[r][i]` is the entry binding `i` names (`LocksNamed`);
- it and its listeners are locked for `r` (`FamilyHeld`);
- while `r` is in `set_locked`, the entry at hand and each of its listeners is
  locked for `r` or still wanted (`FamilyWanted`): this is what makes
  `FamilyHeld` inductive when the entry is recorded;
- a GET holds the entry it reads (`ReaderHolds`), which keeps it from a SET
  that locks the same entry.

The crucial lemma is `UnlockKeeps`: what `set_unlocked` releases is held by the
request itself, and no other binding of it needs it. Without
`SeparateListeners` that is false, and the release may even take a lock from
another SET.

`MibAtomicityProofs` builds on it and shows that nothing a SET does outlives it and
that SETs are atomic. All of it assumes `SeparateListeners`; what else a theorem
assumes is about the PDUs of the managers, and each assumption has a counterexample
above without it:

| Assumption | Says | Without it |
|---|---|---|
| `StatusOnce` | no PDU names the status of a row twice | `SetGap` |
| `NoGaps` | what follows a binding of a new row belongs to that row too | `SetGap` |
| `StatusNamed`, `NoUpgrade` or `NoWaiting` | PDUs name the status of the rows they touch, rows never become ready by themselves, or no PDU asks for a row with createAndWait | `SetUpgrade` |
| `PlainSets`: `DistinctVbs` | no PDU names an instance twice | `SetRepeated` |
| `LifeLast` | what follows the creation or destruction of a row belongs to the row | `SetGap`, `SetCreated` |
| `DestroyLast` | nothing follows a destroy | the PDU `DestroyedRow`: its second binding creates the row again, with the status destroy |
| `Settles` | a table says yes to every `ready_for_service` or to none, or no row is created with createAndWait | `SetUpgrade` |

The argument has three layers.

- `BindingInv`, for every PDU: a binding that is `ready` without a lock was covered
  by an earlier binding of a row that was missing and still is, because nobody else
  can write it (`WritesLocked`, `LocksApart`). When the commit phase begins that
  becomes, under `StatusOnce`: a binding without a lock is done, or the one that covers
  it is still to come and will finish it (`CommitCovered`). This is
  `CommitFindsEntries`. Nothing else needs `StatusOnce`; `PlainSets` implies it.
- `PassInv` needs `NoGaps`: locked bindings come before those without a lock
  (`LocksFirst`), so a cleanup that stops at the first of these has passed all locks
  (`LocksPassed`). `UnlockedBeforeAnswer` and `MarkedRowsAreOwned` follow. For
  `UndoCopiesAreOwned`, `UndoLocked` says that an undo copy belongs to an instance
  that a SET names and has locked, in a row that is there, which is what the undo and
  cleanup phases find again through `MibTable::find`.
- `AtomicInv` needs `PlainSets` and says of every instance of an entry a SET has
  locked how its value compares with the one it had when the commit phase began
  (`before`). `PrepareFound`, `DoneEarly` and `CommitHolds` carry what
  `prepare_set_request` has found out to the commit phase, which relies on it.
  `CommitState` says that an instance is untouched, or set with an undo copy of
  `before`, or of a row that the last bindings have just created or destroyed, for
  which there is nothing left to fail. `UndoState` says that all a failed SET has
  changed has an undo copy of `before`.

From `AtomicInv` the refinement follows step by step (`StepRefines`): the end of the
commit phase is `Apply`, because then all instances have what was asked for
(`CommittedAsks`); a rejection or a failed commit is `Refuse`; a read of a GET is
`Read`, because nobody else has the entry; everything else is a stuttering step, the
undo phase too, because an entry has its old value again when it is given back
(`UndoneEntry`). `FailuresLeaveNothing` (`ChangedOnlyBySuccess`) is a by-product.
The PDUs of `SetPlain` satisfy `PlainSets`.

`AgentXIndexProofs` has six theorems. `TypeCorrect` needs nothing but
`IndexAssumption`. `ClaimsAreOwned`, `NothingIsStolen`, `UsedValuesAreFree` and
`NewValuesAreFresh` assume `WellBehaved`:
a PDU names an index once, no index is unsigned, and the subagents do not mix
allocation by name with `any` for one index. Without the last `IndexStolen` is a
counterexample, without the second `new_index` may wrap to 0 after the greatest
value; the first keeps the test of one binding from accepting what another
binding of the PDU takes. The invariant `IInv` says
that

- a binding that passed the test keeps its value free until its commit, and a
  value from `usedValues` stays the first of them (`Reserved`): other sessions
  can only free values meanwhile, because one thread handles all PDUs;
- a committed binding is owned until the answer, unless the session stopped
  being active (`Owned`): this is what makes `ClaimsOwned` inductive at the
  answer;
- a closing that removes indexes belongs to a session that is silent or not open
  (`ClosingsOK`), so that `remove_session` never takes a claimed value;
- a session that was never opened has no claims (`OpenedOK`), an index without
  syntax no values (`IndexesOK`), and used values of an index that nobody
  allocates by name are free (`UsedAreFree`).

`NewValuesAreFresh` has one of its own,
`FreshInv`: until a session is closed, everything handed out is allocated, in
`usedValues` or of a string index (`Remembered`), and so not taken for a new value;
what a binding of the PDU at hand has chosen is a used value, or none is left and
the value was never handed out (`Chosen`).

`NothingIsOrphaned` assumes that no manager closes sessions (`IndexLeaked` shows
why). Its invariant `OrphanInv` says that the session whose PDU is handled is
open and not being closed (`HandledOpen`), and that whoever owns a value is open
or has a closing that still comes to `remove_indexes` (`PurgeComes`).

`ThreadPoolProofs` proves `TypeCorrect`, `EachInOnePlace` and
`PoolImplementsBag` from `ManagersAssumption` alone. `InOnePlace` is split into
what the provers can use: only tasks that were given to `execute` are anywhere
(`Known`), none is in two places (`Apart`), each is in one (`Found`); together,
`Kept`, they are inductive. `Told` says that workers are stopped by `terminate`
only, and all of them once it has returned: that is why a task is taken only
before, and dropped only after `terminate` began. `RoomToRun` counts the workers
that run. `StepRefines` maps each step of the pool to a step of `TaskBag` or to
a stuttering step.

`LockQueueProofs` proves `TypeCorrect`, `MutualExclusion` and `Refinement` from
`LockQueueAssumption` alone. `Exclusive` is not inductive: that the queue's thread
owns a mutex exactly while some SET holds its object has to be carried through
the steps in between, where the mutex is already taken and the SET not yet
notified, or the release already in the list and the mutex not yet free. `Holds`
is defined over those steps, and the invariant (`Known`) ties each `LockRequest` to
one list and one place of its request. Every step moves at most one object
(`Moves`), which gives both the invariant and the refinement.

`MessageQueueProofs` proves `TypeCorrect` without further assumptions, `CalledBackOnce`
and `AnswersBeatTimeouts` under `IdsDiffer`, `DataFreedOnce` under `FirstSent` (the socket takes the first
message of every asynchronous request, see `MessageRefused`), and `Refinement`
under both. The invariant says where a message may be at each place of its
request: a request has one message in the queue, and for a moment a second one
while a callback sends it again (`OneEach`); once its callback was called or a
cancel has succeeded, only the pass that called it still has the message
(`Closed`); `Placed` says where threads can be. `Data` says that the callback data of
a message in the queue, and of those the request may still need, is there; `Told`
that a request was told once how it ended, and of an answer only if there was one.
`AnswerBeatsTimeout` has an invariant of its own, `Beat`: an answer that was there
when the pass began is in the socket as long as `poll` is asked, and then its
message has it (`ReadFirst`); and a message that left the queue meanwhile is not
added again in this pass, because what a request adds is newer (`Bygone`).

`AgentXSetProofs` proves `TypeCorrect`, `ResponsesInStep` and `RegionsApart` from
`AgentXSetsAssumption`, for any number of sessions, regions and requests and with
every fault of the model. `TypeOK` needs `Counted`: a session whose timeouts are
used up is being closed, and so not counted again. `InStep` is the last of a
chain. A response is used only if its PDU is in the queue when `axSetThread` takes
it; a PDU in the queue is of the phase its request is in (`Queued`), because a phase
ends only when all of its PDUs have left the queue; and from the moment a PDU or a
response of a request is underway until `axSetThread` has processed it nobody else
moves the request on (`Handed`), which `Phased` and the program counters bear out.
`NodesApart` follows from `Locked`: while the tests and commits of a request stand,
it holds the nodes of the bindings it has prepared.

`SetsAgree` (`ImplementsAgreement`) and `AnswersAreTrue` assume `NoFaults`: no
subagent is late or leaves, and one refuses a CommitSet only of a SET that it has for
itself. That is what `ax_sets` assumes too, and `ax_unwound` shows why: when one
CommitSet fails while another is out, whether the other subagent is sent an UndoSet
depends on who is first. `Quiet` says that without faults nothing is ever closed or
late. What is left concerns one request each: every step is a step of one request
(`Spares` says what the others see of it, nothing), so the invariant is `Keeps(r)` for
every `r`, and `SparedKeeps` disposes of the others. Its parts:

- `Unsent`, `Involves`: what waits in the queue to be sent is of the phase the request
  is in, and only the sessions of its bindings have to do with it;
- `Course`: what each session was told last, in each phase, before and after it is
  sent the order of that phase (`Owed`);
- `Used`, `Flight`, `Outcome`, `Taken`: what is sent, answered or agreed was told; a
  PDU is in one place of the way from the queue to the wire, to the tasks and to
  `axSetThread`; a response says what the subagent has done;
- `Answers`, `Waits`: unless the request has failed, every session it asked has agreed
  or its PDU is still in the queue, and the phase ends only when none is. This is why
  a commit is sent only after every test was agreed to, and `noError` only after
  every commit.

Then `SendTells` maps the sending of an order to `Tell`, `Receive` is `Reply`,
`Answer` is `Answer`, and everything else a stuttering step.

`SubagentProofs` proves `TypeCorrect` and `LocksAreOwned` from `SubagentAssumption`,
and, for every master of the model, `NoDeletedRequestUsed` and `UndoneNeverSeen` in
all states but those after a session was closed over a SET that was under way or
left after its CommitSet (`ClosedCleanly`). The code does not keep the master from
that, and `SubClosed` shows what comes of it; with `CloseWhen = "orderly"`, as in
`sub_requests`, it never happens (`OrderlyIsClean`). The invariants grow in four steps. `OrderInv`: the
orders of a transaction have ranks that grow on the way from the master through
the socket to the list, so the main thread sees each once and in order. `LockInv`:
the list has one request of a transaction (`ListOK`), and only requests in certain
places have locks (`LocksOK`); with that, `Take` gives the locks of one request to
one other (`OwnersOK`). `QuietInv`: of a SET that the master has ended with an UndoSet or a CleanupSet that last
order is in the socket, with the main thread, or was received (`FollowedUp`), and
nothing comes after a Close PDU (`CloseLast`). After a clean close these are all the
SETs that ever began, so `terminate_set_requests` finds none. A SET that was left
needs no such order: its CommitSet stays in the list, where only a Close could delete
it under a thread, since the sweep takes only requests that were answered. `SeenInv`: a request has all that was left of
those it follows (`Heir`); what a SET has written is either locked, with an undo
copy of another SET (`Guarded`), or final (`Settled`): its CleanupSet has come, or it
was swept and no UndoSet of it will be accepted. A GET reads only what it has
locked, hence what is settled, and `Settled` is for ever (`SettledStays`), hence an
undone SET never was.

Model-checked only: the liveness properties (`AllAnswered` of SETs and of the
AgentX master, `ClosedSessionsLoseIndexes`, `TasksRun`, `PoolGoes`, `CallsReturn`,
`QueueGoes`, `RequestsEnd`, `EntriesComeFree`), which are beyond the prover. Every
invariant, action property and refinement that a passing run checks is stated by a
theorem.

## Plan

Done: SET transactions, the thread pool, the lock queue, index allocation,
requests of snmp++ sessions, SETs in the AgentX master and in its subagents. Left,
in this order:

1. `RequestList`: duplicates and retransmissions. The subagent's own requests
   (registration, indexes, notifications, ping) and its reconnection.
2. `MibTable::remove_unused_rows` and `Mib::remove` beside running requests.
3. The AgentX master: GET, GETNEXT and GETBULK subrequests, and the registrations
   (splits, merges, duplicates with priorities).
4. `QueuedThreadPool`, which reuses `TaskManagers`: the order in which queued tasks
   are run, its own thread and its destruction.
5. snmp++: notify queue, MPv3 cache, USM time window.
6. Pure algorithms against reference definitions: VACM view matching, OID order,
   `add_rep_row`.

Theorems to come: those of the modules above.

## Not modelled

Encoding and decoding, sockets as such, files, cryptography, containers, log output,
build files, examples and generated templates: data and I/O without control of
their own. `Thread` and `ThreadManager` start and join threads of the operating
system; the models take threads for granted. The Windows branches of
`Synchronized` are left out, the POSIX ones are modelled. What else is missing is
the plan above; `PROJECT.json` says per component what is modelled.
