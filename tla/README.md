# TLA+ models of the synchronisation core of CultivationMotain

The repository is a collection of small iOS and macOS programs and one large
body of code, the source of **libdispatch** (`libdispatch_sourceCode`). Most of
the programs are views, drawing and framework calls. What is intricate, and what
the programs rest on, is libdispatch: lock-free state words, lists and counters
whose errors show only in particular interleavings. This project models
libdispatch's semaphores, groups, `dispatch_once`, `dispatch_apply`, queues,
suspension, work lists, unfair lock, block objects and sources, and two of the
programs' own protocols; it checks them with TLC and proves part of the results
with TLAPS.

All paths below are relative to `libdispatch_sourceCode/src` unless they say
otherwise.

## 1. Inventory

| Component | State | Operations | Interaction |
|---|---|---|---|
| `dispatch_semaphore` (`semaphore.c`) | `dsema_value`, `dsema_port` (lazy), `dsema_orig` | create, signal, wait (now, finite, forever), dispose | callers race on the counter; wakeups go through a kernel semaphore |
| `dispatch_group` (`semaphore.c`) | `dg_value`, `dg_waiters`, list of notifications, `do_ref_cnt`, port | create, enter, leave, wait, notify, wake, dispose | several wakes may run at once; the notification list is pushed to concurrently; the group keeps itself alive while not empty |
| `dispatch_once` (`once.c`, `dispatch/once.h`) | the predicate: a list of stack nodes, or a gate word | dispatch_once | two builds: list with thread events, or gate |
| thread events, gate, unfair lock (`shims/lock.h`, `shims/lock.c`) | `dte_value`; owner, waiters and failed-trylock bits | signal, wait; tryenter, wait, broadcast; lock, trylock, tryunlock, unlock | block in the kernel on a value; the unfair lock guards side counts and mach replies |
| `dispatch_apply` (`apply.c`) | `dispatch_apply_s`: index, todo, thread count, event; width of the queues | apply, helpers, redirection | continuations on the root queue, width in `dq_state`, `dispatch_sync_f` |
| queues (`queue.c`, `inline_internal.h`) | `dq_state`, item list, side suspend count | async, sync, barriers, drain, wakeup, lock transfer, suspend, resume, activate | everything else is pushed to them |
| root queues (`queue.c`) | list with a mediator, pool of threads, semaphore | push, poke, drain, time out, exit | workers drain the queues on them |
| block objects (`queue.c`, `block.cpp`) | flags, `dbpd_performed`, `dbpd_queue`, private group | submit, call, cancel, wait, notify, destroy | a group and the queue they are submitted to |
| sources (`source.c`) | atomic flags, `dq_state`, pending data, knote | create, activate, deliver, merge, rearm, cancel, cancel and wait, release | kernel events on a manager thread, handlers on the target queue |
| data, io, objects, time, init | immutable ropes; channels; reference counts | concat, subrange; read, write | on top of queues and groups |
| `LockFun` (app) | a semaphore | wait, work, signal from two queues | a client of the semaphore |
| `HalfTunes` (app) | active downloads, rows, current query | start, pause, resume, cancel; URLSession callbacks | callbacks arrive on another queue and share a dictionary with the taps |
| `SocketTutorial` (app) | socket, discovered services | browse, resolve, connect, framed reads | delegate callbacks |
| other apps | views, drawing, media, framework demonstrations | | no protocol of their own |

What is hard, and what therefore makes each component correct:

* **Semaphore.** The counter changes before the kernel semaphore does, on both
  sides; a timeout has to undo a decrement while signals arrive; the port is
  created by whoever needs it first; a signaller owns no reference. Correct
  means: no wakeup lost or left over, no unit invented, one port, dispose traps
  exactly on unbalanced use.
* **Group.** The last leave, a waiter that registers late, a notify that
  publishes late and the client's release all race. Correct means: nobody is
  left behind, every block is submitted once, references add up.
* **Once.** The nodes of the waiters are on their stacks; the gate is marked and
  slept on in two steps. Correct means: the block runs once, nobody returns
  early, everybody returns, no dead stack memory is touched.
* **Apply.** A helper may start after the call has returned; width is reserved
  on a chain of queues and partly given back. Correct means: each index once,
  memory freed once, width kept while used and given back, no help needed, no
  oversubscription by nesting.
* **Queues.** Owner, width, pending barrier, DIRTY, ENQUEUED and the suspension
  counts are fields of one word that a dozen paths change by addition and
  subtraction, apart from the list. Correct means: barriers alone, each item
  once and in its submitter's order, nothing left behind, the word true.
* **Lists and pool.** Producers exchange the tail before they link; consumers
  empty a list in two steps and put items back; workers time out while producers
  ask for threads. Correct means: a FIFO that empties, no link written to a dead
  item, the pool balanced.
* **Unfair lock.** A woken thread rewrites the waiters bit on what the kernel
  told it. Correct means: exclusive, no sleeper forgotten, a failed attempt
  reported.
* **Block objects.** Execution, wait, destructor and timeout compete for one
  queue reference and one group. Correct means: each given back once, no legal
  use traps.
* **Sources.** Cancellation meets events in flight, pending data, a drainer that
  holds the lock, and other cancellations. Correct means: cancellation is final
  when it is reported, and comes.
* **HalfTunes.** Taps and callbacks work on the same entry of a dictionary in two
  queues, without a lock; a task runs before its entry is there, and a callback
  finds its entry by URL, whichever task made it. Correct means: no tap puts a
  running task out of the reach of Pause and Cancel, no entry outlives its
  download, the buttons fit the table, and a pause keeps what was fetched.

`PROJECT.json` lists the hazards with their lines and the properties that watch
them, and every component with its status.

## 2. Modules

Each detailed module takes one atomic operation, one memory access that another
thread can race with, or one kernel call as a step. Actions have the name of the
function, or of the function and the place in it (`wait_slow_undoCAS`,
`wake_tail`, `drain_try_unlock`); `pc` (or `fr[t].pc`) says where a thread is.

| Module | Models | Notes |
|---|---|---|
| `CountingSemaphore` | what a semaphore promises | abstract: pool of units and queued callers |
| `DispatchSemaphore` | `semaphore.c`, Mach build | `held` is a history variable: units granted minus units signalled |
| `SemaphoreLock` | a client: wait, work, signal; or any client | LockFun's `testDisPatch_semaphore`, `tests/dispatch_sema.c` |
| `DispatchGroup` | `semaphore.c`, groups | with the list of `inline_internal.h` and the internal reference count |
| `GroupReuse` | `DispatchGroup` with a history variable | who has seen the group empty since its call began |
| `Once` | what `dispatch_once` promises | abstract |
| `DispatchOnce` | `once.c`, list build, thread events | a node is named by its thread |
| `DispatchOnceGate` | `once.c`, gate build, gate lock | some callers are recursive |
| `OnceBuilds` | both builds | one of them, chosen in the initial state |
| `ParallelLoop` | what `dispatch_apply` promises | abstract: a loop with overlapping invocations |
| `ApplyWidth` | threads and nesting of one call | operators shared by the next two |
| `DispatchApply` | `apply.c`: one call, helpers, redirection | queues 1, 2, ..., root; other work changes their width |
| `NestedApply` | calls inside iterations of calls | a stack of thread contexts |
| `Apply` | one call, or nested calls | composes the two |
| `BarrierQueue` | what a queue promises | abstract: exclusive items alone, submitters keep their order |
| `DispatchQueue` | `queue.c`, `inline_internal.h`: one queue on a root queue | `dq_state` as a record, drain, sync, barriers, suspension, width reservations |
| `QueueSuspend` | suspend, resume, activate, setters | the suspension bits as one integer, so that carries and borrows are those of the code |
| `Fifo` | what a list promises | abstract |
| `MpscQueue` | `os_mpsc_*` | one consumer: pop, undo, snapshot |
| `RootQueue` | `_dispatch_root_queue_drain_one`, poke, worker threads | several consumers, mediator, pool |
| `WorkLists` | one of the two lists | shares the producers' state |
| `UnfairLock` | `shims/lock.c`, `lock.h`, ulock build | owner and two inverted bits; the kernel compares before it blocks |
| `DispatchBlock` | `block.cpp`, `dispatch_block_*` | the private group as a counter, the notification queue external |
| `DispatchSource` | `source.c`, a source with a direct kevent | flags, state word and pending data; knote and delivery of the kernel |
| `HalfTunesDownload` | `DownloadService.swift` and the URLSession delegate | one track |
| `SemaphoreProofs`, `LockProofs`, `DispatchGroupProofs`, `ApplyProofs`, `QueuePartsProofs`, `DispatchQueueProofs`, `CancellationProofs` | theorems | section 4; `LockProofs` is on `UnfairLock` and `OnceBuilds`, the two users of `shims/lock.c`, `QueuePartsProofs` on `QueueSuspend` and `WorkLists`, the two parts of a queue that `DispatchQueue` abstracts from, `CancellationProofs` on `DispatchBlock`, `HalfTunesDownload` and `DispatchSource`, whose clients cancel what runs |
| `Counting` | lemmas on counts that change by a step | shared by the proofs |

`DispatchSemaphore`, `DispatchOnce`, `DispatchOnceGate`, `DispatchApply`,
`DispatchQueue`, `MpscQueue` and `RootQueue` each contain a refinement mapping
(`Abs == INSTANCE ... WITH`) to their abstract module, and `AbsSpec`, the
abstract specification under it, is checked. `SemaphoreLock`, `OnceBuilds`,
`Apply` and `WorkLists` compose modules that share code or state: a behaviour
is one of the two sides, and the side that rests keeps its variables.

How the components meet: `DispatchQueue` treats its list as a sequence and its
root queue as a sequence of items, which is what `MpscQueue` and `RootQueue` are
shown to implement; `RootQueue` takes the semaphore on which its workers sleep as
the counting semaphore that `DispatchSemaphore` implements; `DispatchQueue`
takes its thread events as `DispatchOnce` and `DispatchApply` model them;
`QueueSuspend` has the counts of the suspension that in `DispatchQueue` is a
number; `DispatchSource` has the drain lock of the queue, without width, as a
source is a serial object; `DispatchBlock` has the part of the group it uses.

Abstractions, in all modules:

* **Memory is sequentially consistent.** The orderings given to the atomics, and
  the barrier trick that `once.c` explains at length, are taken for granted.
* **Integers** of a counter whose overflow the code handles keep a width
  (`LongMax`, `Half`): the semaphore wraps, the group traps, the inline suspend
  count spills into the side count.
* **Kernel calls** that the code only repeats (`KERN_ABORTED`, a failed
  `semaphore_create`, a weak compare-and-swap that fails spuriously) are
  stuttering. A kernel semaphore is a number of wakeups; any blocked thread may
  get the next one, which covers every order of arrival that
  `SYNC_POLICY_FIFO` may see. A wait on an address compares and blocks in one
  step.
* **Time** is a choice: a finite timeout may elapse at any moment.
* **Clients** pair their calls where the code requires it, and hold a reference
  during their own calls. The unbalanced calls that the code traps on
  (too many signals, a leave too many, dispose while in use, recursion on a
  gate or a lock) are included, and end the behaviour.
* Priorities, overrides, vouchers, autorelease pools, introspection and debug
  descriptions are left out.

Particular points:

* In `DispatchSemaphore` the trap of `signal` is part of its first step, since
  no memory is accessed between. Dispose is allowed as soon as no *wait* is in
  progress, even if a signaller is between its increment and its post: that
  such a signaller cannot exist then is a result (`NoUseAfterDispose`), not an
  assumption.
* In `DispatchGroup` the port is not modelled again; its lazy creation is the
  function checked in `DispatchSemaphore`. The early returns of
  `dispatch_group_wait` change nothing and are stuttering. A group starts empty
  or entered once (`_dispatch_group_create_and_enter`). `leave` needs no
  reference of its own, so the client's release may race it.
* In `DispatchOnceGate` the trap "lock not owned by current thread" of
  `_dispatch_gate_broadcast_slow` is not a branch: `RunnerOwns`, part of the
  proved invariant, says it cannot be met.
* In `DispatchApply` the state word of a queue is the number of units of width in
  use. `dispatch_sync_f` is modelled by what it does for its caller: it holds a
  serial queue alone and one unit of a concurrent queue whatever its width, on
  every queue down to the root. A call with no iterations returns at once and
  is left out.
* In `DispatchQueue` a field that leaves its range is a borrow from its
  neighbour in the code; `StateWordTruthful` forbids it. The reservation of
  `dispatch_apply` is there as the code of `_dispatch_queue_try_reserve_apply_width`
  and `_relinquish_width`, not as a whole call. The spinning of a consumer for a
  head or a link is waiting.
* In `QueueSuspend` a behaviour has the calls that exist for its use: those of a
  queue or source (`suspend`, `resume`, `activate`), or setters beside them.
* In `DispatchSource` an event that the kernel delivers stays *posted* until the
  manager merges it, and a deletion of its knote meanwhile is answered with
  EINPROGRESS. The client activates before it cancels and waits from two
  threads; see the disagreements below for why.
* In `HalfTunesDownload` every access of `activeDownloads`, by a tap or by the
  delegate, is a step of its own: `downloadTapped` resumes the task
  (`DownloadService.swift:51`) and `startDownload_insert` enters the Download
  (54), `cancelDownload` cancels and `cancelDownload_remove` removes,
  `didFinish_lookup` and `didFinish_clear` are lines 17 and 18 of the delegate,
  and the row is looked up and configured in two steps. Each access is taken to
  be atomic, although the dictionary has no lock. The user may tap whatever the
  row shows at any time, callbacks pending or not, and the network may fail a
  task at any moment; only the number of tasks is bounded. `unseen` and
  `hurried` are history: a finish removed an entry that its look-up had not
  found; a resume came before its data.

## 3. Runs

The bounds are named constants of the modules, set in the `.cfg` files. Times
are those of a machine with two workers.

| Run | Question | Instance | States |
|---|---|---|---|
| `semaphore` | is anything lost, invented, leaked or used after dispose; is it a counting semaphore; as a lock, is it exclusive and fair? | 3 threads, value 1, `LongMax` 3, all timeouts | 179,378 |
| `group` | are waiters, wakeups, references and blocks accounted for, and is everybody served? | 3 threads; 2 of them wait and 1 block is notified, or nobody waits and 2 blocks are; `LongMax` 2, all timeouts | 238,283 |
| `once` | once, nobody early, everybody returns, no dead node, no sleeper without a waker | 4 callers, 1 recursive in the gate build | 105,177 |
| `apply` | each index once, memory, width, progress; do nested calls stay within the processors? | 3 processors, up to 3 iterations, 2 queues of width up to 3, nestings 0, 1, 2; nested: 12 processors, 7 iterations, 3 levels | 521,515 |
| `queue` | barriers alone, order kept, word true, nothing left behind | width 2, 2 clients with 2 calls each from three sets of programs, 2 workers | 3,698,981 |
| `suspend` | are counts and references conserved, is the activation exclusive? | 3 threads holding up to 3, inline count of 6 values | 65,599 |
| `lists` | are the two lists FIFOs that empty, is the pool balanced? | 3 items, 2 producers, 3 workers, pool of 2 | 1,251,609 |
| `unfair_lock` | exclusive, no sleeper forgotten, failed attempts reported | 3 threads | 16,328 |
| `block_objects` | queue reference and group given back once, everyone told | 3 threads, 3 runs, 2 waits, 2 notifications | 52,791 |
| `halftunes` | which steps lose a running task or leave an entry behind, do the buttons fit the table, does a resume go on? | 3 tasks of 2 pieces, any taps, a network that may fail | 4,736,519 |
| `source` | is cancellation final, does nothing stay behind, does it come, is every event served? | 2 clients and 1 event, or 1 client and 2 events; 1 worker, 1 manager | 952,178 |
| `group_reuse_wait` | does a wait end only after the group was empty? **no** | 2 threads, 1 of which waits | |

Why these bounds show the interesting cases:

* Three threads on a semaphore are a waiter that times out, a signaller between
  increment and post, and a later waiter that competes for the wakeup; with
  `LongMax` 3 the overflow trap is reached.
* A race in the group needs a wake, a registration and a second wake, with two
  blocks so that the list has a link that may not be set yet. The cast says
  which threads wait and which blocks are notified; every thread enters and
  leaves.
* Four callers of `dispatch_once` are a runner and three list nodes: the node
  being signalled, the one before it, and one being pushed.
* Three processors give the caller two helpers, of which one may be late while
  the other ends the last iteration; a chain of two queues above the root has a
  queue on which an excess found later is given back; nesting 2 gives a share
  of one processor and nesting 1 the whole machine. Twelve processors and up to
  seven iterations divide unevenly, and the cap of 20 stands in for
  `DISPATCH_APPLY_MAX` so that it is reached in three levels.
* A queue of width two is full with two readers, so that barriers wait, drainers
  meet the limit and readers exceed it; two workers are a drainer and one that
  redirected items run on or that comes late; two calls of each of two clients
  are a holder, a waiter, an item in the list and one being pushed.
* With six inline values a few suspends overflow into the side count and a
  resume comes back from it, with a third thread in between.
* Three workers for a pool of two give one that waits, one that exits and one
  that is created; three items give a list that is emptied, refilled and emptied
  by two producers.
* An unfair lock needs a holder, a sleeper and a thread that barges in or
  sleeps behind; three runs of a block are one legal, one repeated and one
  direct call; two events on a source are one that is rearmed for and one that
  is in flight while the source is cancelled.
* Three download tasks are one whose finish is pending, one started by a resume
  or a second download beside it, and one more that meets what these two left;
  a song of two pieces can be stopped at its start, in the middle and at its end.

Deadlock is not checked: clients may simply stop calling, or the object has been
disposed of. That somebody inside a call is not stuck is the business of
`EveryWaitReturns`, `EverythingServed`, `EveryCallReturns`,
`CallerReturns`, `BlockedAreServed`, `EveryNotificationFires`, of the liveness in `Fifo`, and of
the state predicates `NothingLeftBehind`. Each property is accompanied by a
mutant in `PROJECT.json`: a definition ending in a word such as `_offbyone` or
`_skips` states a plausible bug of the definition it replaces, under which the
property fails.

### Fairness

* Weak fairness of the steps of a thread inside a call: threads are scheduled,
  and the client's functions (the once block, the iterations, the critical
  section, handlers and items) end. Calls themselves are never forced.
* Strong fairness of a blocked thread taking a wakeup from a kernel semaphore
  (`LockFairness`, `EndWait`): ports are created with `SYNC_POLICY_FIFO`, so a
  blocked thread is not passed over for ever.
* Strong fairness of an undo loop's compare-and-swap succeeding: each failure is
  somebody else's progress, and the threads are finitely many.
* `DispatchApply` has no fairness for `helper_start`: the pool may never start a
  helper, and the caller returns all the same (`CallerReturns`).
* The liveness of the group assumes that it empties again and again
  (`GroupKeepsEmptying` in the property), which only the clients can provide.
* `MpscQueue` has strong fairness of `take`, against a mach channel that puts an
  item back for ever; `RootQueue` has none for `worker_timeout`, which need not
  come.
* In `UnfairLock` a holder releases in the end; a page fault that makes the
  kernel return early is owed to nobody. In `DispatchBlock` a finite wait times
  out, the client drops its reference and the notification queue is served.
* In `DispatchSource` the target queue and the manager serve what was given to
  them, and handlers return; the kernel owes nobody an event (`KernelDelivers`
  is not fair). `EverythingServed` says that the source gets, from every state, to
  owe nothing: no event on its way, no data except in a deleted source, which may
  keep what nobody will read, no waiting client, no unfinished cancellation or
  release. That all debts are paid at once rests on the bound on the events.
* `DispatchQueue`, `QueueSuspend` and `HalfTunesDownload` are checked for safety
  only. That nothing is stuck in a queue is `NothingLeftBehind`: whenever
  everybody is at rest there is nothing to do.

### Disagreements with the documentation

The listed run `group_reuse_wait` ends in a violation. The other configurations
below are kept beside it and end in a violation of the property they name when
they are run; they are not among the runs of `PROJECT.json`.

1. **A wait may return though the group was never empty during it**
   (`group_reuse_wait`), and a **notification may be submitted early**
   (`NotifySawEmpty`, `GroupReuseNotify.cfg`). A leave that brings the count to
   zero claims the waiters and the list only later (`semaphore.c:411-416`). If
   another thread enters the group again and waits, or notifies, in between, the
   late wake takes them as well. `dispatch/group.h:135-137`, `174-180` promise
   the contrary, and `145-147` allows the reuse. The instance has one waiting
   thread, as the documentation requires.
2. **A timed wait may block for ever** (`TimedWaitReturns`,
   `SemaphoreTimeout.cfg`). After a timeout, or with `DISPATCH_TIME_NOW`, a wait
   that reads a non-negative value leaves the undo loop and drains "its" wakeup
   with the untimed `semaphore_wait` (`semaphore.c:335`). A thread that calls
   wait later may reach the kernel first and take that wakeup.
   `dispatch/semaphore.h:80-84` and the man page say that the call returns when
   the timeout expires.
3. **`dispatch_sync` may overtake** an earlier `dispatch_async` of its own thread
   (`SubmissionOrder`, `DispatchQueueOrder.cfg`), against `dispatch/queue.h:56`
   ("serially in FIFO order"). It takes an idle `dq_state` (`queue.c:3675`)
   without looking at the list; a thread in the middle of its push has linked its
   item and not yet woken the queue, and an item appended behind it makes no
   wakeup.
4. **An item may be stranded** (`NeverStranded`). `_dispatch_queue_resume` sets no
   DIRTY bit when another thread holds the drain lock (`queue.c:1648-1660`), so a
   drainer that stopped because of the suspension unlocks and leaves an item
   (`DispatchQueueSuspend.cfg`); `_dispatch_queue_relinquish_width`
   (`inline_internal.h:1118`) takes a queue back under its limit without DIRTY,
   so a drainer that stopped at the limit does the same
   (`DispatchQueueApply.cfg`). `queue_internal.h:257` ("it's really empty for
   sure") and `inline_internal.h:1196-1197` say otherwise.
5. **A balanced resume may be reported as an over-resume** (`NoFalseOverResume`,
   `QueueSuspendOverflow.cfg`): a setter's suspend on an inactive object checks
   for the overflow of the inline count before the addition only
   (`inline_internal.h:918-924`).
6. **A setter may run beside the activation** (`SetterExcludesActivation`,
   `QueueSuspendSource.cfg`): `dispatch_resume` of an inactive source consumes a
   suspend count (`queue.c:1637`) that may be a setter's, against the protocol
   stated in `queue.c:1596-1599`.
7. **A queue may be released before it is retained** (`NeverOverReleased`,
   `DispatchBlockOverRelease.cfg`): a block object's queue is published by the
   cmpxchg at `queue.c:3067` (3728 for `dispatch_sync`) before the retain at
   3068, and a concurrent `dispatch_block_wait` consumes it.
8. **A handler may be running when `dispatch_source_cancel_and_wait` returns**
   (`CancellationFinal`, `DispatchSourceVanish.cfg`): when the monitored resource
   vanishes while an earlier event is pending, `_dispatch_source_invoke2`
   (`source.c:880-900`) unregisters the source, which is then exactly
   `DSF_DELETED`, before it runs the event handler. `source_private.h:367-370`
   says that "any handler block that may have been in progress has returned".
   Beside that, two concurrent calls of the function on an inactive source trap
   with "Source is suspended" (`source.c:1105-1107`, `1115-1116`) though
   `source_private.h:378` allows them; the model's client does not do that.
9. **HalfTunes.** The comments and the buttons of the app promise more than it
   keeps; `HalfTunesPromises.cfg` refutes each promise in turn, one line at a time,
   and what holds instead is what `halftunes` checks.
   * *A running task without an entry* (`NoOrphanTask`).
     A task whose finish is pending is paused and resumed, or cancelled and
     downloaded again: the callback of the first removes, by URL, the entry of
     the second (`SearchViewController+URLSessionDelegates.swift:18`), which then
     cannot be paused or cancelled, against `DownloadService.swift:34`.
     `NoTaskLost`: this is the only way.
   * *An entry entered too late* (`FinishedLeaves`). A
     download that ends between `DownloadService.swift:51` and `54` is entered
     after its callback removed nothing, and stays "Downloading..." with no
     network failure at all.
   * *A failed task* (`InProgress`). `didCompleteWithError`
     is not implemented, and the entry stays as if the download were in progress,
     against `TrackCell.swift:78`. `NoEntryLeft`: these two are the only ways.
   * *A row that is not reloaded* (`RowAnswered`). A callback
     that had found no Download removes one entered between its lines 17 and 18,
     and reloads nothing. `CellTruthful`: this is the only way.
   * *A resume that starts again* (`ResumeKeepsData`). It
     was tapped before the handler of the pause delivered its data
     (`DownloadService.swift:86`). `ResumeGoesOn`: this is the only way.
   * *A song that is not played* (`PlaysWhatItDownloaded`).
     The file is stored under the name of the temporary file and played under the
     name of the preview (`SearchViewController.swift:59` and `74`).

## 4. Theorems

The proofs hold for every value of the constants under their named assumptions:
for the semaphore, a finite set of threads not larger than `LongMax`, an initial
value in `0..LongMax` and distinct null values, and for the lock made of it, that
a wait without a timeout is among the waits; for a parallel call, that its bounds
are natural numbers; for nested calls, at least one processor and no more
processors than `DISPATCH_APPLY_MAX`; for groups and block objects, finitely many
threads, and a group counter that holds at least one; for the unfair lock, only
that its null value is not a thread; for the queue, a width of at least one, a
width of a parallel call and a bound on the calls of a client that are natural
numbers, finitely many clients and root queue threads, no thread both, and null
values that are neither threads nor items; for the lists of work, finitely many
producers and workers, no thread both, a pool of at least one and at most as many
threads as there are identities of workers, items that are numbered in the order in
which producers take them, and null and mediator values that are different and no
items; for the downloads, at least one task
and a song of at least one piece. Two hypotheses of the suspension and one of the
downloads are explained below.

Where a counter of the code is the number of threads at some places, a step moves
one thread from one place to another. `Counting` has what that does to a
cardinality (`CountMoves`). Where a thread may own several units, the sum is
modelled as the cardinality of a set of pairs (owner, number of the unit), and
`ColumnsMove` says what a step that changes one column does to it,
`ColumnsOrdered` that larger columns have a larger sum and `ColumnsBound` that no
column, nor two of them together, is more than the sum; no sum is defined by recursion. `LeastNat`
is the least-number principle.

**`SemaphoreProofs`.** `WakeupAccounting` alone is not inductive: a
timed-out wait that increments the counter keeps it balanced only because the
value it saw was negative, a post goes to the counted port only because that
port is published and never replaced, and dispose is harmless only because no
signaller is on its way. `Inv` is the conjunction of the types, `Labels` (which
slow path goes with which label, the port is published where it is used, the
undo loop holds a negative value), `Lives`, and the accounting invariants.
`InvStep` has one step per action. From `Inv` follow the invariants of the run,
the action properties `PortIsStable` and `DisposeTrapsIffUnbalanced`, and
`SemaphoreImplementsPool`: each step is a step of the counting semaphore or
leaves it unchanged.

Every step of the lock's clients is a step of the semaphore
(`LockUsesSemaphore`), so `Inv` holds of the lock too. `Tied` adds that
the threads in the section are as many as the units held, that a thread on its
way in is not in the section yet, and that none of its waits can time out.
Mutual exclusion is then the accounting of units: no more are out than the
semaphore was created with.

**`DispatchGroupProofs`.** Two layers. `GroupInv` is about counts: registered
waiters are the ones on record, the ones a wake has claimed and the tokens of the
kernel; internal references are the owner's, one for a group that was entered,
one for each leave that has emptied it and one for a list of notifications.
`Frames` says what a thread holds at each label, `OneHead` that at most one thread
is about to publish, or to take, the head of the list. From these follow
`Accounting` and `NoUseAfterDispose`. `ListsInv` adds the list: a block that
waits for its submission is led to in one way (`OneWayIn`) and leads on in one way
(`OneWayOut`), so that no two wakes submit it; the links never run in a circle
(`Ordered`), so that the oldest block in no wake's hands is at the head; and a
head that is published while the count is zero is watched by a thread that is
going to look at it (`HeadWatched`). Likewise a waiter that is counted while the
group is empty is watched: by a wake that has not yet come to the waiters, or by a
waiter that has still to look at the value again (`WaitersWatched`). That gives
`NotifyAtMostOnce` and `NothingLeftBehind`, which includes the threads that sleep:
when all others are outside their calls, each sleeper has a wakeup of its own.

**`ApplyProofs`.** `ApplyInv` has four parts. `Route` ties the kind of the call to
what the caller has set up at each label. `Width` says that the width reserved on
each queue is the width other work uses, one unit for the caller where it is
redirected and the units for its helpers, and that it is given back once. `Alone`
is a call with no helper. `Shared` calls have `Sharings`, `Indices` and `Event`:
`da_thr_cnt` counts the threads that have not dropped their share yet; each index
below `da_index` is in one hand or has ended, and `da_todo` is the iterations that
have not ended plus what threads have ended and not posted yet; and the event is
signalled once, by the thread that brings `da_todo` to zero. Then `da` is freed
once and after the last share is dropped, no helper reads the caller's
continuation after the return, and the call refines `ParallelLoop`.

That nested calls stay within the processors is not inductive either, since the
next level's share depends on the recorded nesting. `NestingInv` says that the
threads inside a context are at most the recorded nesting and at most the
processors; the arithmetic (a quotient taken that many times is at most the
whole; products are monotone) is in lemmas. The assumption that there are no
more processors than `DISPATCH_APPLY_MAX` is needed when the nesting is capped.

**`QueuePartsProofs`**, suspension. The suspension bits of `dq_state` are one integer, and the
code adds to and subtracts from it. The proof reads it as an inline count and
three bits (`WordParts`) and states of every step what it does to each part
(`PartsStep`): that no carry or borrow leaves the count is thereby proved and not
assumed. `SuspendInv` adds to the properties who may hold the lock of the side
count (`Locked`), when there is a side count (`Sides`), which bits go with which
stage of the activation (`Bits`), and which calls owe a resume (`Calls`).

The theorems have two hypotheses, and the code does not keep its promises without
them: `Apart` (nobody sets handlers of a source that others may resume
meanwhile; `QueueSuspendSource.cfg` shows a resume that consumes the setter's
count) and `Room` (setters cannot fill the inline count on top of the suspensions
of the others; `QueueSuspendOverflow.cfg` shows the wrap). The listed run satisfies
both.

**`QueuePartsProofs`**, lists of work. `WorkInv` has the invariant of the list in
use and the balance of the pool, and is inductive as it stands; what the properties
say of a link or of the pool alone is not. The three parts:

* The links. A list `s` is `Linked` when its items are different, the last leads
  nowhere, and between two neighbours there is a link or exactly one producer that
  is about to write it: between the exchange of the tail and the store of the link
  the list has a gap, and the gap belongs to its producer. `Loose` says of the
  chains that are still to be pushed that they share no item with the list or with
  each other. The lemmas about both (`LinkAppend`, `LinkTake`, `LooseAppend`,
  `LooseStart`, ...) are stated for any list and used for both queues.
* Who has the front of the list. With one consumer (`QueueInv`) the list is cut in
  two: the first `b` items are his, by a pop or by a snapshot (`Private`), and the
  head leads to the rest, or a producer is about to write it (`Public`). In a root
  queue (`RootInv`) the linked list is the pushed items, or those and one more that
  the worker who holds the mediator has taken and not cut off yet (`RootHeld`); no
  two workers hold it, and no producer writes the head meanwhile (`RootHead`).
* The pool (`PoolInv`): what is left of it, the threads asked for and not created
  yet, and the workers that live are `PoolSize`, across wakeups, grants and exits.

Each action of a producer or a consumer has a lemma (`QueueAppends`, `RootTakes`,
`RootLeaves`, ...) that says what becomes of the list; `PoolStep` is about the pool.
`WorkListsNoDeadLink` follows because a producer that is about to link is at a gap
of the list, `WorkListsAccounting` from `PoolInv`, and `WorkListsOrder` because
the only steps that change the items between them append a chain or remove the
first item, which are the steps of `Fifo`.

**`DispatchQueueProofs`.** Every path through the queue adds to and subtracts from
one word what it believes it owns, so the invariant has to say, label by label,
what everybody owns. `QueueInv` extends the three counting parts of
`StateWordTruthful` by:

* `At`: which item a thread has in hand where; the root queue holds the queue
  and asynchronous readers only.
* `Owns`: the width and the bits a thread will give back at each label
  (`OwnsWidth`), and what a drainer has seen of the list (`SeesHead`), which stays
  true because only the owner of the lock pops.
* `DrainLock`: the owner in the word is the one thread that drains, leaves, hands
  over, runs an exclusive item or has been signaled with one; the barrier bit is
  set exactly when the whole width is his, and no pending barrier is left then.
* `Lists`, `Batches` and `Events`: an item that blocks its submitter is in one
  place, the list or the batch of one handoff, until that thread is signaled. A
  second wake of the same thread, or a grant of width to a thread that no longer
  waits, would break the sum.
* `AsyncRoom` and `SyncExcess`: asynchronous readers and the units a drainer keeps
  for them stay within the width; only a reader of `dispatch_sync` may exceed it,
  by its own unit. `AsyncWithinWidth` alone is not inductive, because a drainer
  owns units it has given to nobody yet, and the last of them may go to a reader of
  `dispatch_sync`.

The argument goes in three layers. The `Effect...` lemmas say of each update of
the word what it does to the barrier bit, the width, the pending barrier and the
owner; the `...Step` lemmas keep each part of the invariant, with one step per
action; and the sums move as one thread's column does (`AccountingStep`,
`AsyncRoomStep`). `QueueStateWord` follows: no field borrows from its neighbour,
the used width is the sum of what was taken, asynchronous readers never exceed
the width, and `ENQUEUED` is set exactly while the queue is on the root queue or
in one worker's hands.

`QueueNothingLeftBehind` is about a queue at rest, and says that who comes last
always looks again. `RestInv` adds, on top of `QueueInv`, who that is. A queue
has somebody `InCharge` when the drain lock is owned, `ENQUEUED` is set or width
is out. `Watched`: a `DIRTY` bit has somebody in charge, and items have somebody
in charge or a thread on its way to wake the queue. `Told` is the handshake of the
unlock: a thread that is about to unlock a queue with items in its list finds
`DIRTY`, or a thread that has pushed and not announced it yet, or leaves them to the
readers who hold the whole width and look at the list when they complete. It is what
makes the failed compare-and-swap of the code necessary: without the re-read of
`DIRTY` the last item of the list has nobody. `Claimed`: width reserved for a
barrier has that barrier in the list. `Queued`: the item of a thread that waits is
in the list or in the batch of a handoff. At rest nobody is in charge and nobody is on
the way, so that the list is empty, so that nobody waits, so that the word is idle.
As in `NothingLeftBehind` itself, suspensions and `dispatch_apply` are excluded for
`Watched` and `Told` (`Plain`); `DispatchQueueSuspend.cfg` and
`DispatchQueueApply.cfg` check runs with them.

**`LockProofs`.** In the unfair lock, the announcement that somebody sleeps travels: from the
word, where `lock_slow` wrote it, to the releaser that found it there, to the
thread its kernel call woke, and back into the word if the kernel said that others
sleep. `Waker` names who has it, and a sleeping thread has a waker throughout.
That is inductive with `Announced` (a thread about to sleep expects an announced
word of another owner; a releaser in the kernel has somebody to wake) and
`MissedIsMarked` (the word records exactly the attempts that failed during this
tenure), which also gives `FailedTrylockReported`.

The two builds of `dispatch_once` have an invariant each. In the gate, `BlockedHasWaker` needs
to know that a thread about to sleep has marked the value it sleeps on
(`SleepersMarked`), that the runner owns the gate (`RunnerOwns`) and how far the
block is (`BlockProgress`, `CallsInOrder`); recursive callers are included. In the
list, `OneRunner` ties the predicate to the one thread that runs the block,
`Nodes` says what is in a node at each label of its owner, and `Chain` that the
nodes that are still to be signalled lead one by one to the runner's: whatever a
pending node was pushed in front of is itself pending, and no two were pushed in
front of the same. A thread that reads its neighbour's node, and the runner that
walks, therefore stay among nodes that have not been signalled, whose owners
cannot have returned (`OnceNoDeadNode`). Both builds refine `Once`.

**`CancellationProofs`**, dispatch blocks. `QueueBalanced` counts the threads that have still to
retain or to release the queue; each action has to change the reference count by
as much as it changes that sum (`OwedMoves`). `CompletionSound` needs to know that
executions and references add up: every execution that began has performed, waits
in a queue or is with a thread (`ExecutionsAddUp`), and every reference is the
client's, an item's or a holder's (`ReferencesAddUp`), so that the destructor runs
after the last of them and leaves the group only if no execution did
(`LeftAsPerformed`). That a legal client is not told otherwise rests on
`ObservedOnce` and `ExecutedOneWay`: a block that is waited for is executed once,
in one of the ways.

**`CancellationProofs`**, downloads. The theorems have no hypothesis: the
user may tap at any time and the network may fail. `TrackInv` has five parts.
`Typed`. `Tasks`: the session hands out its tasks in order, and two Downloads never
share one. `Mains`: what the main thread holds at each label, in particular that
the Download it is about to enter, or has just cancelled, is not entered already.
`Rows`: a row whose buttons do not fit the table has a reload on its way, will get
one from the callback that runs, or lost an entry nobody had seen (`unseen`).
`Pauses`: a paused Download's task was cancelled or is over, and its resume data is
what that task had, or is on its way, or came too late for a resume (`hurried`).
`CellTruthful` follows from `Rows`; the action properties, `NoTaskLost` and
`NoEntryLeft` (together `TableTruthful`) and `ResumeGoesOn`, follow step by step: only the removals of `cancelDownload` and of the delegate, and the steps that
start or enter a task, can take one out of reach or leave an entry behind.

**`CancellationProofs`**, sources. The hypothesis of the two theorems is
`~MayVanish`: the descriptor stays valid. It is needed, as `DispatchSourceVanish.cfg`
shows (section 3, 8); nothing is assumed of the clients beyond the rules that the
model's client keeps. What makes `CancellationFinal` hard is that the kevent is deleted
by whoever gets to it, in up to four steps (`unreg`, `kdelete`, `deferred`,
`deleted`), while events are delivered and other threads set flags. `SourceInv` says:

* `Course`: which labels each call passes, and where its subroutines return to.
* `DrainLocked` and `CallsFit`: one thread at a time has the source, by the drain lock
  or by activating it (`SoleHolder`), and the clients keep to the rules of
  `source_private.h`.
* `KnoteFits`: what the flags and the fields of the source say of the kernel's knote.
  A posted event is that of an armed, disabled knote; a deleted source has neither
  knote nor event; a deletion that the kernel put off is announced by
  `DSF_DEFERRED_DELETE`, or a thread is about to announce it; and without a kevent
  the source is deleted, or a thread is about to say so.
* `Stage`: what the thread that has the source knows at each label, so that what it
  read before still holds: a thread about to arm finds no flag set, a thread in
  `latch` or `handler` runs on a source that is not deleted, a thread about to call
  the cancel handler on one that is.
* `ToldOfEnd`, `InQueueOnce` and `SourceReferences`: who was told, that the source is
  in its target queue once, and that its reference count is the client's reference,
  the manager's, that of the inactive source, the queue's, and one for each call.

Each part has a lemma with one step per action. The lemmas in between say what a step
does to the lock (`LockMoves`), to the places of the threads (`PlaceMoves`,
`SourceOthersStay`) and to the references (`ReferrersMove`, `HandlerMoves`), and that
another thread cannot make untrue what the holder knows (`StageOthers`): it may add
`DSF_CANCELED` or a delivery, and never takes a flag away.

`SourceNothingLeftBehind` is about a source at rest, and needs `SourceRestInv` beside
`SourceInv`: somebody is always on the way to what the source is owed (`IsOwed`).
That is less than what makes `_dispatch_source_wakeup` push it (`HasWork`): a
`dispatch_source_cancel_and_wait` that finds the source deleted leaves the event
handler, if it is still set, to the release, and wakes nobody for it.

* `Waiting`: a waiter has cancelled, and one that sleeps has set
  `DSF_CANCEL_WAITER` on a source that still has its kevent, or the thread that
  found the bit is about to wake it.
* `KnoteServed`: an armed source has an enabled knote, or an event on its way
  through the kernel or the manager thread; once the deletion is put off, the knote
  is not enabled again.
* `DrainerTold`: the DIRTY bit. `Overlooks` says what a drainer that goes on to
  unlock no longer looks at: data that came after it latched, a cancellation after it
  decided to arm, anything at the unlock. Whenever it overlooks something, DIRTY is
  set, so that the unlock fails and it looks again, or the thread that will set the
  bit is on its way (`Flusher`).
* `SourceWatched`: a source that nobody has and that is owed something is in its
  queue, or a thread is on its way to push it (`OnTheWay`).

The step lemmas follow who has the source. The one that has it changes the fields
(`FieldsMove`), and what it overlooks was there when it last looked or came since
(`OverlooksStep`); another that gives the source something to do becomes a `Flusher`
(`TellMoves`) and stays one until it has set DIRTY or pushed the source (`WorkStays`,
`LookersStay`), and a drainer that lets go leaves nothing owed, or leaves the source
in its queue (`WatchMoves`).

Model-checked only: all liveness properties, the part of `AbsSpec` that says that a
list empties again among them (fairness is beyond the prover);
and the refinement of `BarrierQueue` by the queue. Every invariant that a passing
run checks is stated by a theorem.

Leaves on which a prover takes more than a second name it with a limit well above
what they need (`SMTT(60)`, `ZenonT(60)`), so that the proofs do not depend on how
busy the machine is.

## 5. What is not modelled

* In the queues: priorities and QoS overrides, with the stealing of the drain lock
  they allow; hierarchies of target queues deeper than a queue on a root queue;
  the main, run-loop and manager queues; deferred items of nested drains; the
  kernel work queue in place of the thread pool; queue-specific data.
* In the sources: timers, custom (adder and or-er) sources, shared kevents,
  registration handlers, suspension of an active source, mach channels.
* io, data, time, init, allocator, voucher and introspection of libdispatch:
  conversions, immutable ropes and start-up, or features on top of the parts
  above.
* The POSIX and Windows semaphores, the semaphore fallback of thread events, and
  the futex and yield builds of the unfair lock.
* Weak memory.
* A recursive `dispatch_once` in the list build, which hangs by design
  (`once.c:139`).
* HalfTunes' search: `QueryService` clears `dataTask` in the completion of a query
  that a newer one has replaced (`QueryService.swift:56`), which then cannot be
  cancelled; nothing in the repository says what it must show.
* HalfTunes' progress bar, that is all of `didWriteData` and the key-value
  observers of the rows: a report of a cancelled task looks its Download up by URL
  (`SearchViewController+URLSessionDelegates.swift:42`) and may move the bar of the
  one that replaced it; it changes neither the table nor a task.
* SocketTutorial: its protocol runs on GCDAsyncSocket, a third-party library
  vendored at
  `SocketTutorial/Socket_Client/Pods/CocoaAsyncSocket/Source/GCD/GCDAsyncSocket.m`
  and left aside. By reading: the loop over a service's addresses never advances when
  a connection attempt fails (`JoinGameViewController.m:72`), and a late
  disconnect clears a newer socket (161).
* LockFun's wait with a timeout signals even if it gave up (`ViewController.m:244`),
  which the comment at line 227 concedes; the lock model waits without one.
* The other programs: views, drawing, media and framework calls.

The mapped lines are a small share of the repository. More than half of its lines
are one generated file (`GCDAssist/GCDAssist/main.cpp`, 95,838 lines of
preprocessor output with no logic of its own), and most of the other six hundred
files are demonstrations of frameworks; what is left with concurrent state of its
own is mostly covered by the modules above and by the omissions listed here.

## 6. Plan

Done: semaphore, lock client, group, reuse, once (two builds), apply, nesting,
queue, suspension, work lists and pool, unfair lock, block objects, sources with
a direct kevent, HalfTunes downloads; proofs for the semaphore, its lock client,
both builds of once, the group, one call of `dispatch_apply` and nested ones, the
suspension, the lists of work and their pool, the state word of the queue and that
nothing is left behind in it, the unfair lock, block objects, downloads, and that
the cancellation of a source is final and nothing is left behind in it.

Proofs to add: the refinement of `BarrierQueue` by the queue.

Modules that would add most: hierarchies of target queues, timers, and the pair of
internal and external reference counts.
