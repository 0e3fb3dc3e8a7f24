---------------------------- MODULE DispatchQueue ----------------------------
(***************************************************************************)
(* One dispatch queue of a given width that targets a root queue:          *)
(* src/queue.c, src/inline_internal.h, src/queue_internal.h.               *)
(*                                                                         *)
(* dq_state is the record dq.  Its fields are integers and booleans where  *)
(* the code has bit fields; the code adds and subtracts fields of one word,*)
(* so a field that leaves its range here is a borrow into its neighbour    *)
(* there.  w counts used width (the code stores w - dq_width + FULL), so   *)
(* the full bit is w >= Width.  The item list is a sequence: a push is its *)
(* exchange of the tail, and the spinning for head and do_next is waiting  *)
(* (MpscQueue checks the list itself).  A thread event is a member of      *)
(* signaled.                                                               *)
(*                                                                         *)
(* The build is one without QoS overrides: no stealing, no HAS_OVERRIDE,   *)
(* no deferred items of nested drains.                                     *)
(***************************************************************************)
EXTENDS Integers, Sequences, FiniteSets

CONSTANTS Clients,     \* threads that call the API
          Workers,     \* threads of the root queue
          Width,       \* dq_width: 1 is a serial queue
          Programs,    \* the sets of calls the clients may restrict themselves to
          Suspenders,  \* the clients that suspend and resume the queue
          MaxOps,      \* bound: calls per client
          ApplyWidth,  \* the width dispatch_apply asks for
          DQ,          \* the queue itself, as an item of the root queue
          None         \* no owner, no item

ASSUME WidthAssumption == Width \in Nat \ {0} /\ ApplyWidth \in Nat /\ MaxOps \in Nat

VARIABLES dq,          \* dq_state
          items,       \* dq_items_head ... dq_items_tail
          root,        \* the root queue: the queue itself (DQ) and redirected items
          pc,          \* where each thread is
          cur,         \* the item a thread submits, waits for or runs
          owned,       \* the width a drainer owns (owned, to_unlock)
          batch,       \* slow items popped for a lock transfer
          flags,       \* wakeup flags: "none", "flush" or "slow" (and flush)
          signaled,    \* clients whose thread event was signaled
          uses,        \* the calls that the clients of this behaviour make
          ops,         \* calls made so far, per client
          outstanding  \* history: items submitted and not finished

vars == <<dq, items, root, pc, cur, owned, batch, flags, signaled, uses, ops, outstanding>>
local == <<cur, owned, batch, flags>>
history == <<ops, outstanding>>

Threads == Clients \union Workers

\* A submitted item; apply marks a dispatch_apply, which is a dispatch_sync
\* that takes more width while it runs.
Item(c, n, k) ==
  [by |-> c, n |-> n, sync |-> k \in {"sync", "barrier_sync", "apply"},
   barrier |-> \/ k \in {"barrier_async", "barrier_sync"}
               \/ Width = 1 /\ k \in {"sync", "apply"},
   apply |-> k = "apply" /\ Width > 1]
Kinds == UNION Programs \ {"suspend"}
Items == {Item(c, n, k) : c \in Clients, n \in 1..MaxOps, k \in Kinds}

Exclusive(i) == Width = 1 \/ i.barrier

ASSUME NamesAssumption == /\ IsFiniteSet(Clients) /\ IsFiniteSet(Workers)
                          /\ Clients \cap Workers = {} /\ None \notin Threads
                          /\ None \notin Items /\ DQ \notin Items

-----------------------------------------------------------------------------
(* The state word *)

Suspended(s) == s.sc > 0
Locked(s) == s.owner # None
Runnable(s) == ~Suspended(s) /\ s.ib = 0 /\ s.w < Width
SyncRunnable(s) == ~Suspended(s) /\ s.ib = 0
ShouldWakeup(s) == Runnable(s) /\ ~s.enq /\ ~Locked(s)

Idle == [sc |-> 0, ib |-> 0, w |-> 0, pb |-> 0, dirty |-> FALSE, enq |-> FALSE,
         owner |-> None]

Nothing == [ib |-> 0, w |-> 0, pb |-> 0]
InBarrier == [ib |-> 1, w |-> 0, pb |-> 0]
BarrierWidth == [ib |-> 1, w |-> Width, pb |-> 0]
JustWidth(n) == [ib |-> 0, w |-> n, pb |-> 0]

Minus(s, o) == [s EXCEPT !.ib = @ - o.ib, !.w = @ - o.w, !.pb = @ - o.pb]
Unlock(s) == [s EXCEPT !.owner = None]

\* Plausible bug: a single reader in flight does not keep a barrier out.
BarrierFree_offByOne(s) == s.pb = 1 \/ s.w + (Width - 1) <= Width

\* The whole width is free, or reserved for a pending barrier.
BarrierFree(s) == s.pb = 1 \/ s.w + (Width - 1) < Width

\* _dispatch_queue_adjust_owned: keep Width - 1 for the barrier dc at the head.
AdjustOwned(o, dc) ==
  IF Width > 1 /\ dc # None /\ dc.barrier
  THEN [o EXCEPT !.pb = @ - 1, !.w = @ - (Width - 1)] ELSE o

\* The "full width" upgrade of _dispatch_non_barrier_complete and
\* _dispatch_queue_resume.
FullWidth(s) == IF s.pb = 1 THEN [s EXCEPT !.pb = 0, !.w = @ + 1, !.ib = @ + 1]
                ELSE [s EXCEPT !.w = @ + Width, !.ib = @ + 1]
CanUpgrade(s) == Runnable(s) /\ ~Locked(s) /\ FullWidth(s).w = Width
Upgrade(s, t) == [FullWidth(s) EXCEPT !.dirty = FALSE, !.owner = t]

\* A drain lock acquirer keeps only ENQUEUED and owns the rest of the width.
LockedFor(s, t) == [s EXCEPT !.owner = t, !.w = Width, !.pb = 0, !.dirty = FALSE,
                             !.ib = IF BarrierFree(s) THEN 1 ELSE 0]

-----------------------------------------------------------------------------
(* The atomic updates of the state word *)

\* Plausible bugs: the unlock forgets to give the width back; a reader that goes
\* back under the limit does not set DIRTY.
TryUnlock_keepWidth(s, o) == [Unlock(Minus(s, o)) EXCEPT !.w = s.w, !.dirty = FALSE]
NonBarrierDone_noDirty(s, t) ==
  LET n == [s EXCEPT !.w = @ - 1] IN IF CanUpgrade(n) THEN Upgrade(n, t) ELSE n

\* _dispatch_queue_try_acquire_barrier_sync: one compare and swap of the idle word.
BarrierIdle(s) == s = Idle

\* _dispatch_queue_try_reserve_sync_width and _dispatch_queue_try_acquire_async.
ReserveSync(s) == SyncRunnable(s) /\ ~s.dirty /\ s.pb = 0
AcquireAsync(s) == Runnable(s) /\ ~s.dirty /\ s.pb = 0

\* _dispatch_queue_drain_try_unlock: DIRTY means that the drainer must look again.
MustRetry(s) == s.dirty /\ ~Suspended(s)
TryUnlock(s, o) ==
  LET n == Unlock(Minus(s, o))
  IN IF n.w >= Width \/ Suspended(s) THEN n ELSE [n EXCEPT !.dirty = FALSE]

\* _dispatch_queue_drain_lock_transfer_or_unlock to the first item of b.
Transfer(s, o, b) ==
  [Minus(s, o) EXCEPT !.dirty = FALSE, !.owner = IF b[1].barrier THEN b[1].by ELSE None]

\* The loop of _dispatch_non_barrier_complete.
NonBarrierDone(s, t) ==
  LET n == [s EXCEPT !.w = @ - 1]
      d == [n EXCEPT !.dirty = @ \/ (Runnable(n) /\ ~Runnable(s))]
  IN IF CanUpgrade(n) THEN Upgrade(n, t) ELSE d

\* The three loops of _dispatch_queue_class_wakeup.
WakeupSlow(s, t) ==
  LET n == [s EXCEPT !.dirty = TRUE]
  IN IF Locked(n) \/ ~Runnable(n) THEN n
     ELSE IF BarrierFree(n) THEN LockedFor(n, t) ELSE [n EXCEPT !.enq = TRUE]
WakeupPlain(s, bits) == [s EXCEPT !.dirty = @ \/ bits, !.enq = @ \/ ShouldWakeup(s)]

\* The end of _dispatch_queue_class_invoke for an interrupted drain.
UpgradesToBarrier(n) == Runnable(n) /\ n.pb = 1
Interrupted(s, o) ==
  LET n == Minus(s, o)
  IN IF UpgradesToBarrier(n) THEN [n EXCEPT !.ib = @ + 1, !.w = @ + 1, !.pb = @ - 1]
     ELSE IF ShouldWakeup(Unlock(n)) THEN [Unlock(n) EXCEPT !.enq = TRUE, !.dirty = TRUE]
     ELSE Unlock(n)
-----------------------------------------------------------------------------
Goto(t, l) == pc' = [pc EXCEPT ![t] = l]
SetItem(t, i) == cur' = [cur EXCEPT ![t] = i]
SetOwned(t, o) == owned' = [owned EXCEPT ![t] = o]
SetFlags(t, f) == flags' = [flags EXCEPT ![t] = f]

RunLabel(i) == IF i.apply THEN "apply" ELSE "run"

\* Where a thread goes when a helper that does not block returns: a slow item's
\* thread waits for its event, every other call returns.
Return(t) == IF cur[t] # None /\ cur[t].sync /\ cur[t] \in outstanding THEN "wait" ELSE "idle"

Init == /\ dq = Idle
        /\ items = <<>> /\ root = <<>>
        /\ pc = [t \in Threads |-> "idle"]
        /\ cur = [t \in Threads |-> None]
        /\ owned = [t \in Threads |-> Nothing]
        /\ batch = [t \in Threads |-> <<>>]
        /\ flags = [t \in Threads |-> "none"]
        /\ signaled = {}
        /\ uses \in Programs
        /\ ops = [c \in Clients |-> 0]
        /\ outstanding = {}
-----------------------------------------------------------------------------
(* Client calls *)

FirstStep(i) == IF i.sync THEN IF i.barrier THEN "barrier_sync" ELSE "sync_f2"
                ELSE IF Exclusive(i) THEN "push" ELSE "async_f2"

dispatch_call(c, k) ==
  /\ pc[c] = "idle" /\ ops[c] < MaxOps
  /\ LET i == Item(c, ops[c] + 1, k)
     IN /\ SetItem(c, i)
        /\ outstanding' = outstanding \union {i}
        /\ Goto(c, FirstStep(i))
  /\ ops' = [ops EXCEPT ![c] = @ + 1]
  /\ UNCHANGED <<dq, items, root, owned, batch, flags, signaled>>

\* _dispatch_async_f2 and _dispatch_sync_f2 look at the tail before they try
\* to take width.
async_f2(c) ==
  /\ pc[c] = "async_f2"
  /\ Goto(c, IF items # <<>> THEN "push" ELSE "acquire_async")
  /\ UNCHANGED <<dq, items, root, local, signaled, history>>

acquire_async(c) ==
  /\ pc[c] = "acquire_async"
  /\ \/ AcquireAsync(dq) /\ dq' = [dq EXCEPT !.w = @ + 1] /\ Goto(c, "redirect")
     \/ ~AcquireAsync(dq) /\ UNCHANGED dq /\ Goto(c, "push")
  /\ UNCHANGED <<items, root, local, signaled, history>>

\* _dispatch_async_f_redirect to the root queue, by a client or by a drainer.
redirect(t) ==
  /\ pc[t] = "redirect"
  /\ root' = Append(root, cur[t])
  /\ SetItem(t, None)
  /\ Goto(t, IF t \in Workers THEN "drain" ELSE "idle")
  /\ UNCHANGED <<dq, items, owned, batch, flags, signaled, history>>

SyncProbe == items = <<>>

sync_f2(c) ==
  /\ pc[c] = "sync_f2"
  /\ Goto(c, IF SyncProbe THEN "reserve_sync" ELSE "push")
  /\ UNCHANGED <<dq, items, root, local, signaled, history>>

reserve_sync(c) ==
  /\ pc[c] = "reserve_sync"
  /\ \/ ReserveSync(dq) /\ dq' = [dq EXCEPT !.w = @ + 1] /\ Goto(c, RunLabel(cur[c]))
     \/ ~ReserveSync(dq) /\ UNCHANGED dq /\ Goto(c, "push")
  /\ UNCHANGED <<items, root, local, signaled, history>>

barrier_sync(c) ==
  /\ pc[c] = "barrier_sync"
  /\ \/ /\ BarrierIdle(dq)
        /\ dq' = [dq EXCEPT !.ib = 1, !.w = Width, !.owner = c]
        /\ Goto(c, RunLabel(cur[c]))
     \/ ~BarrierIdle(dq) /\ UNCHANGED dq /\ Goto(c, "push")
  /\ UNCHANGED <<items, root, local, signaled, history>>

\* _dispatch_queue_push_inline: only the push that found the list empty (and
\* wrote the head) wakes the queue; a slow waiter behind others has nothing
\* to change in the state word.
queue_push(c) ==
  /\ pc[c] = "push"
  /\ items' = Append(items, cur[c])
  /\ \/ /\ items = <<>>
        /\ SetFlags(c, IF cur[c].sync THEN "slow" ELSE "flush")
        /\ Goto(c, "probe")
     \/ items # <<>> /\ Goto(c, Return(c)) /\ UNCHANGED flags
  /\ UNCHANGED <<dq, root, cur, owned, batch, signaled, history>>

\* _dispatch_thread_event_wait of _dispatch_sync_f_slow and
\* _dispatch_barrier_sync_f_slow.
sync_wait(c) ==
  /\ pc[c] = "wait" /\ c \in signaled
  /\ signaled' = signaled \ {c}
  /\ Goto(c, RunLabel(cur[c]))
  /\ UNCHANGED <<dq, items, root, local, history>>

\* dispatch_apply on the queue takes what width is free, and gives it back with
\* no wakeup.
Available(s) == IF s.w >= Width THEN 0 ELSE Width - s.w
Lesser(a, b) == IF a < b THEN a ELSE b

apply_reserve(c) ==
  /\ pc[c] = "apply"
  /\ LET k == Lesser(Available(dq), ApplyWidth)
     IN dq' = [dq EXCEPT !.w = @ + k] /\ SetOwned(c, JustWidth(k))
  /\ Goto(c, "apply_run")
  /\ UNCHANGED <<items, root, cur, batch, flags, signaled, history>>

apply_relinquish(c) ==
  /\ pc[c] = "apply_run"
  /\ dq' = [dq EXCEPT !.w = @ - owned[c].w]
  /\ SetOwned(c, Nothing)
  /\ Goto(c, "run")
  /\ UNCHANGED <<items, root, cur, batch, flags, signaled, history>>

\* _dispatch_queue_suspend (the side count is QueueSuspend's subject).
queue_suspend(c) ==
  /\ pc[c] = "idle" /\ ops[c] < MaxOps /\ c \in Suspenders /\ "suspend" \in uses
  /\ ops' = [ops EXCEPT ![c] = @ + 1]
  /\ SetItem(c, None)
  /\ dq' = [dq EXCEPT !.sc = @ + 1]
  /\ Goto(c, "suspended")
  /\ UNCHANGED <<items, root, owned, batch, flags, signaled, outstanding>>

\* _dispatch_queue_resume: the last resume takes the barrier width when it is
\* free, and wakes the queue otherwise.
ResumeUpgrades(s) == CanUpgrade([s EXCEPT !.sc = @ - 1])

queue_resume(c) ==
  /\ pc[c] = "suspended"
  /\ LET n == [dq EXCEPT !.sc = @ - 1]
     IN \/ /\ ResumeUpgrades(dq)
           /\ dq' = Upgrade(n, c) /\ SetOwned(c, BarrierWidth)
           /\ Goto(c, "handoff") /\ UNCHANGED flags
        \/ /\ ~ResumeUpgrades(dq)
           /\ dq' = n /\ SetFlags(c, "none")
           /\ Goto(c, IF ShouldWakeup(n) THEN "probe" ELSE "idle") /\ UNCHANGED owned
  /\ UNCHANGED <<items, root, cur, batch, signaled, history>>
-----------------------------------------------------------------------------
(* Running an item, and what its thread owes the queue afterwards *)

\* A barrier's thread owns the whole width (_dispatch_barrier_complete), an item
\* run by the drain leaves the width to its drainer, any other returns one unit.
finish(t) ==
  /\ pc[t] = "run"
  /\ outstanding' = outstanding \ {cur[t]}
  /\ \/ /\ cur[t].sync /\ cur[t].barrier
        /\ SetOwned(t, BarrierWidth) /\ Goto(t, "handoff")
     \/ ~cur[t].sync /\ Exclusive(cur[t]) /\ Goto(t, "drain") /\ UNCHANGED owned
     \/ ~Exclusive(cur[t]) /\ Goto(t, "complete") /\ UNCHANGED owned
  /\ UNCHANGED <<dq, items, root, cur, batch, flags, signaled, ops>>

\* _dispatch_non_barrier_complete
non_barrier_complete(t) ==
  /\ pc[t] = "complete"
  /\ dq' = NonBarrierDone(dq, t)
  /\ \/ dq'.ib = 1 /\ SetOwned(t, BarrierWidth) /\ Goto(t, "handoff") /\ UNCHANGED flags
     \/ /\ dq'.ib = 0 /\ UNCHANGED owned /\ SetFlags(t, "none")
        /\ Goto(t, IF ~Runnable(dq) /\ ShouldWakeup(dq') THEN "probe" ELSE Return(t))
  /\ UNCHANGED <<items, root, cur, batch, signaled, history>>
-----------------------------------------------------------------------------
(* Wakeups *)

\* _dispatch_queue_wakeup: a queue that looks empty needs none.
wakeup_probe(t) ==
  /\ pc[t] = "probe"
  /\ Goto(t, IF items = <<>> THEN Return(t) ELSE "wakeup")
  /\ UNCHANGED <<dq, items, root, local, signaled, history>>

\* _dispatch_queue_class_wakeup: a slow waiter becomes the owner of an idle
\* queue; otherwise the queue is enqueued unless somebody is in charge of it.
class_wakeup(t) ==
  /\ pc[t] = "wakeup"
  /\ dq' = IF flags[t] = "slow" THEN WakeupSlow(dq, t) ELSE WakeupPlain(dq, flags[t] = "flush")
  /\ \/ dq'.ib # dq.ib /\ SetOwned(t, BarrierWidth) /\ Goto(t, "handoff")
     \/ /\ dq'.ib = dq.ib /\ UNCHANGED owned
        /\ Goto(t, IF dq'.enq # dq.enq THEN "enqueue" ELSE Return(t))
  /\ UNCHANGED <<items, root, cur, batch, flags, signaled, history>>

\* _dispatch_queue_class_wakeup_enqueue, and the push of an interrupted drain.
wakeup_enqueue(t) ==
  /\ pc[t] = "enqueue"
  /\ root' = Append(root, DQ)
  /\ Goto(t, Return(t))
  /\ UNCHANGED <<dq, items, local, signaled, history>>
-----------------------------------------------------------------------------
(* _dispatch_try_lock_transfer_or_wakeup: the thread owns the barrier width *)

SlowReader(i) == i.sync /\ ~Exclusive(i)
SlowPrefix == LET n == CHOOSE m \in 0..Len(items) :
                         /\ \A j \in 1..m : SlowReader(items[j])
                         /\ m = Len(items) \/ ~SlowReader(items[m + 1])
              IN SubSeq(items, 1, n)

handoff(t) ==
  /\ pc[t] = "handoff"
  /\ \/ /\ items = <<>> \/ Suspended(dq)
        /\ Goto(t, "release") /\ UNCHANGED owned
     \/ /\ items # <<>> /\ ~Suspended(dq) /\ Head(items).sync
        /\ Goto(t, "handoff_pop") /\ UNCHANGED owned
     \/ /\ items # <<>> /\ ~Suspended(dq) /\ ~Head(items).sync
        /\ SetOwned(t, AdjustOwned(owned[t], Head(items)))
        /\ Goto(t, "unlock_wakeup")
  /\ UNCHANGED <<dq, items, root, cur, batch, flags, signaled, history>>

\* One writer, or every reader at the head whatever the width.
handoff_pop(t) ==
  /\ pc[t] = "handoff_pop"
  /\ LET b == IF Exclusive(Head(items)) THEN <<Head(items)>> ELSE SlowPrefix
     IN /\ batch' = [batch EXCEPT ![t] = b]
        /\ items' = SubSeq(items, Len(b) + 1, Len(items))
        /\ SetOwned(t, IF Exclusive(Head(items)) THEN Nothing
                       ELSE [BarrierWidth EXCEPT !.w = @ - Len(b)])
  /\ Goto(t, "transfer")
  /\ UNCHANGED <<dq, root, cur, flags, signaled, history>>

\* The lock is transferred first; then the items' events are signaled.
transfer(t) ==
  /\ pc[t] = "transfer"
  /\ dq' = Transfer(dq, owned[t], batch[t])
  /\ signaled' = signaled \union {batch[t][j].by : j \in 1..Len(batch[t])}
  /\ batch' = [batch EXCEPT ![t] = <<>>]
  /\ SetOwned(t, Nothing)
  /\ Goto(t, Return(t))
  /\ UNCHANGED <<items, root, cur, flags, history>>

unlock_wakeup(t) ==
  /\ pc[t] = "unlock_wakeup"
  /\ dq' = [Unlock(Minus(dq, owned[t])) EXCEPT !.dirty = FALSE]
  /\ SetOwned(t, Nothing) /\ SetFlags(t, "none")
  /\ Goto(t, IF ShouldWakeup(dq') THEN "probe" ELSE Return(t))
  /\ UNCHANGED <<items, root, cur, batch, signaled, history>>

\* _dispatch_queue_drain_try_unlock.  The load that sees DIRTY and the and that
\* clears it are two steps; a failed unlock goes back to look at the list.
try_unlock(t, from, clear) ==
  /\ pc[t] = from
  /\ \/ MustRetry(dq) /\ Goto(t, clear) /\ UNCHANGED <<dq, owned>>
     \/ /\ ~MustRetry(dq)
        /\ dq' = TryUnlock(dq, owned[t])
        /\ SetOwned(t, Nothing)
        /\ Goto(t, Return(t))
  /\ UNCHANGED <<items, root, cur, batch, flags, signaled, history>>

clear_dirty(t, from, retry) ==
  /\ pc[t] = from
  /\ dq' = [dq EXCEPT !.dirty = FALSE]
  /\ SetOwned(t, IF retry = "drain" /\ owned[t].ib = 1 THEN InBarrier ELSE owned[t])
  /\ Goto(t, retry)
  /\ UNCHANGED <<items, root, cur, batch, flags, signaled, history>>
-----------------------------------------------------------------------------
(* Worker threads: the root queue hands out dq or a redirected item *)

root_pop(t) ==
  /\ pc[t] = "idle" /\ root # <<>>
  /\ root' = Tail(root)
  /\ \/ Head(root) = DQ /\ SetItem(t, None) /\ Goto(t, "lock")
     \/ Head(root) # DQ /\ SetItem(t, Head(root)) /\ Goto(t, "run")
  /\ UNCHANGED <<dq, items, owned, batch, flags, signaled, history>>

\* _dispatch_queue_drain_try_lock: ENQUEUED is cleared even when the lock fails.
drain_try_lock(t) ==
  /\ pc[t] = "lock"
  /\ LET n == [dq EXCEPT !.enq = ~@]
     IN \/ /\ Runnable(dq) /\ ~Locked(dq)
           /\ dq' = LockedFor(n, t)
           /\ SetOwned(t, IF BarrierFree(dq) THEN InBarrier ELSE JustWidth(Width - dq.w))
           /\ Goto(t, "drain")
        \/ /\ ~(Runnable(dq) /\ ~Locked(dq))
           /\ dq' = n /\ Goto(t, "idle") /\ UNCHANGED owned
  /\ UNCHANGED <<items, root, cur, batch, flags, signaled, history>>

\* _dispatch_queue_drain stops at an empty list, a suspension, or a barrier it
\* does not own the width for.
DrainOut(t, dc) ==
  LET o == IF owned[t] = InBarrier THEN BarrierWidth ELSE owned[t]
  IN /\ SetOwned(t, AdjustOwned(o, dc))
     /\ Goto(t, IF dc = None THEN "unlock" ELSE "reenqueue")

drain(t) ==
  /\ pc[t] = "drain"
  /\ \/ items = <<>> /\ DrainOut(t, None)
     \/ /\ items # <<>>
        /\ Suspended(dq) \/ (Width > 1 /\ Head(items).barrier /\ owned[t] # InBarrier)
        /\ DrainOut(t, Head(items))
     \/ /\ items # <<>> /\ ~Suspended(dq)
        /\ ~Exclusive(Head(items)) \/ Width = 1 \/ owned[t] = InBarrier
        /\ Goto(t, IF Exclusive(Head(items)) THEN "pop" ELSE "width")
        /\ UNCHANGED owned
  /\ SetItem(t, None)
  /\ UNCHANGED <<dq, items, root, batch, flags, signaled, history>>

\* A reader at the head: give up IN_BARRIER, or take one unit of width (a slow
\* item takes it unconditionally), or leave with no width.
drain_width(t) ==
  /\ pc[t] = "width"
  /\ \/ /\ owned[t] = InBarrier
        /\ dq' = [dq EXCEPT !.ib = 0] /\ SetOwned(t, JustWidth(Width)) /\ Goto(t, "pop")
     \/ /\ owned[t] = Nothing /\ (Head(items).sync \/ AcquireAsync(dq))
        /\ dq' = [dq EXCEPT !.w = @ + 1] /\ SetOwned(t, JustWidth(1)) /\ Goto(t, "pop")
     \/ /\ owned[t] = Nothing /\ ~Head(items).sync /\ ~AcquireAsync(dq)
        /\ Goto(t, "unlock") /\ UNCHANGED <<dq, owned>>
     \/ owned[t].w > 0 /\ Goto(t, "pop") /\ UNCHANGED <<dq, owned>>
  /\ UNCHANGED <<items, root, cur, batch, flags, signaled, history>>

\* A slow writer gets the lock, a slow reader its event, another reader goes to
\* the root queue, and an exclusive item runs here.
drain_pop(t) ==
  /\ pc[t] = "pop"
  /\ items' = Tail(items)
  /\ LET dc == Head(items)
     IN \/ /\ Exclusive(dc) /\ dc.sync
           /\ batch' = [batch EXCEPT ![t] = <<dc>>] /\ SetOwned(t, Nothing)
           /\ Goto(t, "transfer") /\ UNCHANGED <<cur, signaled>>
        \/ /\ Exclusive(dc) /\ ~dc.sync
           /\ SetItem(t, dc) /\ Goto(t, "run") /\ UNCHANGED <<batch, signaled, owned>>
        \/ /\ ~Exclusive(dc) /\ dc.sync
           /\ signaled' = signaled \union {dc.by}
           /\ SetOwned(t, [owned[t] EXCEPT !.w = @ - 1])
           /\ Goto(t, "drain") /\ UNCHANGED <<cur, batch>>
        \/ /\ ~Exclusive(dc) /\ ~dc.sync
           /\ SetOwned(t, [owned[t] EXCEPT !.w = @ - 1]) /\ SetItem(t, dc)
           /\ Goto(t, "redirect") /\ UNCHANGED <<signaled, batch>>
  /\ UNCHANGED <<dq, root, flags, history>>

\* The end of _dispatch_queue_class_invoke when the drain was interrupted: drain
\* on when the pending barrier can have the width at once, else reenqueue.
reenqueue(t) ==
  /\ pc[t] = "reenqueue"
  /\ dq' = Interrupted(dq, owned[t])
  /\ \/ dq'.ib = 1 /\ SetOwned(t, InBarrier) /\ Goto(t, "drain")
     \/ /\ dq'.ib # 1 /\ SetOwned(t, Nothing)
        /\ Goto(t, IF dq'.enq # dq.enq THEN "enqueue" ELSE "idle")
  /\ UNCHANGED <<items, root, cur, batch, flags, signaled, history>>
-----------------------------------------------------------------------------
ClientStep(c) ==
  \/ async_f2(c) \/ acquire_async(c) \/ sync_f2(c) \/ reserve_sync(c) \/ barrier_sync(c)
  \/ queue_push(c) \/ sync_wait(c) \/ apply_reserve(c) \/ apply_relinquish(c)
  \/ queue_resume(c)

SharedStep(t) ==
  \/ redirect(t) \/ finish(t) \/ non_barrier_complete(t) \/ wakeup_probe(t) \/ class_wakeup(t)
  \/ wakeup_enqueue(t) \/ handoff(t) \/ handoff_pop(t) \/ transfer(t) \/ unlock_wakeup(t)
  \/ try_unlock(t, "release", "release_dirty") \/ clear_dirty(t, "release_dirty", "handoff")

WorkerStep(t) ==
  \/ root_pop(t) \/ drain_try_lock(t) \/ drain(t) \/ drain_width(t) \/ drain_pop(t)
  \/ reenqueue(t)
  \/ try_unlock(t, "unlock", "unlock_dirty") \/ clear_dirty(t, "unlock_dirty", "drain")

Call(c) == queue_suspend(c) \/ \E k \in uses \cap Kinds : dispatch_call(c, k)

Next == /\ \/ \E c \in Clients : Call(c) \/ ClientStep(c) \/ SharedStep(c)
           \/ \E t \in Workers : WorkerStep(t) \/ SharedStep(t)
        /\ UNCHANGED uses

Spec == Init /\ [][Next]_vars
-----------------------------------------------------------------------------
InCallout == {"run", "apply", "apply_run"}
Running == {cur[t] : t \in {u \in Threads : pc[u] \in InCallout}}

TypeOK ==
  /\ dq \in [sc : 0..Cardinality(Clients), ib : 0..1, w : 0..(2 * Width + Cardinality(Threads)),
             pb : 0..1, dirty : BOOLEAN, enq : BOOLEAN, owner : Threads \union {None}]
  /\ items \in Seq(Items)
  /\ \A j \in 1..Len(root) : root[j] = DQ \/ root[j] \in Items
  /\ \A t \in Threads : cur[t] \in Items \union {None}
  /\ signaled \subseteq Clients
  /\ outstanding \subseteq Items

Precedes(i, j) == i.by = j.by /\ i.n < j.n /\ (Exclusive(i) \/ Exclusive(j))
BarrierSync(i) == i.sync /\ i.barrier

(* dispatch/queue.h:56: queues invoke blocks "serially in FIFO order".  A barrier
   sync, and any dispatch_sync to a serial queue, may break it: its compare and
   swap succeeds between another thread's push and that thread's wakeup, when an
   earlier item of its own submitter is already in the list. *)
SubmissionOrder ==
  \A t \in Threads : pc[t] \in InCallout =>
    \A i \in outstanding : ~Precedes(i, cur[t])

\* Width that thread t, or the item it runs, has out of the state word.
Held(t) ==
  CASE pc[t] \in InCallout -> IF Exclusive(cur[t]) THEN Width ELSE 1 + owned[t].w
    [] pc[t] = "complete" -> 1
    [] pc[t] = "transfer" -> Width
    [] pc[t] = "redirect" -> 1 + owned[t].w
    [] pc[t] \in {"drain", "pop", "width"} /\ owned[t].ib = 1 -> Width
    [] OTHER -> owned[t].w - owned[t].pb * (Width - 1)
Granted(t) == IF t \notin signaled THEN 0 ELSE IF Exclusive(cur[t]) THEN Width ELSE 1
Taken(t) == Held(t) + Granted(t)
Redirected == {j \in 1..Len(root) : root[j] # DQ}

\* The width in the state word is what the threads, the redirected items and the
\* reservation of a pending barrier account for, at every step of every path.
\* The units of each thread are numbered, so that their set is their sum.
Units == {u \in Threads \X (1..(Width + 1)) : u[2] <= Taken(u[1])}
Reserved == IF dq.pb = 1 THEN Width - 1 ELSE 0
WidthAccounting ==
  /\ \A t \in Threads : Taken(t) \in 0..(Width + 1)
  /\ dq.w = Cardinality(Units) + Cardinality(Redirected) + Reserved

\* The queue is on the root queue exactly when ENQUEUED says so, and once.
EnqueuedOnce ==
  Cardinality({j \in 1..Len(root) : root[j] = DQ})
  + Cardinality({t \in Threads : pc[t] \in {"enqueue", "lock"}}) = (IF dq.enq THEN 1 ELSE 0)

\* Asynchronous readers respect the width of the queue, on their way to the root
\* queue, on it and in their callouts, however many dispatch_sync callers exceed it.
AsyncWithinWidth ==
  Cardinality(Redirected)
  + Cardinality({t \in Threads : \/ pc[t] = "redirect"
                                 \/ pc[t] = "run" /\ ~cur[t].sync /\ ~Exclusive(cur[t])})
    <= Width

(* dq_state, which every path changes by adding and subtracting parts of one word
   that it believes it owns, tells the truth: no field borrows from its neighbour,
   the width is what its holders took, asynchronous readers never take more than
   there is, and ENQUEUED is where the queue is. *)
StateWordTruthful == TypeOK /\ WidthAccounting /\ AsyncWithinWidth /\ EnqueuedOnce

\* Suspending and dispatch_apply change the state word in ways the unlock of a
\* drainer does not notice: the two promises below are for the other calls.
Plain == uses \cap {"suspend", "apply"} = {}
AtRest == /\ root = <<>>
          /\ \A t \in Threads : pc[t] = "idle" \/ (pc[t] = "wait" /\ t \notin signaled)

(* No lost wakeup and no deadlock: when the root queue is empty and every thread is
   back, or blocked in a dispatch_sync that was not signaled, nobody is blocked, the
   list is empty and the state word is idle again, so that the next barrier_sync
   takes its fast path. *)
NothingLeftBehind ==
  Plain /\ AtRest => items = <<>> /\ dq = Idle /\ \A t \in Threads : pc[t] = "idle"

(* The same for every client: queue_internal.h:257, "no need to wake up the queue,
   it's really empty for sure", and inline_internal.h:1196 on a drainer that stops
   at the width limit. *)
NeverStranded == AtRest => items = <<>>

(* The queue implements BarrierQueue: whatever the drainers, the lock transfers, the
   suspensions and the reservations do, an exclusive item runs alone and submitters
   keep their order; in particular (the comments at _dispatch_sync_f2 and
   _dispatch_async_f2, rdar 24738102) taking width does not overtake what the same
   thread submitted before. *)
Abs == INSTANCE BarrierQueue WITH count <- ops, running <- Running, Overtakes <- BarrierSync
AbsSpec == Abs!Spec
=============================================================================
