---------------------------- MODULE DispatchApply ----------------------------
(* One call of dispatch_apply_f (libdispatch_sourceCode/src/apply.c): the    *)
(* calling thread, worker 0, shares the iterations with the continuations it *)
(* pushes to the root queue, workers 1, 2, ..., which start late or never.   *)
(* The queue dq given by the caller is a position in a chain of target       *)
(* queues 1, 2, ..., Depth, Root; other work on these queues takes and gives *)
(* back their width at any time (dq_state, as a count of work in flight).    *)
EXTENDS ApplyWidth, FiniteSets

CONSTANTS MaxIterations, MaxWidth, MaxOther,    \* bounds
          Depth,                                \* queues above the root queue
          Nestings                              \* dtc_apply_nesting; 0 outside an apply

ASSUME ApplyAssumption ==
    /\ {MaxIterations, MaxWidth, MaxOther, Depth} \subseteq Nat
    /\ Nestings \subseteq Nat

Queues == 1..Depth
Root == Depth + 1
Helpers == 1 .. ActiveCpus - 1
Workers == {0} \cup Helpers

VARIABLES
    dq_width,    \* the width each queue was created with
    used,        \* the work in flight on each queue, of anyone
    other,       \* the part of it that is not of this call
    da,          \* the dispatch_apply_s: iterations, index, todo, thr_cnt
    da_event,    \* its thread event: 0, 1 signalled, -1 waited on
    frees,       \* how often da went to _dispatch_continuation_free
    dq,          \* the queue of the call
    func,        \* what dispatch_sync_f runs on dq, or "direct"
    rq, tq, da_width, excess,       \* locals of _dispatch_apply_redirect
    pc, idx, done,                  \* per worker
    ended                           \* the indices whose callout has returned

queues == <<dq_width, other>>
redirect == <<rq, tq, da_width, excess>>
call == <<dq, func>>
vars == <<queues, used, da, da_event, frees, call, redirect, pc, idx, done, ended>>

Goto(w, l) == pc' = [pc EXCEPT ![w] = l]

Init ==
    /\ dq_width \in [Queues -> 1..MaxWidth]
    /\ used = [q \in Queues |-> 0] /\ other = [q \in Queues |-> 0]
    /\ da = [iterations |-> 0, index |-> 0, todo |-> 0, thr_cnt |-> 0]
    /\ da_event = 0 /\ frees = 0
    /\ dq = Root /\ func = "direct"
    /\ rq = Root /\ tq = Root /\ da_width = 0 /\ excess = 0
    /\ pc = [w \in Workers |-> IF w = 0 THEN "idle" ELSE "none"]
    /\ idx = [w \in Workers |-> 0] /\ done = [w \in Workers |-> 0]
    /\ ended = {}

-----------------------------------------------------------------------------
\* Plausible bugs of the definitions below.
HasIndex_offbyone(i) == i <= da.iterations
LastTodo_early(todo) == todo <= 1
NeedsWake_never(v) == FALSE
Trim_forgets(n) == UNCHANGED da

-----------------------------------------------------------------------------
\* dq == old_dq: the caller is already running on a queue that is not the root.
Mode(q, current, thr_cnt) ==
    IF (q # Root /\ dq_width[q] = 1) \/ thr_cnt <= 1 \/ (q # Root /\ q = current)
    THEN "serial" ELSE IF q # Root THEN "redirect" ELSE "direct"

\* dispatch_sync_f onto a serial queue this thread is running on would deadlock.
\* iterations = 0 returns at once and is not modelled.
dispatch_apply_f(n, nested, q, current) ==
    /\ pc[0] = "idle"
    /\ q = current => \A p \in q..Depth : dq_width[p] > 1
    /\ LET thr_cnt == ThreadCount(nested, n)
           mode == Mode(q, current, thr_cnt)
       IN  /\ da' = [iterations |-> n, index |-> 0, todo |-> n, thr_cnt |-> thr_cnt]
           /\ func' = mode
           /\ Goto(0, IF mode = "direct" THEN "f2" ELSE "sync")
    /\ dq' = q /\ rq' = q
    /\ UNCHANGED <<queues, used, da_event, frees, tq, da_width, excess, idx, done, ended>>

\* dispatch_sync_f runs its function once it holds every queue from dq to the
\* root: a serial queue alone, a concurrent queue whatever its width.
SyncMayEnter(q) == dq_width[q] = 1 => used[q] = 0

sync_enter ==
    /\ pc[0] = "sync"
    /\ \/ /\ rq # Root /\ SyncMayEnter(rq)
          /\ used' = [used EXCEPT ![rq] = @ + 1]
          /\ rq' = rq + 1
          /\ UNCHANGED <<da_width, pc>>
       \/ /\ rq = Root
          /\ rq' = dq /\ da_width' = da.thr_cnt - 1
          /\ Goto(0, IF func = "serial" THEN "serial" ELSE "reserve")
          /\ used' = used
    /\ UNCHANGED <<queues, da, da_event, frees, call, tq, excess, idx, done, ended>>

\* The completions, from the last target queue back to dq.
sync_complete ==
    /\ pc[0] = "complete"
    /\ \/ /\ rq > dq
          /\ used' = [used EXCEPT ![rq - 1] = @ - 1]
          /\ rq' = rq - 1 /\ pc' = pc
       \/ /\ rq = dq /\ Goto(0, "returned") /\ UNCHANGED <<used, rq>>
    /\ UNCHANGED <<queues, da, da_event, frees, call, tq, da_width, excess, idx, done, ended>>

-----------------------------------------------------------------------------
\* _dispatch_apply_serial: the caller runs every iteration, then frees da.
apply_serial ==
    /\ pc[0] = "serial"
    /\ Goto(0, "serialCallout")
    /\ UNCHANGED <<queues, used, da, da_event, frees, call, redirect, idx, done, ended>>

serial_callout ==
    /\ pc[0] = "serialCallout"
    /\ ended' = ended \cup {idx[0]}
    /\ idx' = [idx EXCEPT ![0] = @ + 1]
    /\ IF idx[0] + 1 < da.iterations
       THEN Goto(0, "serial") /\ UNCHANGED <<frees, rq>>
       ELSE Goto(0, "complete") /\ frees' = frees + 1 /\ rq' = Root
    /\ UNCHANGED <<queues, used, da, da_event, call, tq, da_width, excess, done>>

-----------------------------------------------------------------------------
\* _dispatch_apply_redirect: width for the helpers is reserved on every queue
\* of the chain; where one has less, the excess is given back on those before.
available_width(q) == IF used[q] < dq_width[q] THEN dq_width[q] - used[q] ELSE 0

redirect_reserve ==
    /\ pc[0] = "reserve"
    /\ LET width == Min2(available_width(rq), da_width)
       IN  /\ used' = [used EXCEPT ![rq] = @ + width]
           /\ excess' = da_width - width
           /\ IF da_width > width
              THEN Goto(0, "excess") /\ tq' = dq
              ELSE Goto(0, "advance") /\ tq' = tq
    /\ UNCHANGED <<queues, da, da_event, frees, call, rq, da_width, idx, done, ended>>

\* da->da_thr_cnt -= excess
Trim(n) == da' = [da EXCEPT !.thr_cnt = @ - n]

\* for (tq = dq; tq != rq; tq = tq->do_targetq)
ExcessEnd(q) == q = rq

redirect_excess ==
    /\ pc[0] = "excess"
    /\ \/ /\ ~ExcessEnd(tq)
          /\ used' = [used EXCEPT ![tq] = @ - excess]
          /\ tq' = tq + 1
          /\ UNCHANGED <<da, da_width, pc>>
       \/ /\ ExcessEnd(tq)
          /\ da_width' = da_width - excess
          /\ IF da_width = excess
             THEN Goto(0, "serial") /\ da' = da
             ELSE Goto(0, "advance") /\ Trim(excess)
          /\ UNCHANGED <<used, tq>>
    /\ UNCHANGED <<queues, da_event, frees, call, rq, excess, idx, done, ended>>

redirect_advance ==
    /\ pc[0] = "advance"
    /\ rq' = rq + 1
    /\ Goto(0, IF rq + 1 = Root THEN "f2" ELSE "reserve")
    /\ UNCHANGED <<queues, used, da, da_event, frees, call, tq, da_width, excess, idx, done, ended>>

redirect_relinquish ==
    /\ pc[0] = "relinquish"
    /\ used' = [used EXCEPT ![rq] = @ - da_width]
    /\ rq' = rq + 1
    /\ Goto(0, IF rq + 1 = Root THEN "complete" ELSE "relinquish")
    /\ UNCHANGED <<queues, da, da_event, frees, call, tq, da_width, excess, idx, done, ended>>

-----------------------------------------------------------------------------
\* _dispatch_apply_f2: one continuation for each thread but this one.
apply_f2 ==
    /\ pc[0] = "f2"
    /\ da_event' = 0
    /\ pc' = [w \in Workers |-> IF w = 0 THEN "invoke"
                                ELSE IF w < da.thr_cnt THEN "queued" ELSE "none"]
    /\ UNCHANGED <<queues, used, da, frees, call, redirect, idx, done, ended>>

\* A thread of the pool pops the continuation.
helper_start(w) ==
    /\ pc[w] = "queued"
    /\ Goto(w, "invoke")
    /\ UNCHANGED <<queues, used, da, da_event, frees, call, redirect, idx, done, ended>>

\* The label `out' of _dispatch_apply_invoke2: only the caller waits.
AfterLoop(w) == IF w = 0 THEN "wait" ELSE "drop"

HasIndex(i) == i < da.iterations

TakeIndex(w, hit, miss) ==
    /\ idx' = [idx EXCEPT ![w] = da.index]
    /\ da' = [da EXCEPT !.index = @ + 1]
    /\ Goto(w, IF HasIndex(da.index) THEN hit ELSE miss)

invoke_first(w) ==
    /\ pc[w] = "invoke"
    /\ TakeIndex(w, "load", AfterLoop(w))
    /\ UNCHANGED <<queues, used, da_event, frees, call, redirect, done, ended>>

\* da_dc, on the stack of the caller, is read once an index is held.
invoke_load(w) ==
    /\ pc[w] = "load"
    /\ Goto(w, "callout")
    /\ UNCHANGED <<queues, used, da, da_event, frees, call, redirect, idx, done, ended>>

invoke_callout(w) ==
    /\ pc[w] = "callout"
    /\ ended' = ended \cup {idx[w]}
    /\ done' = [done EXCEPT ![w] = @ + 1]
    /\ Goto(w, "next")
    /\ UNCHANGED <<queues, used, da, da_event, frees, call, redirect, idx>>

invoke_next(w) ==
    /\ pc[w] = "next"
    /\ TakeIndex(w, "callout", "todo")
    /\ UNCHANGED <<queues, used, da_event, frees, call, redirect, done, ended>>

LastTodo(todo) == todo = 0

invoke_todo(w) ==
    /\ pc[w] = "todo"
    /\ da' = [da EXCEPT !.todo = @ - done[w]]
    /\ Goto(w, IF LastTodo(da.todo - done[w]) THEN "signal" ELSE AfterLoop(w))
    /\ UNCHANGED <<queues, used, da_event, frees, call, redirect, idx, done, ended>>

\* _dispatch_thread_event_signal: 0 -> 1 needs no wakeup.
NeedsWake(v) == v # 0

event_signal(w) ==
    /\ pc[w] = "signal"
    /\ da_event' = da_event + 1
    /\ Goto(w, IF NeedsWake(da_event) THEN "wake" ELSE AfterLoop(w))
    /\ UNCHANGED <<queues, used, da, frees, call, redirect, idx, done, ended>>

event_wake(w) ==
    /\ pc[w] = "wake"
    /\ pc' = [pc EXCEPT ![w] = AfterLoop(w),
                        ![0] = IF @ = "blocked" THEN "waitSlow" ELSE @]
    /\ UNCHANGED <<queues, used, da, da_event, frees, call, redirect, idx, done, ended>>

event_wait ==
    /\ pc[0] = "wait"
    /\ da_event' = da_event - 1
    /\ Goto(0, IF da_event = 1 THEN "drop" ELSE "waitSlow")
    /\ UNCHANGED <<queues, used, da, frees, call, redirect, idx, done, ended>>

event_waitSlow ==
    /\ pc[0] = "waitSlow"
    /\ Goto(0, IF da_event = 0 THEN "drop" ELSE IF da_event = -1 THEN "ulock" ELSE "corrupt")
    /\ UNCHANGED <<queues, used, da, da_event, frees, call, redirect, idx, done, ended>>

event_ulock ==
    /\ pc[0] = "ulock"
    /\ Goto(0, IF da_event = -1 THEN "blocked" ELSE "waitSlow")
    /\ UNCHANGED <<queues, used, da, da_event, frees, call, redirect, idx, done, ended>>

\* The thread that takes da_thr_cnt to zero frees da, the caller or a helper.
LastOne(n) == n = 0

invoke_drop(w) ==
    /\ pc[w] = "drop"
    /\ da' = [da EXCEPT !.thr_cnt = @ - 1]
    /\ frees' = IF LastOne(da.thr_cnt - 1) THEN frees + 1 ELSE frees
    /\ Goto(w, IF w # 0 THEN "gone" ELSE IF func = "redirect" THEN "relinquish" ELSE "returned")
    /\ rq' = IF w = 0 THEN dq ELSE rq
    /\ UNCHANGED <<queues, used, da_event, call, tq, da_width, excess, idx, done, ended>>

-----------------------------------------------------------------------------
\* Other work on a queue: barriers and serial queues run alone.
other_begin(q) ==
    /\ other[q] < MaxOther /\ SyncMayEnter(q)
    /\ other' = [other EXCEPT ![q] = @ + 1]
    /\ used' = [used EXCEPT ![q] = @ + 1]
    /\ UNCHANGED <<dq_width, da, da_event, frees, call, redirect, pc, idx, done, ended>>

other_end(q) ==
    /\ other[q] > 0
    /\ other' = [other EXCEPT ![q] = @ - 1]
    /\ used' = [used EXCEPT ![q] = @ - 1]
    /\ UNCHANGED <<dq_width, da, da_event, frees, call, redirect, pc, idx, done, ended>>

-----------------------------------------------------------------------------
CallerStep == \/ sync_enter \/ sync_complete \/ apply_serial \/ serial_callout
              \/ redirect_reserve \/ redirect_excess \/ redirect_advance
              \/ redirect_relinquish \/ apply_f2
              \/ event_wait \/ event_waitSlow \/ event_ulock

WorkerStep(w) == \/ invoke_first(w) \/ invoke_load(w) \/ invoke_callout(w)
                 \/ invoke_next(w) \/ invoke_todo(w) \/ event_signal(w)
                 \/ event_wake(w) \/ invoke_drop(w)

Next == \/ \E n \in 1..MaxIterations, m \in Nestings, q, p \in 1..Root :
             dispatch_apply_f(n, m, q, p)
        \/ CallerStep
        \/ \E w \in Workers : helper_start(w) \/ WorkerStep(w)
        \/ \E q \in Queues : other_begin(q) \/ other_end(q)

\* Threads that run are scheduled again and callouts return; nothing makes
\* the pool start a helper.
Spec == /\ Init /\ [][Next]_vars
        /\ WF_vars(CallerStep) /\ \A w \in Workers : WF_vars(WorkerStep(w))

-----------------------------------------------------------------------------
Labels == {"idle", "sync", "complete", "serial", "serialCallout", "reserve", "excess",
           "advance", "relinquish", "f2", "none", "queued", "invoke", "load", "callout",
           "next", "todo", "signal", "wake", "wait", "waitSlow", "ulock", "blocked",
           "drop", "gone", "returned"}

QueueTypes == /\ dq_width \in [Queues -> 1..MaxWidth]
              /\ used \in [Queues -> Nat] /\ other \in [Queues -> 0..MaxOther]
ApplyTypes == /\ da \in [iterations : 0..MaxIterations, index : Nat,
                         todo : 0..MaxIterations, thr_cnt : 0..ActiveCpus]
              /\ da_event \in -1..1 /\ frees \in 0..1
              /\ ended \subseteq 0 .. MaxIterations - 1
CallTypes == /\ dq \in 1..Root /\ func \in {"serial", "redirect", "direct"}
             /\ rq \in 1..Root /\ tq \in 1..Root
             /\ da_width \in 0 .. ActiveCpus - 1 /\ excess \in 0 .. ActiveCpus - 1
WorkerTypes == /\ pc \in [Workers -> Labels] /\ idx \in [Workers -> Nat]
               /\ done \in [Workers -> 0..MaxIterations]
TypeOK == QueueTypes /\ ApplyTypes /\ CallTypes /\ WorkerTypes

HasReturned == pc[0] \in {"relinquish", "complete", "returned"}

(* A worker that still reads or writes da finds it allocated, and one that    *)
(* reads the continuation on the caller's stack finds the caller waiting. A   *)
(* helper that starts after the call has returned touches da_index and        *)
(* da_thr_cnt only, and da is freed once, when the last of them is done. Its  *)
(* event is signalled once and is 0 when the caller destroys it.              *)
NoUseAfterFree ==
    /\ \A w \in Workers :
         /\ pc[w] \in {"queued", "invoke", "load", "callout", "next", "todo", "signal",
                       "wake", "wait", "waitSlow", "ulock", "blocked", "drop"} => frees = 0
         /\ pc[w] \in {"load", "callout"} => ~HasReturned
    /\ HasReturned /\ (\A w \in Helpers : pc[w] \in {"none", "gone"}) => frees = 1
    /\ pc[0] = "drop" \/ HasReturned => da_event = 0
    /\ TypeOK

InCallout == {w \in Workers : pc[w] \in {"callout", "serialCallout"}}

(* Width is held for the callouts and no longer: on every queue the call goes *)
(* through it holds at least as much as it has threads running the client's   *)
(* function, so a helper that runs late never runs on width that was given    *)
(* back; and whatever was reserved, trimmed and given back on the way, a call *)
(* that has returned holds none.                                              *)
WidthAccounting ==
    /\ \A q \in dq..Depth : Cardinality(InCallout) <= used[q] - other[q]
    /\ pc[0] = "returned" => used = other

(* The caller of dispatch_apply needs no helper to come up: once it holds its *)
(* queues it returns, even if the pool never starts a continuation.          *)
CallerReturns == pc[0] \notin {"idle", "sync"} ~> pc[0] = "returned"

\* What makes these inductive. While the caller and its helpers share the
\* iterations, da_thr_cnt counts them, an index is in one hand or has ended, the
\* todo count is what has not ended or has not been subtracted yet, and the event
\* is signalled by whoever brings it to zero.
Sharing == {"invoke", "load", "callout", "next", "todo", "signal", "wake", "wait",
            "waitSlow", "ulock", "blocked", "drop"}
Waiting == {"waitSlow", "ulock", "blocked"}
Serially == func = "serial" \/ (func = "redirect" /\ da_width = 0)
Shared == pc[0] \in Sharing \/ (HasReturned /\ ~Serially)
Sharers == {w \in Workers : pc[w] \in Sharing \cup {"queued"}}
Holders == {w \in Workers : pc[w] \in {"load", "callout"}}
Unposted == {p \in Workers \X (1..MaxIterations) :
               pc[p[1]] \in {"load", "callout", "next", "todo"} /\ p[2] <= done[p[1]]}
Signalled == da.todo = 0 /\ \A w \in Workers : pc[w] # "signal"

\* The caller before it shares, and the way through the queues.
Route ==
    /\ dq <= rq /\ (pc[0] \in {"reserve", "excess", "advance", "relinquish"} => rq <= Depth)
    /\ pc[0] \in {"reserve", "excess", "advance", "f2", "relinquish"} /\ func = "redirect" =>
         da_width > 0
    /\ pc[0] \in {"reserve", "excess", "advance", "f2"} /\ func = "redirect" =>
         da.thr_cnt = da_width + 1
    /\ pc[0] = "sync" /\ func = "redirect" => da.thr_cnt > 1
    /\ pc[0] \in {"reserve", "excess", "advance", "relinquish"} => func = "redirect"
    /\ pc[0] = "excess" => tq \in dq..rq /\ excess \in 1..da_width
    /\ func = "direct" => dq = Root
    /\ func = "redirect" => dq # Root
    /\ func = "redirect" /\ pc[0] \in {"serial", "serialCallout"} => da_width = 0
    /\ pc[0] \in Sharing \cup {"f2", "relinquish"} => ~Serially
    /\ pc[0] \in {"sync", "serial", "serialCallout", "complete"} => func # "direct"
    /\ pc[0] \in {"idle", "f2"} \cup Sharing => func # "serial"
    /\ pc[0] = "idle" => func = "direct"

\* Width this call holds on a queue: for itself, and for its helpers.
ForItself(q) == IF q >= dq /\ pc[0] # "returned" /\ (pc[0] \in {"sync", "complete"} => q < rq)
                THEN 1 ELSE 0
ForHelpers(q) ==
    IF q < dq THEN 0
    ELSE IF pc[0] = "reserve" THEN IF q < rq THEN da_width ELSE 0
    ELSE IF pc[0] = "excess" THEN IF q > rq THEN 0
                                  ELSE IF q < tq \/ q = rq THEN da_width - excess ELSE da_width
    ELSE IF pc[0] = "advance" THEN IF q <= rq THEN da_width ELSE 0
    ELSE IF pc[0] = "relinquish" THEN IF q >= rq THEN da_width ELSE 0
    ELSE IF pc[0] \in Sharing \cup {"f2"} THEN da_width ELSE 0
Width == \A q \in Queues : used[q] = other[q] + ForItself(q) + ForHelpers(q)

\* The caller alone: nothing is shared yet, or ever.
Alone ==
    /\ \A w \in Helpers : pc[w] = "none"
    /\ \A w \in Workers : done[w] = 0
    /\ da.index = 0 /\ da_event = 0
    /\ pc[0] \notin {"idle"} => da.todo = da.iterations /\ da.iterations > 0 /\ da.thr_cnt > 0
    /\ frees = IF HasReturned THEN 1 ELSE 0
    /\ \A w \in Helpers : idx[w] = 0
    /\ IF HasReturned THEN ended = 0 .. da.iterations - 1
       ELSE /\ ended = 0 .. idx[0] - 1
            /\ pc[0] \in {"serial", "serialCallout"} => idx[0] < da.iterations
            /\ pc[0] \notin {"serial", "serialCallout"} => idx[0] = 0

Sharings ==
    /\ \A w \in Helpers : pc[w] \in (Sharing \ ({"wait"} \cup Waiting)) \cup {"none", "queued", "gone"}
    /\ pc[0] # "wake"
    /\ func = "redirect" => \A w \in Workers : pc[w] # "none" => w <= da_width
    /\ da.thr_cnt = Cardinality(Sharers)
    /\ frees = IF da.thr_cnt = 0 THEN 1 ELSE 0

Indices ==
    /\ ended = {i \in 0 .. da.iterations - 1 : i < da.index} \ {idx[w] : w \in Holders}
    /\ \A w \in Holders : idx[w] < da.index /\ idx[w] < da.iterations
    /\ \A w, x \in Holders : idx[w] = idx[x] => w = x
    /\ \A w \in Workers : pc[w] \in {"none", "queued", "invoke", "load"} => done[w] = 0
    /\ \A w \in Workers : pc[w] \in {"next", "todo"} => done[w] > 0
    /\ \A w \in Workers : pc[w] = "todo" => da.index >= da.iterations
    /\ da.todo = da.iterations - Cardinality(ended) + Cardinality(Unposted)

Event ==
    /\ da_event = (IF Signalled THEN 1 ELSE 0)
                    - (IF pc[0] \in Waiting \cup {"drop"} \/ HasReturned THEN 1 ELSE 0)
    /\ pc[0] = "drop" \/ HasReturned => Signalled
    /\ \A w \in Workers : pc[w] \in {"signal", "wake"} => da.todo = 0
    /\ \A w \in Workers : pc[w] = "wake" => Signalled
    /\ \A w, x \in Workers : pc[w] = "signal" /\ pc[x] = "signal" => w = x

ApplyInv ==
    /\ TypeOK /\ pc[0] \notin {"none", "queued", "gone"} /\ Route /\ Width
    /\ ~Shared => Alone
    /\ Shared => Sharings /\ Indices /\ Event

(* The call is the loop it stands for: indices are handed out in order and    *)
(* once each, to any worker, and it returns when all invocations have ended. *)
Abs == INSTANCE ParallelLoop WITH
         iterations <- da.iterations,
         started <- Cardinality(ended)
                      + Cardinality({w \in Workers : pc[w] = "load"} \cup InCallout),
         state <- IF pc[0] = "idle" THEN "idle"
                  ELSE IF pc[0] = "returned" THEN "returned" ELSE "looping"
AbsSpec == Abs!Spec
=============================================================================
