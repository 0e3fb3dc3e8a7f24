------------------------ MODULE DispatchQueueProofs ------------------------
(* Theorems on DispatchQueue, for every width, every set of clients and of   *)
(* root queue threads, and all the calls they may make.                      *)
EXTENDS DispatchQueue, Counting, SequenceTheorems, TLAPS

-----------------------------------------------------------------------------
(* The inductive invariant *)

Draining == {"drain", "width", "pop"}
Leaving == {"reenqueue", "unlock", "unlock_dirty"}
Handing == {"handoff", "handoff_pop", "transfer", "unlock_wakeup", "release",
            "release_dirty"}
Waiting == {"probe", "wakeup", "enqueue", "wait"}
Asking == {"async_f2", "acquire_async", "sync_f2", "reserve_sync", "barrier_sync", "push"}

\* What an item is: a sync item of a serial queue is a barrier, and a
\* dispatch_apply that takes width is none.
ItemOK(i) == /\ i \in Items /\ i.by \in Clients
             /\ i.sync \in BOOLEAN /\ i.barrier \in BOOLEAN /\ i.apply \in BOOLEAN
             /\ i.sync /\ Exclusive(i) => i.barrier
             /\ i.apply => i.sync /\ ~Exclusive(i)
Reader(i) == ItemOK(i) /\ ~Exclusive(i)

\* The item in a thread's hands, and where a thread may be.
ClientAt(c) ==
  /\ pc[c] \in {"idle", "redirect", "complete", "suspended"} \union Asking \union InCallout
               \union Waiting \union Handing
  /\ cur[c] # None => ItemOK(cur[c]) /\ cur[c].by = c
  /\ pc[c] \in Asking \union InCallout \union {"redirect", "complete", "wait"} => cur[c] # None
  /\ pc[c] \in {"async_f2", "acquire_async", "redirect"} => ~cur[c].sync /\ ~Exclusive(cur[c])
  /\ pc[c] \in {"sync_f2", "reserve_sync", "complete"} => cur[c].sync /\ ~Exclusive(cur[c])
  /\ pc[c] = "barrier_sync" => cur[c].sync /\ Exclusive(cur[c])
  /\ pc[c] \in InCallout \union {"wait"} => cur[c].sync
  /\ pc[c] \in {"apply", "apply_run"} => cur[c].apply
  /\ pc[c] \in Asking \union InCallout \union {"wait"} /\ cur[c].sync => cur[c] \in outstanding
WorkerAt(t) ==
  /\ pc[t] \in {"idle", "lock", "redirect", "run", "complete", "probe", "wakeup", "enqueue"}
               \union Draining \union Leaving \union Handing
  /\ cur[t] # None => ItemOK(cur[t]) /\ ~cur[t].sync
  /\ pc[t] \in {"redirect", "run", "complete"} => cur[t] # None
  /\ pc[t] \in {"redirect", "complete"} => ~Exclusive(cur[t])
ThreadsAt == (\A c \in Clients : ClientAt(c)) /\ (\A t \in Workers : WorkerAt(t))
RootAt == /\ root \in Seq(Items \union {DQ})
          /\ \A j \in 1..Len(root) : root[j] # DQ => Reader(root[j]) /\ ~root[j].sync
At == ThreadsAt /\ RootAt

\* The width a thread owns at each label.
KeptWidth(o) == IF o.pb = 0 THEN o.w ELSE o.w + (Width - 1)
OwnsWidth(t) ==
  /\ owned[t] \in [ib : 0..1, w : Int, pb : -1..0]
  /\ pc[t] \in Handing \ {"transfer", "unlock_wakeup"} => owned[t] = BarrierWidth
  /\ pc[t] = "unlock_wakeup" => owned[t].ib = 1 /\ KeptWidth(owned[t]) = Width
  /\ pc[t] = "transfer" =>
       IF Exclusive(batch[t][1]) THEN owned[t] = Nothing /\ Len(batch[t]) = 1
       ELSE /\ owned[t] = [BarrierWidth EXCEPT !.w = @ - Len(batch[t])]
            /\ \A j \in 1..Len(batch[t]) : ~Exclusive(batch[t][j])
  /\ pc[t] \in Draining /\ owned[t] # InBarrier =>
       Width > 1 /\ owned[t].ib = 0 /\ owned[t].w \in 0..Width
  /\ pc[t] \in Leaving =>
       IF owned[t].ib = 1 THEN KeptWidth(owned[t]) = Width
       ELSE Width > 1 /\ KeptWidth(owned[t]) \in 0..Width
  /\ pc[t] = "redirect" => owned[t].w >= 0 /\ owned[t].w < Width /\ owned[t].ib = 0
  /\ pc[t] = "apply_run" => owned[t].w \in 0..Width /\ owned[t].ib = 0
  /\ owned[t].pb # 0 => pc[t] \in {"reenqueue", "unlock_wakeup"} /\ Width > 1
  /\ pc[t] \in {"idle", "complete", "suspended", "lock", "apply"} \union Asking \union Waiting
       => owned[t] = Nothing
  /\ pc[t] = "redirect" /\ t \in Clients => owned[t] = Nothing
  /\ pc[t] = "run" => owned[t] = IF t \in Workers /\ Exclusive(cur[t]) THEN InBarrier ELSE Nothing
\* What a drainer has seen of the list stays so, because only it pops.
SeesHead(t) ==
  /\ pc[t] \in {"width", "pop", "handoff_pop"} => items # <<>>
  /\ pc[t] = "width" => ~Exclusive(Head(items))
  /\ pc[t] = "pop" => IF Exclusive(Head(items)) THEN owned[t] = InBarrier
                      ELSE owned[t].ib = 0 /\ owned[t].w > 0
  /\ pc[t] = "handoff_pop" => Head(items).sync
Owns == \A t \in Threads : OwnsWidth(t) /\ SeesHead(t)

\* The drain lock: who has it, and who of these has the barrier bit too.
HasLock(t) == \/ pc[t] \in Draining \union Leaving \union Handing
              \/ t \in Workers /\ pc[t] = "redirect"
              \/ pc[t] \in InCallout /\ Exclusive(cur[t])
              \/ t \in signaled /\ Exclusive(cur[t])
Whole(t) == pc[t] \in Draining \union Leaving => owned[t].ib = 1
DrainLock ==
  /\ \A t \in Threads : HasLock(t) <=> dq.owner = t
  /\ \A t \in Threads : HasLock(t) => dq.pb = 0 /\ (dq.ib = 1 <=> Whole(t) /\ pc[t] # "redirect")
  /\ dq.owner = None => dq.ib = 0
  /\ dq.ib = 1 => dq.w = Width

\* A slow item is in one place, and its thread is waiting for it.
Placed(i) == /\ cur[i.by] = i /\ i \in outstanding /\ i.by \notin signaled
             /\ pc[i.by] \in Waiting \union Handing
Lists ==
  /\ items \in Seq(Items)
  /\ \A j \in 1..Len(items) : items[j].sync => Placed(items[j])
  /\ \A j, k \in 1..Len(items) : items[j].sync /\ items[j] = items[k] => j = k
Batches ==
  \A t \in Threads :
    /\ batch[t] \in Seq(Items)
    /\ batch[t] # <<>> <=> pc[t] = "transfer"
    /\ \A j \in 1..Len(batch[t]) :
         /\ batch[t][j].sync /\ Placed(batch[t][j])
         /\ \A k \in 1..Len(items) : items[k] # batch[t][j]
         /\ \A k \in 1..Len(batch[t]) : batch[t][j] = batch[t][k] => j = k
Events ==
  /\ signaled \subseteq Clients
  /\ \A c \in signaled : /\ cur[c] \in outstanding /\ cur[c] # None /\ cur[c].sync
                         /\ pc[c] \in Waiting

\* Asynchronous readers, and the drainer that will make some, stay within the
\* width; what exceeds it are the readers of dispatch_sync, one each.
PopsSyncReader(t) == pc[t] = "pop" /\ Head(items).sync /\ ~Exclusive(Head(items))
AsyncTaken(t) ==
  CASE t \in Workers /\ PopsSyncReader(t) -> Held(t) - 1
    [] /\ t \in Workers /\ ~PopsSyncReader(t)
       /\ pc[t] \in Draining \union Leaving \union {"run", "redirect"} -> Held(t)
    [] t \in Clients /\ pc[t] = "redirect" -> 1
    [] OTHER -> 0
AsyncUnits == {u \in Threads \X (1..(Width + 1)) : u[2] <= AsyncTaken(u[1])}
AsyncRoom == Cardinality(AsyncUnits) + Cardinality(Redirected) <= Width

SyncReader(t) == \/ t \in signaled
                 \/ t \in Clients /\ pc[t] \in InCallout \union {"complete"}
                 \/ PopsSyncReader(t)
SyncReaders == {t \in Threads : SyncReader(t)}
SyncExcess == dq.w <= Width + Reserved + Cardinality(SyncReaders)

States == [sc : Int, ib : Int, w : Int, pb : Int, dirty : BOOLEAN, enq : BOOLEAN,
           owner : Threads \union {None}]
Word == /\ dq \in States /\ dq.ib \in 0..1 /\ dq.pb \in 0..1
        /\ DOMAIN pc = Threads /\ DOMAIN cur = Threads /\ DOMAIN owned = Threads
        /\ DOMAIN batch = Threads /\ DOMAIN flags = Threads
        /\ uses \in Programs /\ ops \in [Clients -> Nat]
        /\ outstanding \subseteq Items
Suspensions == dq.sc = Cardinality({c \in Clients : pc[c] = "suspended"})

QueueInv == /\ Word /\ Suspensions /\ At /\ Owns /\ DrainLock /\ Lists /\ Batches /\ Events
            /\ WidthAccounting /\ EnqueuedOnce /\ AsyncRoom /\ SyncExcess

-----------------------------------------------------------------------------
\* One call or one step of a thread, as in Next.
Moves(t) == /\ \/ t \in Clients /\ (Call(t) \/ ClientStep(t) \/ SharedStep(t))
               \/ t \in Workers /\ (WorkerStep(t) \/ SharedStep(t))
            /\ UNCHANGED uses

(* The steps of a thread.                                                    *)
LEMMA Steps ==
  ASSUME NEW t, Moves(t)
  PROVE  /\ t \in Threads
         /\ \/ t \in Clients /\ \E k \in uses \cap Kinds : dispatch_call(t, k)
            \/ t \in Clients /\ async_f2(t)
            \/ t \in Clients /\ acquire_async(t)
            \/ t \in Clients /\ sync_f2(t)
            \/ t \in Clients /\ reserve_sync(t)
            \/ t \in Clients /\ barrier_sync(t)
            \/ t \in Clients /\ queue_push(t)
            \/ t \in Clients /\ sync_wait(t)
            \/ t \in Clients /\ apply_reserve(t)
            \/ t \in Clients /\ apply_relinquish(t)
            \/ t \in Clients /\ queue_suspend(t)
            \/ t \in Clients /\ queue_resume(t)
            \/ redirect(t) \/ finish(t) \/ non_barrier_complete(t)
            \/ wakeup_probe(t) \/ class_wakeup(t) \/ wakeup_enqueue(t)
            \/ handoff(t) \/ handoff_pop(t) \/ transfer(t) \/ unlock_wakeup(t)
            \/ try_unlock(t, "release", "release_dirty")
            \/ clear_dirty(t, "release_dirty", "handoff")
            \/ t \in Workers /\ root_pop(t)
            \/ t \in Workers /\ drain_try_lock(t)
            \/ t \in Workers /\ drain(t)
            \/ t \in Workers /\ drain_width(t)
            \/ t \in Workers /\ drain_pop(t)
            \/ t \in Workers /\ reenqueue(t)
            \/ t \in Workers /\ try_unlock(t, "unlock", "unlock_dirty")
            \/ t \in Workers /\ clear_dirty(t, "unlock_dirty", "drain")
  BY SMTT(60) DEF Moves, Call, ClientStep, SharedStep, WorkerStep, Threads

(* What the items a client can submit look like.                             *)
LEMMA ItemFacts == \A i \in Items : ItemOK(i)
<1> SUFFICES ASSUME NEW i \in Items PROVE ItemOK(i)
  OBVIOUS
<1>1. PICK c \in Clients, n \in 1..MaxOps, k \in Kinds : i = Item(c, n, k)
  BY DEF Items
<1> DEFINE b == \/ k \in {"barrier_async", "barrier_sync"}
                \/ Width = 1 /\ k \in {"sync", "apply"}
           a == k = "apply" /\ Width > 1
           s == k \in {"sync", "barrier_sync", "apply"}
<1>2. i.by = c /\ i.sync = s /\ i.barrier = b /\ i.apply = a
  BY <1>1 DEF Item
<1>3. s \in BOOLEAN /\ b \in BOOLEAN /\ a \in BOOLEAN
  OBVIOUS
<1>4. (s /\ (Width = 1 \/ b) => b) /\ (a => s /\ ~(Width = 1 \/ b))
  BY WidthAssumption
<1> HIDE DEF a, b, s
<1> QED
  BY <1>2, <1>3, <1>4 DEF ItemOK, Exclusive

(* The threads are finitely many, which is what makes counting them possible. *)
LEMMA ThreadsFinite == IsFiniteSet(Threads)
<1>1. IsFiniteSet(Clients) /\ IsFiniteSet(Workers)
  BY NamesAssumption
<1>2. IsFiniteSet(Clients \union Workers)
  BY <1>1, FS_Union
<1> QED BY <1>2 DEF Threads

(* What a call submits.                                                      *)
LEMMA NewItem ==
  ASSUME NEW c \in Clients, ops \in [Clients -> Nat], ops[c] < MaxOps, uses \in Programs,
         NEW k \in uses \cap Kinds
  PROVE  LET i == Item(c, ops[c] + 1, k)
         IN  i \in Items /\ ItemOK(i) /\ i.by = c /\ i # None
<1> DEFINE n == ops[c] + 1
<1>1. n \in 1..MaxOps
  BY WidthAssumption
<1> HIDE DEF n
<1>2. Item(c, n, k) \in Items
  BY <1>1 DEF Items
<1>3. Item(c, n, k).by = c
  BY DEF Item
<1> QED
  BY <1>2, <1>3, ItemFacts, NamesAssumption DEF n

(* The root queue at its two ends.                                           *)
LEMMA Ends ==
  ASSUME NEW S, NEW s \in Seq(S)
  PROVE  /\ \A e : /\ Len(Append(s, e)) = Len(s) + 1
                   /\ Append(s, e)[Len(s) + 1] = e
                   /\ \A j \in 1..Len(s) : Append(s, e)[j] = s[j]
         /\ s # <<>> => /\ Head(s) = s[1] /\ Head(s) \in S /\ 1 \in 1..Len(s)
                        /\ Tail(s) \in Seq(S) /\ Len(Tail(s)) = Len(s) - 1
                        /\ \A j \in 1..Len(Tail(s)) : Tail(s)[j] = s[j + 1] /\ j + 1 \in 1..Len(s)
         /\ \A e \in S : Append(s, e) \in Seq(S)
         /\ Len(s) \in Nat
         /\ s = <<>> <=> Len(s) = 0
         /\ \A j \in 1..Len(s) : s[j] \in S
OBVIOUS

(* The root queue holds the queue and asynchronous readers only.             *)
LEMMA RootAtStep ==
  ASSUME QueueInv, NEW t \in Threads, Moves(t)
  PROVE  RootAt'
<1> USE WidthAssumption, NamesAssumption
    DEF Goto, SetItem, SetOwned, SetFlags, local, history, QueueInv, Word, At, RootAt
<1>1. ASSUME t \in Clients, NEW k \in uses \cap Kinds, dispatch_call(t, k)
      PROVE  RootAt'
  BY <1>1 DEF dispatch_call
<1>2. CASE t \in Clients /\ async_f2(t)
  BY <1>2 DEF async_f2
<1>3. CASE t \in Clients /\ acquire_async(t)
  BY <1>3 DEF acquire_async
<1>4. CASE t \in Clients /\ sync_f2(t)
  BY <1>4 DEF sync_f2
<1>5. CASE t \in Clients /\ reserve_sync(t)
  BY <1>5 DEF reserve_sync
<1>6. CASE t \in Clients /\ barrier_sync(t)
  BY <1>6 DEF barrier_sync
<1>7. CASE t \in Clients /\ queue_push(t)
  BY <1>7 DEF queue_push
<1>8. CASE t \in Clients /\ sync_wait(t)
  BY <1>8 DEF sync_wait
<1>9. CASE t \in Clients /\ apply_reserve(t)
  BY <1>9 DEF apply_reserve
<1>10. CASE t \in Clients /\ apply_relinquish(t)
  BY <1>10 DEF apply_relinquish
<1>11. CASE t \in Clients /\ queue_suspend(t)
  BY <1>11 DEF queue_suspend
<1>12. CASE t \in Clients /\ queue_resume(t)
  BY <1>12 DEF queue_resume
<1>13. CASE redirect(t)
  <2>1. Reader(cur[t]) /\ ~cur[t].sync
    BY <1>13 DEF redirect, ThreadsAt, ClientAt, WorkerAt, Reader, Threads
  <2>2. cur[t] \in Items /\ root' = Append(root, cur[t])
    BY <1>13, <2>1 DEF redirect, Reader, ItemOK
  <2> HIDE DEF QueueInv
  <2>3. RootAt
    BY DEF QueueInv
  <2> QED BY <2>1, <2>2, <2>3, Ends
<1>14. CASE finish(t)
  BY <1>14 DEF finish
<1>15. CASE non_barrier_complete(t)
  BY <1>15 DEF non_barrier_complete
<1>16. CASE wakeup_probe(t)
  BY <1>16 DEF wakeup_probe
<1>17. CASE class_wakeup(t)
  BY <1>17 DEF class_wakeup
<1>18. CASE wakeup_enqueue(t)
  <2>1. RootAt /\ root' = Append(root, DQ)
    BY <1>18 DEF wakeup_enqueue
  <2> HIDE DEF QueueInv
  <2> QED BY <2>1, Ends
<1>19. CASE handoff(t)
  BY <1>19 DEF handoff
<1>20. CASE handoff_pop(t)
  BY <1>20 DEF handoff_pop
<1>21. CASE transfer(t)
  BY <1>21 DEF transfer
<1>22. CASE unlock_wakeup(t)
  BY <1>22 DEF unlock_wakeup
<1>23. CASE try_unlock(t, "release", "release_dirty")
  BY <1>23 DEF try_unlock
<1>24. CASE clear_dirty(t, "release_dirty", "handoff")
  BY <1>24 DEF clear_dirty
<1>25. CASE t \in Workers /\ root_pop(t)
  <2>1. RootAt /\ root # <<>> /\ root' = Tail(root)
    BY <1>25 DEF root_pop
  <2> HIDE DEF QueueInv
  <2> QED BY <2>1, Ends
<1>26. CASE t \in Workers /\ drain_try_lock(t)
  BY <1>26 DEF drain_try_lock
<1>27. CASE t \in Workers /\ drain(t)
  BY <1>27 DEF drain
<1>28. CASE t \in Workers /\ drain_width(t)
  BY <1>28 DEF drain_width
<1>29. CASE t \in Workers /\ drain_pop(t)
  BY <1>29 DEF drain_pop
<1>30. CASE t \in Workers /\ reenqueue(t)
  BY <1>30 DEF reenqueue
<1>31. CASE t \in Workers /\ try_unlock(t, "unlock", "unlock_dirty")
  BY <1>31 DEF try_unlock
<1>32. CASE t \in Workers /\ clear_dirty(t, "unlock_dirty", "drain")
  BY SMTT(60), <1>32 DEF clear_dirty
<1> HIDE DEF Goto, SetItem, SetOwned, SetFlags, local, history, QueueInv, Word, At, RootAt
<1> QED
  BY Steps, <1>1, <1>2, <1>3, <1>4, <1>5, <1>6, <1>7, <1>8, <1>9, <1>10, <1>11, <1>12, <1>13, <1>14,
     <1>15, <1>16, <1>17, <1>18, <1>19, <1>20, <1>21, <1>22, <1>23, <1>24, <1>25, <1>26, <1>27,
     <1>28, <1>29, <1>30, <1>31, <1>32

(* Every thread stays where it may be, with the item that belongs there.     *)
LEMMA ThreadsAtStep ==
  ASSUME QueueInv, NEW t \in Threads, Moves(t)
  PROVE  ThreadsAt'
<1> USE WidthAssumption, NamesAssumption
    DEF Goto, SetItem, SetOwned, SetFlags, local, history, QueueInv, Word, At, ThreadsAt,
        ClientAt, WorkerAt, Asking, Waiting, Handing, Draining, Leaving, InCallout, Threads
<1>1. ASSUME t \in Clients, NEW k \in uses \cap Kinds, dispatch_call(t, k)
      PROVE  ThreadsAt'
  <2> DEFINE i == Item(t, ops[t] + 1, k)
  <2>1. i \in Items /\ ItemOK(i) /\ i.by = t /\ i # None
    <3>1. ops[t] < MaxOps
      BY <1>1 DEF dispatch_call
    <3>2. ops \in [Clients -> Nat] /\ uses \in Programs
      OBVIOUS
    <3> HIDE DEF QueueInv
    <3> QED BY <1>1, <3>1, <3>2, NewItem
  <2>2. /\ pc' = [pc EXCEPT ![t] = FirstStep(i)] /\ cur' = [cur EXCEPT ![t] = i]
        /\ outstanding' = outstanding \union {i}
    BY <1>1 DEF dispatch_call
  <2> HIDE DEF i
  <2>3. \/ FirstStep(i) = "barrier_sync" /\ i.sync /\ Exclusive(i)
        \/ FirstStep(i) = "sync_f2" /\ i.sync /\ ~Exclusive(i)
        \/ FirstStep(i) = "push" /\ ~i.sync
        \/ FirstStep(i) = "async_f2" /\ ~i.sync /\ ~Exclusive(i)
    BY <2>1 DEF FirstStep, ItemOK, Exclusive
  <2> QED
    BY <1>1, <2>1, <2>2, <2>3
<1>2. CASE t \in Clients /\ async_f2(t)
  BY <1>2 DEF async_f2, Return
<1>3. CASE t \in Clients /\ acquire_async(t)
  BY <1>3 DEF acquire_async, Return
<1>4. CASE t \in Clients /\ sync_f2(t)
  BY <1>4 DEF sync_f2, Return
<1>5. CASE t \in Clients /\ reserve_sync(t)
  BY <1>5 DEF reserve_sync, RunLabel
<1>6. CASE t \in Clients /\ barrier_sync(t)
  BY <1>6 DEF barrier_sync, RunLabel
<1>7. CASE t \in Clients /\ queue_push(t)
  BY <1>7 DEF queue_push, Return
<1>8. CASE t \in Clients /\ sync_wait(t)
  BY <1>8 DEF sync_wait, RunLabel
<1>9. CASE t \in Clients /\ apply_reserve(t)
  BY <1>9 DEF apply_reserve, Return
<1>10. CASE t \in Clients /\ apply_relinquish(t)
  BY <1>10 DEF apply_relinquish, Return
<1>11. CASE t \in Clients /\ queue_suspend(t)
  BY <1>11 DEF queue_suspend, Return
<1>12. CASE t \in Clients /\ queue_resume(t)
  BY <1>12 DEF queue_resume, Return
<1>13. CASE redirect(t)
  BY <1>13 DEF redirect, Return
<1>14. CASE finish(t)
  BY <1>14 DEF finish, Return
<1>15. CASE non_barrier_complete(t)
  BY <1>15 DEF non_barrier_complete, Return
<1>16. CASE wakeup_probe(t)
  BY <1>16 DEF wakeup_probe, Return
<1>17. CASE class_wakeup(t)
  BY <1>17 DEF class_wakeup, Return
<1>18. CASE wakeup_enqueue(t)
  BY <1>18 DEF wakeup_enqueue, Return
<1>19. CASE handoff(t)
  BY <1>19 DEF handoff, Return
<1>20. CASE handoff_pop(t)
  BY <1>20 DEF handoff_pop, Return
<1>21. CASE transfer(t)
  BY <1>21 DEF transfer, Return
<1>22. CASE unlock_wakeup(t)
  BY <1>22 DEF unlock_wakeup, Return
<1>23. CASE try_unlock(t, "release", "release_dirty")
  BY <1>23 DEF try_unlock, Return
<1>24. CASE clear_dirty(t, "release_dirty", "handoff")
  BY <1>24 DEF clear_dirty, Return
<1>25. CASE t \in Workers /\ root_pop(t)
  <2>1. Head(root) # DQ => Reader(Head(root)) /\ ~Head(root).sync /\ Head(root) # None
    <3>1. RootAt /\ root # <<>>
      BY <1>25 DEF root_pop
    <3> HIDE DEF QueueInv
    <3>2. Head(root) = root[1] /\ 1 \in 1..Len(root) /\ Head(root) \in Items \union {DQ}
      BY <3>1, Ends DEF RootAt
    <3> QED BY <3>1, <3>2 DEF RootAt
  <2> QED BY <1>25, <2>1 DEF root_pop, Reader
<1>26. CASE t \in Workers /\ drain_try_lock(t)
  BY <1>26 DEF drain_try_lock, Return
<1>27. CASE t \in Workers /\ drain(t)
  BY <1>27 DEF drain, DrainOut
<1>28. CASE t \in Workers /\ drain_width(t)
  BY <1>28 DEF drain_width, Return
<1>29. CASE t \in Workers /\ drain_pop(t)
  <2>1. ItemOK(Head(items)) /\ Head(items) # None
    <3>1. items # <<>> /\ items \in Seq(Items)
      BY <1>29 DEF drain_pop, Owns, SeesHead, Lists
    <3>2. Head(items) \in Items
      <4> HIDE DEF QueueInv
      <4> QED BY <3>1, Ends
    <3> QED BY <3>2, ItemFacts
  <2>2. /\ t \in Workers /\ UNCHANGED outstanding
        /\ \A u \in Threads \ {t} : pc'[u] = pc[u] /\ cur'[u] = cur[u]
        /\ \/ pc'[t] \in {"transfer", "drain"} /\ cur'[t] = cur[t]
           \/ pc'[t] = "run" /\ cur'[t] = Head(items) /\ ~Head(items).sync
           \/ /\ pc'[t] = "redirect" /\ cur'[t] = Head(items) /\ ~Head(items).sync
              /\ ~Exclusive(Head(items))
    BY <1>29 DEF drain_pop
  <2>3. ASSUME NEW c \in Clients PROVE ClientAt(c)'
    <3>1. c \in Threads \ {t}
      BY <1>29
    <3>2. pc'[c] = pc[c] /\ cur'[c] = cur[c] /\ outstanding' = outstanding
      BY <2>2, <3>1
    <3> QED BY <3>2
  <2>4. ASSUME NEW u \in Workers PROVE WorkerAt(u)'
    BY <2>1, <2>2, <2>4
  <2> QED BY <2>3, <2>4
<1>30. CASE t \in Workers /\ reenqueue(t)
  BY <1>30 DEF reenqueue, Return
<1>31. CASE t \in Workers /\ try_unlock(t, "unlock", "unlock_dirty")
  BY <1>31 DEF try_unlock, Return
<1>32. CASE t \in Workers /\ clear_dirty(t, "unlock_dirty", "drain")
  BY <1>32 DEF clear_dirty, Return
<1> HIDE DEF Goto, SetItem, SetOwned, SetFlags, local, history, QueueInv, Word, At, ThreadsAt,
      ClientAt, WorkerAt, Asking, Waiting, Handing, Draining, Leaving, InCallout, Threads
<1> QED
  BY SMTT(60), Steps, <1>1, <1>2, <1>3, <1>4, <1>5, <1>6, <1>7, <1>8, <1>9, <1>10, <1>11, <1>12, <1>13, <1>14,
     <1>15, <1>16, <1>17, <1>18, <1>19, <1>20, <1>21, <1>22, <1>23, <1>24, <1>25, <1>26, <1>27,
     <1>28, <1>29, <1>30, <1>31, <1>32

\* Thread t alone moves, and finishes at most the item that it runs.
AloneMoves(t) ==
  /\ DOMAIN pc' = Threads /\ DOMAIN cur' = Threads /\ DOMAIN owned' = Threads
  /\ DOMAIN batch' = Threads /\ DOMAIN flags' = Threads
  /\ \A u \in Threads \ {t} : /\ pc'[u] = pc[u] /\ cur'[u] = cur[u]
                              /\ owned'[u] = owned[u] /\ batch'[u] = batch[u]
  /\ \A i \in outstanding : i \in outstanding' \/ (pc[t] = "run" /\ cur[t] = i)

(* A step moves one thread.                                                   *)
LEMMA OneThread ==
  ASSUME NEW t \in Threads, Word, Moves(t)
  PROVE  AloneMoves(t)
<1> USE WidthAssumption, NamesAssumption
    DEF Goto, SetItem, SetOwned, SetFlags, local, history, Word, AloneMoves
<1>1. ASSUME t \in Clients, NEW k \in uses \cap Kinds, dispatch_call(t, k)
      PROVE  AloneMoves(t)
  BY <1>1 DEF dispatch_call
<1>2. CASE t \in Clients /\ async_f2(t)
  BY <1>2 DEF async_f2
<1>3. CASE t \in Clients /\ acquire_async(t)
  BY <1>3 DEF acquire_async
<1>4. CASE t \in Clients /\ sync_f2(t)
  BY <1>4 DEF sync_f2
<1>5. CASE t \in Clients /\ reserve_sync(t)
  BY <1>5 DEF reserve_sync
<1>6. CASE t \in Clients /\ barrier_sync(t)
  BY <1>6 DEF barrier_sync
<1>7. CASE t \in Clients /\ queue_push(t)
  BY <1>7 DEF queue_push
<1>8. CASE t \in Clients /\ sync_wait(t)
  BY <1>8 DEF sync_wait
<1>9. CASE t \in Clients /\ apply_reserve(t)
  BY <1>9 DEF apply_reserve
<1>10. CASE t \in Clients /\ apply_relinquish(t)
  BY <1>10 DEF apply_relinquish
<1>11. CASE t \in Clients /\ queue_suspend(t)
  BY <1>11 DEF queue_suspend
<1>12. CASE t \in Clients /\ queue_resume(t)
  BY <1>12 DEF queue_resume
<1>13. CASE redirect(t)
  BY <1>13 DEF redirect
<1>14. CASE finish(t)
  BY <1>14 DEF finish
<1>15. CASE non_barrier_complete(t)
  BY <1>15 DEF non_barrier_complete
<1>16. CASE wakeup_probe(t)
  BY <1>16 DEF wakeup_probe
<1>17. CASE class_wakeup(t)
  BY <1>17 DEF class_wakeup
<1>18. CASE wakeup_enqueue(t)
  BY <1>18 DEF wakeup_enqueue
<1>19. CASE handoff(t)
  BY <1>19 DEF handoff
<1>20. CASE handoff_pop(t)
  BY <1>20 DEF handoff_pop
<1>21. CASE transfer(t)
  BY <1>21 DEF transfer
<1>22. CASE unlock_wakeup(t)
  BY <1>22 DEF unlock_wakeup
<1>23. CASE try_unlock(t, "release", "release_dirty")
  BY <1>23 DEF try_unlock
<1>24. CASE clear_dirty(t, "release_dirty", "handoff")
  BY <1>24 DEF clear_dirty
<1>25. CASE t \in Workers /\ root_pop(t)
  BY <1>25 DEF root_pop
<1>26. CASE t \in Workers /\ drain_try_lock(t)
  BY <1>26 DEF drain_try_lock
<1>27. CASE t \in Workers /\ drain(t)
  BY <1>27 DEF drain, DrainOut
<1>28. CASE t \in Workers /\ drain_width(t)
  BY <1>28 DEF drain_width
<1>29. CASE t \in Workers /\ drain_pop(t)
  BY <1>29 DEF drain_pop
<1>30. CASE t \in Workers /\ reenqueue(t)
  BY <1>30 DEF reenqueue
<1>31. CASE t \in Workers /\ try_unlock(t, "unlock", "unlock_dirty")
  BY <1>31 DEF try_unlock
<1>32. CASE t \in Workers /\ clear_dirty(t, "unlock_dirty", "drain")
  BY <1>32 DEF clear_dirty
<1> HIDE DEF Goto, SetItem, SetOwned, SetFlags, local, history, Word, AloneMoves
<1> QED
  BY Steps, <1>1, <1>2, <1>3, <1>4, <1>5, <1>6, <1>7, <1>8, <1>9, <1>10, <1>11, <1>12, <1>13, <1>14,
     <1>15, <1>16, <1>17, <1>18, <1>19, <1>20, <1>21, <1>22, <1>23, <1>24, <1>25, <1>26, <1>27,
     <1>28, <1>29, <1>30, <1>31, <1>32

(* A thread whose item is in the list stays in its call.                     *)
LEMMA WaitsOn ==
  ASSUME NEW t \in Threads, Word, ThreadsAt, Events, pc[t] \in Waiting \union Handing,
         cur[t] \in outstanding, ItemOK(cur[t]), cur[t].sync, t \notin signaled, Moves(t)
  PROVE  pc'[t] \in Waiting \union Handing /\ cur'[t] = cur[t]
<1> USE WidthAssumption, NamesAssumption
    DEF Goto, SetItem, SetOwned, SetFlags, local, history, Word, ThreadsAt, ClientAt, Asking,
        Waiting, Handing, Draining, Leaving, InCallout, Threads, Return
<1>1. ASSUME t \in Clients, NEW k \in uses \cap Kinds, dispatch_call(t, k)
      PROVE  pc'[t] \in Waiting \union Handing /\ cur'[t] = cur[t]
  BY <1>1 DEF dispatch_call
<1>2. CASE t \in Clients /\ async_f2(t)
  BY <1>2 DEF async_f2
<1>3. CASE t \in Clients /\ acquire_async(t)
  BY <1>3 DEF acquire_async
<1>4. CASE t \in Clients /\ sync_f2(t)
  BY <1>4 DEF sync_f2
<1>5. CASE t \in Clients /\ reserve_sync(t)
  BY <1>5 DEF reserve_sync
<1>6. CASE t \in Clients /\ barrier_sync(t)
  BY <1>6 DEF barrier_sync
<1>7. CASE t \in Clients /\ queue_push(t)
  BY <1>7 DEF queue_push
<1>8. CASE t \in Clients /\ sync_wait(t)
  BY <1>8 DEF sync_wait, Events
<1>9. CASE t \in Clients /\ apply_reserve(t)
  BY <1>9 DEF apply_reserve
<1>10. CASE t \in Clients /\ apply_relinquish(t)
  BY <1>10 DEF apply_relinquish
<1>11. CASE t \in Clients /\ queue_suspend(t)
  BY <1>11 DEF queue_suspend
<1>12. CASE t \in Clients /\ queue_resume(t)
  BY <1>12 DEF queue_resume
<1>13. CASE redirect(t)
  BY <1>13 DEF redirect
<1>14. CASE finish(t)
  BY <1>14 DEF finish
<1>15. CASE non_barrier_complete(t)
  BY <1>15 DEF non_barrier_complete
<1>16. CASE wakeup_probe(t)
  BY <1>16 DEF wakeup_probe
<1>17. CASE class_wakeup(t)
  BY <1>17 DEF class_wakeup
<1>18. CASE wakeup_enqueue(t)
  BY <1>18 DEF wakeup_enqueue
<1>19. CASE handoff(t)
  BY <1>19 DEF handoff
<1>20. CASE handoff_pop(t)
  BY <1>20 DEF handoff_pop
<1>21. CASE transfer(t)
  BY <1>21 DEF transfer
<1>22. CASE unlock_wakeup(t)
  BY <1>22 DEF unlock_wakeup
<1>23. CASE try_unlock(t, "release", "release_dirty")
  BY <1>23 DEF try_unlock
<1>24. CASE clear_dirty(t, "release_dirty", "handoff")
  BY <1>24 DEF clear_dirty
<1>25. CASE t \in Workers /\ root_pop(t)
  BY <1>25 DEF root_pop
<1>26. CASE t \in Workers /\ drain_try_lock(t)
  BY <1>26 DEF drain_try_lock
<1>27. CASE t \in Workers /\ drain(t)
  BY <1>27 DEF drain, DrainOut
<1>28. CASE t \in Workers /\ drain_width(t)
  BY <1>28 DEF drain_width
<1>29. CASE t \in Workers /\ drain_pop(t)
  BY <1>29 DEF drain_pop
<1>30. CASE t \in Workers /\ reenqueue(t)
  BY <1>30 DEF reenqueue
<1>31. CASE t \in Workers /\ try_unlock(t, "unlock", "unlock_dirty")
  BY <1>31 DEF try_unlock
<1>32. CASE t \in Workers /\ clear_dirty(t, "unlock_dirty", "drain")
  BY <1>32 DEF clear_dirty
<1> HIDE DEF Goto, SetItem, SetOwned, SetFlags, local, history, Word, ThreadsAt, ClientAt,
      Asking, Waiting, Handing, Draining, Leaving, InCallout, Threads, Return
<1> QED
  BY Steps, <1>1, <1>2, <1>3, <1>4, <1>5, <1>6, <1>7, <1>8, <1>9, <1>10, <1>11, <1>12, <1>13, <1>14,
     <1>15, <1>16, <1>17, <1>18, <1>19, <1>20, <1>21, <1>22, <1>23, <1>24, <1>25, <1>26, <1>27,
     <1>28, <1>29, <1>30, <1>31, <1>32

(* The width a thread has out of the state word, label by label.             *)
LEMMA HeldIs ==
  ASSUME NEW t \in Threads, OwnsWidth(t)
  PROVE  Held(t) = IF pc[t] \in InCallout THEN IF Exclusive(cur[t]) THEN Width ELSE 1 + owned[t].w
                   ELSE IF pc[t] = "complete" THEN 1
                   ELSE IF pc[t] = "transfer" THEN Width
                   ELSE IF pc[t] = "redirect" THEN 1 + owned[t].w
                   ELSE IF pc[t] \in Draining THEN IF owned[t].ib = 1 THEN Width ELSE owned[t].w
                   ELSE KeptWidth(owned[t])
<1>1. /\ owned[t].ib \in 0..1 /\ owned[t].w \in Int /\ owned[t].pb \in {-1, 0}
      /\ owned[t].pb # 0 => pc[t] \in {"reenqueue", "unlock_wakeup"}
  BY DEF OwnsWidth
<1>2. Width \in Int /\ 0 * (Width - 1) = 0 /\ (-1) * (Width - 1) = 1 - Width
  BY WidthAssumption
<1>3. owned[t].w - owned[t].pb * (Width - 1) = KeptWidth(owned[t])
  <2>1. CASE owned[t].pb = 0
    BY <1>1, <1>2, <2>1 DEF KeptWidth
  <2>2. CASE owned[t].pb = -1
    BY <1>1, <1>2, <2>2 DEF KeptWidth
  <2> QED BY <1>1, <2>1, <2>2
<1>4. owned[t].pb = 0 => KeptWidth(owned[t]) = owned[t].w
  BY DEF KeptWidth
<1> HIDE DEF KeptWidth
<1>5. CASE pc[t] \in InCallout
  BY <1>5 DEF Held, InCallout
<1>6. CASE pc[t] \in Draining
  <2>1. owned[t].pb = 0
    BY <1>1, <1>6 DEF Draining
  <2>2. CASE owned[t].ib = 1
    BY <1>6, <2>2 DEF Held, Draining, InCallout
  <2>3. CASE owned[t].ib # 1
    BY <1>3, <1>4, <1>6, <2>1, <2>3 DEF Held, Draining, InCallout
  <2> QED BY <2>2, <2>3
<1>7. CASE pc[t] \notin InCallout \union Draining
  BY <1>3, <1>7 DEF Held, Draining, InCallout
<1> QED BY <1>5, <1>6, <1>7

(* The sum of the width taken is the state word's, and bounds what any one    *)
(* thread, or any two, have.                                                 *)
LEMMA TakenBound ==
  ASSUME WidthAccounting, RootAt
  PROVE  /\ Cardinality(Units) \in Nat /\ Cardinality(Redirected) \in Nat
         /\ dq.w = Cardinality(Units) + Cardinality(Redirected) + Reserved
         /\ \A t \in Threads : Taken(t) \in 0..(Width + 1) /\ Taken(t) =< Cardinality(Units)
         /\ \A t, u \in Threads : t # u => Taken(t) + Taken(u) =< Cardinality(Units)
<1> DEFINE f == [t \in Threads |-> Taken(t)]
           Under(h) == {p \in Threads \X (1..(Width + 1)) : p[2] =< h[p[1]]}
<1>1. f \in [Threads -> 0..(Width + 1)]
  BY DEF WidthAccounting
<1>2. Units = Under(f)
  BY DEF Units
<1>3. Width + 1 \in Nat /\ IsFiniteSet(Threads)
  BY WidthAssumption, ThreadsFinite
<1>4. \A t \in Threads : f[t] = Taken(t)
  OBVIOUS
<1> HIDE DEF f
<1>5. /\ Cardinality(Under(f)) \in Nat
      /\ \A t \in Threads : f[t] =< Cardinality(Under(f))
      /\ \A t, u \in Threads : t # u => f[t] + f[u] =< Cardinality(Under(f))
  BY <1>1, <1>3, ColumnsBound
<1>6. Cardinality(Redirected) \in Nat
  <2>1. Len(root) \in Nat
    BY Ends DEF RootAt
  <2>2. IsFiniteSet(1..Len(root))
    BY <2>1, FS_Interval
  <2> QED BY <2>2, FS_Subset, FS_CardinalityType DEF Redirected
<1> HIDE DEF Under
<1> QED BY <1>2, <1>4, <1>5, <1>6 DEF WidthAccounting

(* What is signaled takes its width through the item; nothing else does.     *)
LEMMA TakenIs ==
  ASSUME NEW t \in Threads, ThreadsAt, Owns, Events
  PROVE  /\ t \notin signaled => Taken(t) = Held(t)
         /\ t \in signaled => /\ t \in Clients /\ pc[t] \in Waiting /\ cur[t].sync
                              /\ Taken(t) = IF Exclusive(cur[t]) THEN Width ELSE 1
<1>1. OwnsWidth(t)
  BY DEF Owns
<1>2. CASE t \notin signaled
  <2>1. Granted(t) = 0 /\ Held(t) \in Int
    BY <1>1, <1>2, HeldIs, WidthAssumption DEF Granted, OwnsWidth, KeptWidth, InCallout, Draining
  <2> QED BY <1>2, <2>1 DEF Taken
<1>3. CASE t \in signaled
  <2>1. pc[t] \in Waiting /\ owned[t] = Nothing /\ t \in Clients /\ cur[t].sync
    BY <1>1, <1>3 DEF Events, OwnsWidth
  <2>2. Held(t) = 0
    BY <1>1, <2>1, HeldIs DEF KeptWidth, Nothing, Waiting, InCallout, Draining
  <2> QED BY <1>3, <2>1, <2>2, WidthAssumption DEF Taken, Granted
<1> QED BY <1>2, <1>3

(* While the barrier bit is set the whole width is with the lock's holder.    *)
LEMMA Alone ==
  ASSUME Word, At, Owns, Events, DrainLock, WidthAccounting, dq.ib = 1
  PROVE  /\ dq.owner \in Threads /\ HasLock(dq.owner) /\ Taken(dq.owner) = Width
         /\ \A t \in Threads \ {dq.owner} : Taken(t) = 0
         /\ Cardinality(Redirected) = 0 /\ dq.pb = 0 /\ dq.w = Width
<1> DEFINE o == dq.owner
<1>1. o \in Threads
  BY DEF DrainLock, Word, States
<1>2. HasLock(o) /\ dq.pb = 0 /\ Whole(o) /\ pc[o] # "redirect" /\ dq.w = Width
  BY <1>1 DEF DrainLock
<1>3. OwnsWidth(o) /\ ThreadsAt /\ RootAt
  BY <1>1 DEF Owns, At
<1> HIDE DEF o
<1>4. Taken(o) = Width
  <2>1. CASE o \in signaled
    <3>1. Exclusive(cur[o])
      BY <1>1, <1>2, <1>3, <2>1, TakenIs
          DEF HasLock, Waiting, InCallout, Draining, Leaving, Handing
    <3> QED BY <1>1, <1>3, <2>1, <3>1, TakenIs
  <2>2. CASE o \notin signaled
    <3>1. Taken(o) = Held(o)
      BY <1>1, <1>3, <2>2, TakenIs
    <3>2. \/ pc[o] \in Draining \union Leaving /\ owned[o].ib = 1
          \/ pc[o] \in Handing
          \/ pc[o] \in InCallout /\ Exclusive(cur[o])
      BY <1>2, <2>2 DEF HasLock, Whole
    <3>3. CASE pc[o] \in Draining
      BY <1>1, <1>3, <3>1, <3>2, <3>3, HeldIs DEF Draining, Leaving, Handing, InCallout
    <3>4. CASE pc[o] \in Leaving
      BY <1>1, <1>3, <3>1, <3>2, <3>4, HeldIs DEF Draining, Leaving, Handing, InCallout, OwnsWidth
    <3>5. CASE pc[o] \in Handing
      BY <1>1, <1>3, <3>1, <3>5, HeldIs
          DEF Draining, Leaving, Handing, InCallout, OwnsWidth, KeptWidth, BarrierWidth
    <3>6. CASE pc[o] \in InCallout
      BY <1>1, <1>3, <3>1, <3>2, <3>6, HeldIs DEF Draining, Leaving, Handing, InCallout
    <3> QED BY <3>2, <3>3, <3>4, <3>5, <3>6
  <2> QED BY <2>1, <2>2
<1>5. Cardinality(Units) + Cardinality(Redirected) = Width
  BY <1>2, <1>3, TakenBound, WidthAssumption DEF Reserved
<1>6. \A t \in Threads : t # o => Taken(t) + Taken(o) =< Cardinality(Units)
  BY <1>1, <1>3, TakenBound
<1>7. Cardinality(Units) = Width /\ Cardinality(Redirected) = 0
  BY <1>1, <1>3, <1>4, <1>5, TakenBound, WidthAssumption
<1>8. \A t \in Threads \ {o} : Taken(t) = 0
  BY <1>1, <1>3, <1>4, <1>6, <1>7, TakenBound, WidthAssumption
<1> QED BY <1>1, <1>2, <1>4, <1>7, <1>8 DEF o

(* A queue whose whole width is free, but for a reservation, has nobody in it. *)
LEMMA Free ==
  ASSUME RootAt, WidthAccounting, dq.pb \in 0..1, dq.w \in Int, BarrierFree(dq), dq.w < Width
  PROVE  /\ Cardinality(Units) = 0 /\ Cardinality(Redirected) = 0
         /\ \A t \in Threads : Taken(t) = 0
<1>1. dq.w - Reserved =< 0
  BY WidthAssumption DEF BarrierFree, Reserved
<1>2. Cardinality(Units) = 0 /\ Cardinality(Redirected) = 0
  BY SMTT(60), <1>1, TakenBound, WidthAssumption DEF Reserved
<1> QED BY <1>2, TakenBound

(* How many entries of a sequence belong to a set, after an append and after  *)
(* a removal of the head.                                                    *)
Count(q, P) == Cardinality({j \in 1..Len(q) : q[j] \in P})
(* An append adds the new entry to a count; the removal of the head takes it away. *)
LEMMA CountEntries ==
  ASSUME NEW S, NEW s \in Seq(S), NEW P
  PROVE  /\ Count(s, P) \in Nat
         /\ \A e : Count(Append(s, e), P) = Count(s, P) + (IF e \in P THEN 1 ELSE 0)
         /\ s # <<>> => /\ Count(Tail(s), P) \in Nat
                        /\ Count(s, P) = Count(Tail(s), P) + (IF Head(s) \in P THEN 1 ELSE 0)
<1> DEFINE Where(q) == {j \in 1..Len(q) : q[j] \in P}
<1>1. ASSUME NEW q, Len(q) \in Nat
      PROVE  IsFiniteSet(Where(q)) /\ Cardinality(Where(q)) \in Nat
  <2>1. IsFiniteSet(1..Len(q))
    BY <1>1, FS_Interval
  <2> QED BY <2>1, FS_Subset, FS_CardinalityType
<1>2. ASSUME NEW e
      PROVE  Cardinality(Where(Append(s, e))) = Cardinality(Where(s)) + (IF e \in P THEN 1 ELSE 0)
  <2>1. /\ Len(Append(s, e)) = Len(s) + 1 /\ Append(s, e)[Len(s) + 1] = e
        /\ \A j \in 1..Len(s) : Append(s, e)[j] = s[j]
        /\ Len(s) \in Nat
    BY Ends
  <2>2. Where(Append(s, e)) = IF e \in P THEN Where(s) \union {Len(s) + 1} ELSE Where(s)
    BY <2>1
  <2>3. Len(s) + 1 \notin Where(s) /\ IsFiniteSet(Where(s)) /\ Cardinality(Where(s)) \in Nat
    BY <1>1, <2>1
  <2> HIDE DEF Where
  <2>4. Cardinality(Where(s) \union {Len(s) + 1}) = Cardinality(Where(s)) + 1
    BY <2>3, FS_AddElement
  <2> QED BY <2>2, <2>3, <2>4
<1>3. ASSUME s # <<>>
      PROVE  /\ Cardinality(Where(Tail(s))) \in Nat
             /\ Cardinality(Where(s)) = Cardinality(Where(Tail(s))) + (IF Head(s) \in P THEN 1 ELSE 0)
  <2>1. /\ Head(s) = s[1] /\ Len(Tail(s)) = Len(s) - 1 /\ Len(s) \in Nat /\ Len(s) > 0
        /\ \A j \in 1..Len(Tail(s)) : Tail(s)[j] = s[j + 1]
    BY <1>3, Ends
  <2> DEFINE Rest == Where(s) \ {1}
             f == [j \in Where(Tail(s)) |-> j + 1]
  <2>2. IsFiniteSet(Where(Tail(s))) /\ Cardinality(Where(Tail(s))) \in Nat
    <3>1. Len(Tail(s)) \in Nat
      BY <2>1
    <3> HIDE DEF Where
    <3> QED BY <1>1, <3>1
  <2>3. f \in Bijection(Where(Tail(s)), Rest)
    <3>1. \A j \in Where(Tail(s)) : j + 1 \in Rest
      BY <2>1
    <3>2. \A k \in Rest : k - 1 \in Where(Tail(s)) /\ (k - 1) + 1 = k
      BY <2>1
    <3>3. \A j, k \in Where(Tail(s)) : j + 1 = k + 1 => j = k
      OBVIOUS
    <3> HIDE DEF Where, Rest
    <3>4. f \in [Where(Tail(s)) -> Rest]
      BY <3>1
    <3>5. \A j, k \in Where(Tail(s)) : f[j] = f[k] => j = k
      BY <3>3
    <3>6. \A k \in Rest : \E j \in Where(Tail(s)) : f[j] = k
      BY <3>2
    <3> HIDE DEF f
    <3> QED BY <3>4, <3>5, <3>6 DEF Bijection, Injection, Surjection, IsInjective
  <2>4. Cardinality(Rest) = Cardinality(Where(Tail(s))) /\ IsFiniteSet(Rest)
    <3> HIDE DEF f, Rest, Where
    <3> QED BY <2>2, <2>3, FS_Bijection DEF ExistsBijection
  <2>5. 1 \in Where(s) <=> Head(s) \in P
    BY <2>1
  <2>6. IsFiniteSet(Where(s)) /\ Cardinality(Where(s)) \in Nat
    BY <1>1, <2>1
  <2> HIDE DEF Where, f
  <2>7. Cardinality(Rest) = IF 1 \in Where(s) THEN Cardinality(Where(s)) - 1 ELSE Cardinality(Where(s))
    BY <2>6, FS_RemoveElement
  <2> QED BY <2>2, <2>4, <2>5, <2>6, <2>7
<1>4. Cardinality(Where(s)) \in Nat
  BY <1>1, Ends
<1> HIDE DEF Where
<1> QED BY <1>2, <1>3, <1>4 DEF Where, Count

(* The sum of the width taken changes with the one thread whose part does.    *)
LEMMA TakenMoves ==
  ASSUME WidthAccounting, \A u \in Threads : Taken(u)' \in 0..(Width + 1),
         NEW t \in Threads, \A u \in Threads \ {t} : Taken(u)' = Taken(u)
  PROVE  /\ Cardinality(Units) \in Nat /\ Cardinality(Units') \in Nat
         /\ Cardinality(Units') = Cardinality(Units) + Taken(t)' - Taken(t)
<1> DEFINE f == [u \in Threads |-> Taken(u)]
           g == [u \in Threads |-> Taken(u)']
           Under(h) == {p \in Threads \X (1..(Width + 1)) : p[2] =< h[p[1]]}
<1>1. f \in [Threads -> 0..(Width + 1)] /\ g \in [Threads -> 0..(Width + 1)]
  BY DEF WidthAccounting
<1>2. Units = Under(f) /\ Units' = Under(g)
  BY DEF Units
<1>3. Width + 1 \in Nat /\ IsFiniteSet(Threads)
  BY WidthAssumption, ThreadsFinite
<1>4. \A u \in Threads : f[u] = Taken(u) /\ g[u] = Taken(u)'
  OBVIOUS
<1> HIDE DEF f, g
<1>5. \A u \in Threads \ {t} : g[u] = f[u]
  BY <1>4
<1>6. /\ Cardinality(Under(f)) \in Nat /\ Cardinality(Under(g)) \in Nat
      /\ Cardinality(Under(g)) = Cardinality(Under(f)) + g[t] - f[t]
  BY <1>1, <1>3, <1>5, ColumnsMove
<1> HIDE DEF Under
<1> QED BY <1>2, <1>4, <1>6

(* The thread of an item in the list, or in a batch, waits for its event.     *)
LEMMA PlacedStep ==
  ASSUME NEW t \in Threads, QueueInv, Moves(t), NEW i \in Items, i.sync, Placed(i),
         i.by \notin signaled'
  PROVE  Placed(i)'
<1>1. ItemOK(i) /\ i.by \in Clients /\ i.by \in Threads
  BY ItemFacts DEF ItemOK, Threads
<1>2. Word /\ ThreadsAt /\ Events /\ AloneMoves(t)
  BY OneThread DEF QueueInv, At
<1>3. CASE i.by = t
  <2>1. pc'[t] \in Waiting \union Handing /\ cur'[t] = cur[t]
    BY <1>1, <1>2, <1>3, WaitsOn DEF Placed
  <2>2. i \in outstanding'
    BY <1>2, <1>3 DEF AloneMoves, Placed, Waiting, Handing
  <2> QED BY <1>3, <2>1, <2>2 DEF Placed
<1>4. CASE i.by # t
  <2>1. ~(pc[t] = "run" /\ cur[t] = i)
    BY <1>1, <1>2, <1>4, NamesAssumption
        DEF ThreadsAt, ClientAt, WorkerAt, Threads, InCallout, Draining
  <2> QED BY <1>1, <1>2, <1>4, <2>1 DEF AloneMoves, Placed
<1> QED BY <1>3, <1>4

-----------------------------------------------------------------------------
(* What the updates of the state word do to its fields *)

\* Thread t takes the lock of a queue nobody is in but for k units, with the
\* barrier bit; the lock's holder keeps it; it gives up what it owns with it.
TakesBarrier(t, k) ==
  /\ dq.owner = None /\ dq.ib = 0 /\ dq.w = Reserved + k
  /\ dq'.owner = t /\ dq'.ib = 1 /\ dq'.w = Width /\ dq'.pb = 0
KeepsLock == dq'.owner = dq.owner /\ dq'.ib = dq.ib /\ dq'.pb = dq.pb
Unlocks(o) == /\ dq'.owner = None /\ dq'.ib = dq.ib - o.ib /\ dq'.w = dq.w - o.w
              /\ dq'.pb = dq.pb - o.pb
SameQueue == dq'.sc = dq.sc /\ dq'.enq = dq.enq

(* The fields of a state word are what the word records.                    *)
LEMMA StateFields ==
  ASSUME NEW s \in States
  PROVE  /\ s.sc \in Int /\ s.ib \in Int /\ s.w \in Int /\ s.pb \in Int /\ s.dirty \in BOOLEAN
         /\ s.enq \in BOOLEAN /\ s.owner \in Threads \union {None}
BY DEF States

\* What n has in common with s.
SameFlags(n, s) == n.dirty = s.dirty /\ n.enq = s.enq
SameWidth(n, s) == n.ib = s.ib /\ n.w = s.w /\ n.pb = s.pb
SetWidth(n, i, w, p) == n.ib = i /\ n.w = w /\ n.pb = p

Parts == [ib : Int, w : Int, pb : Int]

(* Giving a width back changes the width, the barrier bits and nothing else. *)
LEMMA MinusIs ==
  ASSUME NEW s \in States, NEW o \in Parts
  PROVE  /\ Minus(s, o) \in States /\ Minus(s, o).ib = s.ib - o.ib /\ Minus(s, o).w = s.w - o.w
         /\ Minus(s, o).pb = s.pb - o.pb /\ SameFlags(Minus(s, o), s)
         /\ Minus(s, o).sc = s.sc /\ Minus(s, o).owner = s.owner
<1>1. PICK i, w, p : i = s.ib - o.ib /\ w = s.w - o.w /\ p = s.pb - o.pb
  OBVIOUS
<1>2. i \in Int /\ w \in Int /\ p \in Int
  BY <1>1 DEF States, Parts
<1>3. PICK n : n = [s EXCEPT !.ib = i, !.w = w, !.pb = p]
  OBVIOUS
<1>4. Minus(s, o) = n
  BY <1>1, <1>3 DEF Minus
<1>5. n \in States /\ SetWidth(n, i, w, p) /\ SameFlags(n, s) /\ n.sc = s.sc /\ n.owner = s.owner
  BY <1>2, <1>3 DEF States, SetWidth, SameFlags
<1> QED BY <1>1, <1>4, <1>5 DEF SetWidth

(* Unlocking clears the owner and keeps the rest.                           *)
LEMMA UnlockIs ==
  ASSUME NEW s \in States
  PROVE  /\ Unlock(s) \in States /\ SameWidth(Unlock(s), s) /\ SameFlags(Unlock(s), s)
         /\ Unlock(s).sc = s.sc /\ Unlock(s).owner = None
BY DEF Unlock, States, SameWidth, SameFlags

(* The barrier width is taken when the whole width is free.                  *)
LEMMA UpgradeTakes ==
  ASSUME NEW t \in Threads, NEW s \in States, s.pb \in 0..1, CanUpgrade(s)
  PROVE  /\ s.owner = None /\ s.ib = 0 /\ s.w = IF s.pb = 1 THEN Width - 1 ELSE 0
         /\ Upgrade(s, t) \in States /\ Upgrade(s, t).ib = 1 /\ Upgrade(s, t).w = Width
         /\ Upgrade(s, t).pb = 0 /\ Upgrade(s, t).sc = s.sc /\ Upgrade(s, t).enq = s.enq
         /\ Upgrade(s, t).owner = t
<1>1. s.owner = None /\ s.ib = 0
  BY DEF CanUpgrade, Runnable, Locked
<1>2. PICK f : f = FullWidth(s)
  OBVIOUS
<1>3. /\ f \in States /\ f.w = (IF s.pb = 1 THEN s.w + 1 ELSE s.w + Width) /\ f.ib = 1
      /\ f.pb = 0 /\ f.sc = s.sc /\ f.enq = s.enq
  <2>1. CASE s.pb = 1
    <3>1. PICK w \in Int, i \in Int, p \in Int : w = s.w + 1 /\ i = 1 /\ p = 0
      BY DEF States
    <3>2. f = [s EXCEPT !.pb = p, !.w = w, !.ib = i]
      BY <1>1, <1>2, <2>1, <3>1 DEF FullWidth
    <3>3. f \in States /\ SetWidth(f, i, w, p) /\ f.sc = s.sc /\ f.enq = s.enq
      BY <3>2 DEF States, SetWidth
    <3> QED BY <2>1, <3>1, <3>3 DEF SetWidth
  <2>2. CASE s.pb = 0
    <3>1. PICK w \in Int, i \in Int : w = s.w + Width /\ i = 1
      BY WidthAssumption DEF States
    <3>2. f = [s EXCEPT !.w = w, !.ib = i]
      BY <1>1, <1>2, <2>2, <3>1 DEF FullWidth
    <3>3. f \in States /\ SetWidth(f, i, w, s.pb) /\ f.sc = s.sc /\ f.enq = s.enq
      BY <3>2 DEF States, SetWidth
    <3> QED BY <2>2, <3>1, <3>3 DEF SetWidth
  <2> QED BY <2>1, <2>2
<1>4. f.w = Width
  BY <1>2 DEF CanUpgrade
<1>5. s.w = IF s.pb = 1 THEN Width - 1 ELSE 0
  BY <1>3, <1>4, WidthAssumption DEF States
<1>6. PICK n : n = [f EXCEPT !.dirty = FALSE, !.owner = t]
  OBVIOUS
<1>7. Upgrade(s, t) = n
  BY <1>2, <1>6 DEF Upgrade
<1>8. n \in States /\ SameWidth(n, f) /\ n.sc = f.sc /\ n.owner = t /\ n.enq = f.enq
  BY <1>3, <1>6 DEF States, SameWidth
<1> QED BY <1>1, <1>3, <1>4, <1>5, <1>7, <1>8 DEF SameWidth

(* The word of a drainer that took the lock: it has all the width that was free. *)
LEMMA LockedForIs ==
  ASSUME NEW s \in States, NEW t \in Threads
  PROVE  /\ LockedFor(s, t) \in States /\ LockedFor(s, t).ib = (IF BarrierFree(s) THEN 1 ELSE 0)
         /\ LockedFor(s, t).w = Width /\ LockedFor(s, t).pb = 0 /\ LockedFor(s, t).enq = s.enq
         /\ LockedFor(s, t).sc = s.sc /\ LockedFor(s, t).owner = t
<1>1. PICK i \in Int : i = IF BarrierFree(s) THEN 1 ELSE 0
  OBVIOUS
<1>2. PICK w \in Int : w = Width
  BY WidthAssumption
<1>3. PICK p \in Int : p = 0
  OBVIOUS
<1>4. PICK d \in BOOLEAN : d = FALSE
  OBVIOUS
<1>5. PICK n : n = [s EXCEPT !.owner = t, !.w = w, !.pb = p, !.dirty = d, !.ib = i]
  OBVIOUS
<1>6. LockedFor(s, t) = n
  BY <1>1, <1>2, <1>3, <1>4, <1>5 DEF LockedFor
<1>7. n \in States /\ SetWidth(n, i, w, p) /\ n.sc = s.sc /\ n.owner = t /\ n.enq = s.enq
  BY <1>5 DEF States, SetWidth
<1> QED BY <1>1, <1>2, <1>3, <1>6, <1>7 DEF SetWidth

(* The two reservations add one to the width in use, or send the item to the list. *)
LEMMA EffectReserve ==
  ASSUME NEW t \in Threads, Word, acquire_async(t) \/ reserve_sync(t)
  PROVE  /\ dq' \in States /\ KeepsLock /\ SameQueue
         /\ \/ /\ dq'.w = dq.w + 1 /\ dq.ib = 0 /\ dq.pb = 0 /\ (pc[t] = "acquire_async" => dq.w < Width)
               /\ pc'[t] = IF pc[t] = "acquire_async" THEN "redirect" ELSE RunLabel(cur[t])
            \/ dq'.w = dq.w /\ pc'[t] = "push"
BY WidthAssumption
   DEF Word, States, KeepsLock, SameQueue, acquire_async, reserve_sync, AcquireAsync,
    ReserveSync, Runnable, SyncRunnable, Goto

(* dispatch_barrier_sync takes a free queue whole, or sends the item to the list. *)
LEMMA EffectBarrierSync ==
  ASSUME NEW t \in Threads, Word, barrier_sync(t)
  PROVE  /\ dq' \in States /\ SameQueue
         /\ \/ TakesBarrier(t, 0) /\ pc'[t] = RunLabel(cur[t])
            \/ KeepsLock /\ dq'.w = dq.w /\ pc'[t] = "push"
<1>1. CASE BarrierIdle(dq)
  <2>1. dq.owner = None /\ dq.ib = 0 /\ dq.w = 0 /\ dq.pb = 0
    BY <1>1 DEF BarrierIdle, Idle
  <2>2. PICK i \in Int, w \in Int : i = 1 /\ w = Width
    BY WidthAssumption
  <2>3. dq' = [dq EXCEPT !.ib = i, !.w = w, !.owner = t] /\ pc'[t] = RunLabel(cur[t])
    BY <1>1, <2>2 DEF barrier_sync, Goto, Word
  <2>4. dq' \in States /\ SameQueue /\ SetWidth(dq', i, w, dq.pb) /\ dq'.owner = t
    BY <2>3 DEF Word, States, SetWidth, SameQueue
  <2> QED BY <2>1, <2>2, <2>3, <2>4 DEF TakesBarrier, Reserved, SetWidth
<1>2. CASE ~BarrierIdle(dq)
  BY <1>2 DEF Word, KeepsLock, SameQueue, barrier_sync, Goto
<1> QED BY <1>1, <1>2

(* The width a dispatch_apply reserves is added once and given back once.   *)
LEMMA EffectApply ==
  ASSUME NEW t \in Threads, Word, apply_reserve(t) \/ apply_relinquish(t), dq.w \in Nat,
         owned[t].w \in Int
  PROVE  /\ dq' \in States /\ KeepsLock /\ SameQueue
         /\ pc[t] = "apply" => /\ pc'[t] = "apply_run" /\ owned'[t].w \in 0..Width
                               /\ owned'[t] = JustWidth(owned'[t].w)
                               /\ dq'.w = dq.w + owned'[t].w
                               /\ owned'[t].w > 0 => dq'.w =< Width
         /\ pc[t] = "apply_run" => /\ pc'[t] = "run" /\ owned'[t] = Nothing
                                   /\ dq'.w = dq.w - owned[t].w
BY WidthAssumption
   DEF Word, States, KeepsLock, SameQueue, apply_reserve, apply_relinquish, Available,
    Lesser, JustWidth, Goto, SetOwned

(* A suspension adds one to the suspend count and touches nothing else.     *)
LEMMA EffectSuspend ==
  ASSUME NEW t \in Threads, Word, queue_suspend(t)
  PROVE  /\ dq' \in States /\ KeepsLock /\ dq'.enq = dq.enq /\ dq'.w = dq.w /\ dq'.sc = dq.sc + 1
BY DEF Word, States, KeepsLock, queue_suspend

(* A resume takes the count down; the last one may take the queue as a barrier. *)
LEMMA EffectResume ==
  ASSUME NEW t \in Threads, Word, queue_resume(t)
  PROVE  /\ dq' \in States /\ dq'.enq = dq.enq /\ dq'.sc = dq.sc - 1
         /\ \/ TakesBarrier(t, 0) /\ pc'[t] = "handoff" /\ owned'[t] = BarrierWidth
            \/ KeepsLock /\ dq'.w = dq.w /\ owned' = owned /\ pc'[t] \in {"probe", "idle"}
<1>1. PICK n : n = [dq EXCEPT !.sc = @ - 1]
  OBVIOUS
<1>2. /\ n \in States /\ SameWidth(n, dq) /\ SameFlags(n, dq) /\ n.owner = dq.owner
      /\ n.sc = dq.sc - 1
  BY <1>1 DEF Word, States, SameWidth, SameFlags
<1>3. CASE ResumeUpgrades(dq)
  <2>1. dq' = Upgrade(n, t) /\ pc'[t] = "handoff" /\ owned'[t] = BarrierWidth /\ CanUpgrade(n)
    BY <1>1, <1>3 DEF queue_resume, Goto, SetOwned, Word, ResumeUpgrades
  <2>2. n.pb \in 0..1
    BY <1>2 DEF Word, SameWidth
  <2>3. /\ n.owner = None /\ n.ib = 0 /\ n.w = (IF n.pb = 1 THEN Width - 1 ELSE 0)
        /\ dq' \in States /\ dq'.ib = 1 /\ dq'.w = Width
        /\ dq'.pb = 0 /\ dq'.sc = n.sc /\ dq'.enq = n.enq /\ dq'.owner = t
    BY <1>2, <2>1, <2>2, UpgradeTakes
  <2> QED
    BY <1>2, <2>1, <2>3, WidthAssumption DEF TakesBarrier, Reserved, SameWidth, SameFlags
<1>4. CASE ~ResumeUpgrades(dq)
  <2>1. dq' = n /\ pc'[t] \in {"probe", "idle"} /\ owned' = owned
    BY <1>1, <1>4 DEF queue_resume, Goto, Word
  <2> QED BY <1>2, <2>1 DEF KeepsLock, SameWidth, SameFlags
<1> QED BY <1>3, <1>4

(* A reader that ends gives its unit back, or turns it into the barrier width. *)
LEMMA EffectComplete ==
  ASSUME NEW t \in Threads, Word, dq.ib = 0, non_barrier_complete(t)
  PROVE  /\ dq' \in States /\ SameQueue
         /\ \/ TakesBarrier(t, 1) /\ pc'[t] = "handoff" /\ owned'[t] = BarrierWidth
            \/ KeepsLock /\ dq'.w = dq.w - 1 /\ owned' = owned /\ pc'[t] \in {"probe", Return(t)}
<1>1. PICK n : n = [dq EXCEPT !.w = @ - 1]
  OBVIOUS
<1>2. /\ n \in States /\ SetWidth(n, dq.ib, dq.w - 1, dq.pb) /\ SameFlags(n, dq)
      /\ n.owner = dq.owner /\ n.sc = dq.sc
  BY <1>1 DEF Word, States, SetWidth, SameFlags
<1>3. PICK d : d = (n.dirty \/ (Runnable(n) /\ ~Runnable(dq))) /\ d \in BOOLEAN
  BY <1>2 DEF States
<1>4. NonBarrierDone(dq, t) = IF CanUpgrade(n) THEN Upgrade(n, t) ELSE [n EXCEPT !.dirty = d]
  BY <1>1, <1>3 DEF NonBarrierDone
<1>5. CASE CanUpgrade(n)
  <2>1. dq' = Upgrade(n, t)
    BY <1>4, <1>5 DEF non_barrier_complete
  <2>2. n.pb \in 0..1
    BY <1>2 DEF Word, SetWidth
  <2>3. /\ n.owner = None /\ n.ib = 0 /\ n.w = (IF n.pb = 1 THEN Width - 1 ELSE 0)
        /\ dq' \in States /\ dq'.ib = 1 /\ dq'.w = Width
        /\ dq'.pb = 0 /\ dq'.sc = n.sc /\ dq'.enq = n.enq /\ dq'.owner = t
    BY <1>2, <1>5, <2>1, <2>2, UpgradeTakes
  <2>4. pc'[t] = "handoff" /\ owned'[t] = BarrierWidth
    BY <2>3 DEF non_barrier_complete, Goto, SetOwned, Word
  <2>5. dq.w = Reserved + 1
    BY <1>2, <2>3, WidthAssumption DEF Reserved, SetWidth, States, Word
  <2> QED
    BY <1>2, <2>3, <2>4, <2>5 DEF TakesBarrier, SetWidth, SameFlags, SameQueue
<1>6. CASE ~CanUpgrade(n)
  <2>1. PICK m : m = [n EXCEPT !.dirty = d]
    OBVIOUS
  <2>2. dq' = m
    BY <1>4, <1>6, <2>1 DEF non_barrier_complete
  <2>3. /\ m \in States /\ SameWidth(m, n) /\ m.enq = n.enq /\ m.owner = n.owner /\ m.sc = n.sc
    BY <1>2, <1>3, <2>1 DEF States, SameWidth
  <2>4. dq'.ib = 0
    BY <1>2, <2>2, <2>3 DEF SameWidth, SetWidth
  <2>5. owned' = owned /\ pc'[t] \in {"probe", Return(t)}
    BY <2>4 DEF non_barrier_complete, Goto, Word
  <2> QED
    BY <1>2, <2>2, <2>3, <2>5 DEF KeepsLock, SameWidth, SetWidth, SameFlags, SameQueue
<1> QED BY <1>5, <1>6

(* A wakeup takes a free queue as a barrier, marks it enqueued, or does nothing. *)
LEMMA EffectWakeup ==
  ASSUME NEW t \in Threads, Word, dq.w >= Reserved, class_wakeup(t)
  PROVE  /\ dq' \in States /\ dq'.sc = dq.sc
         /\ \/ /\ TakesBarrier(t, 0) /\ dq'.enq = dq.enq
               /\ pc'[t] = "handoff" /\ owned'[t] = BarrierWidth
            \/ /\ KeepsLock /\ dq'.w = dq.w /\ owned' = owned
               /\ \/ dq'.enq = dq.enq /\ pc'[t] = Return(t)
                  \/ dq'.enq /\ ~dq.enq /\ pc'[t] = "enqueue"
<1> USE DEF Word
<1>1. PICK n : n = [dq EXCEPT !.dirty = TRUE]
  OBVIOUS
<1>2. n \in States /\ SameWidth(n, dq) /\ n.enq = dq.enq /\ n.owner = dq.owner /\ n.sc = dq.sc
  BY <1>1 DEF States, SameWidth
<1>3. CASE dq' = LockedFor(n, t) /\ ~Locked(n) /\ Runnable(n) /\ BarrierFree(n)
  <2>1. /\ dq' \in States /\ dq'.ib = 1 /\ dq'.w = Width /\ dq'.pb = 0 /\ dq'.enq = n.enq
        /\ dq'.sc = n.sc /\ dq'.owner = t
    BY <1>2, <1>3, LockedForIs
  <2>2. dq.owner = None /\ dq.ib = 0 /\ dq.w < Width /\ (dq.pb = 1 \/ dq.w + (Width - 1) < Width)
    BY <1>2, <1>3 DEF Locked, Runnable, BarrierFree, SameWidth
  <2>3. dq.w = Reserved
    BY <2>2, WidthAssumption, StateFields DEF Reserved
  <2>4. pc'[t] = "handoff" /\ owned'[t] = BarrierWidth
    BY <2>1, <2>2 DEF class_wakeup, Goto, SetOwned
  <2> QED
    BY <1>2, <2>1, <2>2, <2>3, <2>4, WidthAssumption DEF TakesBarrier, Reserved
<1>4. CASE /\ dq' \in States /\ SameWidth(dq', dq) /\ dq'.owner = dq.owner /\ dq'.sc = dq.sc
           /\ dq'.enq = dq.enq \/ dq'.enq
  <2>1. dq'.ib = dq.ib /\ dq.enq \in BOOLEAN /\ dq'.enq \in BOOLEAN
    BY <1>4, StateFields DEF SameWidth
  <2>2. owned' = owned /\ pc'[t] = IF dq'.enq # dq.enq THEN "enqueue" ELSE Return(t)
    BY <2>1 DEF class_wakeup, Goto
  <2> QED BY <1>4, <2>1, <2>2 DEF KeepsLock, SameWidth
<1>5. CASE flags[t] = "slow"
  <2>1. dq' = IF Locked(n) \/ ~Runnable(n) THEN n
              ELSE IF BarrierFree(n) THEN LockedFor(n, t) ELSE [n EXCEPT !.enq = TRUE]
    BY <1>1, <1>5 DEF class_wakeup, WakeupSlow
  <2>2. CASE dq' = n
    BY <1>2, <1>4, <2>2
  <2>3. CASE dq' = [n EXCEPT !.enq = TRUE]
    <3>1. dq' \in States /\ SameWidth(dq', n) /\ dq'.owner = n.owner /\ dq'.sc = n.sc /\ dq'.enq
      BY <1>2, <2>3 DEF States, SameWidth
    <3> QED BY <1>2, <1>4, <3>1 DEF SameWidth
  <2> QED BY <1>3, <2>1, <2>2, <2>3
<1>6. CASE flags[t] # "slow"
  <2>1. PICK d \in BOOLEAN, e \in BOOLEAN :
          d = (dq.dirty \/ flags[t] = "flush") /\ e = (dq.enq \/ ShouldWakeup(dq))
    BY StateFields
  <2>2. dq' = [dq EXCEPT !.dirty = d, !.enq = e]
    BY <1>6, <2>1 DEF class_wakeup, WakeupPlain
  <2>3. dq' \in States /\ SameWidth(dq', dq) /\ dq'.owner = dq.owner /\ dq'.sc = dq.sc /\ dq'.enq = e
    BY <2>2 DEF States, SameWidth
  <2>4. dq.enq => e
    BY <2>1
  <2>5. dq'.enq = dq.enq \/ dq'.enq
    BY <2>3, <2>4, StateFields
  <2> QED BY <1>4, <2>3, <2>5
<1> QED BY <1>5, <1>6

(* The handoff passes the lock, or the width, to the threads it wakes.      *)
LEMMA EffectTransfer ==
  ASSUME NEW t \in Threads, Word, owned[t] \in Parts, transfer(t),
         batch[t][1].barrier => batch[t][1].by \in Threads
  PROVE  /\ dq' \in States /\ SameQueue
         /\ dq'.ib = dq.ib - owned[t].ib /\ dq'.w = dq.w - owned[t].w /\ dq'.pb = dq.pb - owned[t].pb
         /\ dq'.owner = IF batch[t][1].barrier THEN batch[t][1].by ELSE None
<1>1. PICK n : n = Minus(dq, owned[t])
  OBVIOUS
<1>2. /\ n \in States /\ n.ib = dq.ib - owned[t].ib /\ n.w = dq.w - owned[t].w
      /\ n.pb = dq.pb - owned[t].pb /\ SameFlags(n, dq) /\ n.sc = dq.sc
  BY <1>1, MinusIs DEF Word
<1>3. PICK o \in Threads \union {None} : o = IF batch[t][1].barrier THEN batch[t][1].by ELSE None
  OBVIOUS
<1>4. dq' = [n EXCEPT !.dirty = FALSE, !.owner = o]
  BY <1>1, <1>3 DEF transfer, Transfer
<1>5. dq' \in States /\ SameWidth(dq', n) /\ dq'.sc = n.sc /\ dq'.owner = o /\ dq'.enq = n.enq
  BY <1>2, <1>4 DEF States, SameWidth
<1> QED BY <1>2, <1>3, <1>5 DEF SameQueue, SameWidth, SameFlags

(* A holder gives the lock up with what it owns.                             *)
LEMMA ReleaseIs ==
  ASSUME NEW s \in States, NEW o \in Parts
  PROVE  LET n == Unlock(Minus(s, o))
         IN  /\ n \in States /\ n.ib = s.ib - o.ib /\ n.w = s.w - o.w /\ n.pb = s.pb - o.pb
             /\ SameFlags(n, s) /\ n.sc = s.sc /\ n.owner = None
BY MinusIs, UnlockIs DEF SameWidth, SameFlags

(* Clearing the dirty bit keeps everything else.                            *)
LEMMA ClearDirty ==
  ASSUME NEW s \in States, NEW n, n = [s EXCEPT !.dirty = FALSE]
  PROVE  n \in States /\ SameWidth(n, s) /\ n.sc = s.sc /\ n.owner = s.owner /\ n.enq = s.enq
BY DEF States, SameWidth

(* The unlock at the end of a handoff gives back all that its thread owned. *)
LEMMA EffectUnlockWakeup ==
  ASSUME NEW t \in Threads, Word, owned[t] \in Parts, unlock_wakeup(t)
  PROVE  /\ dq' \in States /\ SameQueue /\ Unlocks(owned[t])
         /\ owned'[t] = Nothing /\ pc'[t] \in {"probe", Return(t)}
<1>1. PICK n : n = Unlock(Minus(dq, owned[t]))
  OBVIOUS
<1>2. /\ n \in States /\ n.ib = dq.ib - owned[t].ib /\ n.w = dq.w - owned[t].w
      /\ n.pb = dq.pb - owned[t].pb /\ SameFlags(n, dq) /\ n.sc = dq.sc /\ n.owner = None
  BY <1>1, ReleaseIs DEF Word
<1>3. dq' = [n EXCEPT !.dirty = FALSE]
  BY <1>1 DEF unlock_wakeup
<1>4. dq' \in States /\ SameWidth(dq', n) /\ dq'.sc = n.sc /\ dq'.owner = n.owner /\ dq'.enq = n.enq
  BY <1>2, <1>3, ClearDirty
<1>5. owned'[t] = Nothing /\ pc'[t] \in {"probe", Return(t)}
  BY DEF unlock_wakeup, Goto, SetOwned, Word
<1> QED BY <1>2, <1>4, <1>5 DEF SameQueue, Unlocks, SameWidth, SameFlags

(* The attempt to unlock gives back all that is owned, or finds the word dirty. *)
LEMMA EffectTryUnlock ==
  ASSUME NEW t \in Threads, NEW from, NEW clear, Word, owned[t] \in Parts, try_unlock(t, from, clear)
  PROVE  /\ dq' \in States /\ SameQueue
         /\ \/ KeepsLock /\ dq'.w = dq.w /\ owned' = owned /\ pc'[t] = clear
            \/ Unlocks(owned[t]) /\ owned'[t] = Nothing /\ pc'[t] = Return(t)
<1>1. CASE MustRetry(dq)
  <2>1. dq' = dq /\ owned' = owned /\ pc'[t] = clear
    BY <1>1 DEF try_unlock, Goto, Word
  <2> QED BY <2>1 DEF Word, KeepsLock, SameQueue
<1>2. CASE ~MustRetry(dq)
  <2>1. PICK n : n = Unlock(Minus(dq, owned[t]))
    OBVIOUS
  <2>2. /\ n \in States /\ n.ib = dq.ib - owned[t].ib /\ n.w = dq.w - owned[t].w
        /\ n.pb = dq.pb - owned[t].pb /\ SameFlags(n, dq) /\ n.sc = dq.sc /\ n.owner = None
    BY <2>1, ReleaseIs DEF Word
  <2>3. dq' = n \/ dq' = [n EXCEPT !.dirty = FALSE]
    BY <1>2, <2>1 DEF try_unlock, TryUnlock
  <2>4. dq' \in States /\ SameWidth(dq', n) /\ dq'.sc = n.sc /\ dq'.owner = n.owner /\ dq'.enq = n.enq
    <3>1. CASE dq' = n
      BY <2>2, <3>1 DEF SameWidth
    <3>2. CASE dq' = [n EXCEPT !.dirty = FALSE]
      BY <2>2, <3>2, ClearDirty
    <3> QED BY <2>3, <3>1, <3>2
  <2>5. owned'[t] = Nothing /\ pc'[t] = Return(t)
    BY <1>2 DEF try_unlock, Goto, SetOwned, Word
  <2> QED BY <2>2, <2>4, <2>5 DEF SameQueue, Unlocks, SameWidth, SameFlags
<1> QED BY <1>1, <1>2

(* Clearing the dirty bit before another look keeps the lock and the width. *)
LEMMA EffectClearDirty ==
  ASSUME NEW t \in Threads, NEW from, NEW retry, Word, clear_dirty(t, from, retry)
  PROVE  dq' \in States /\ SameQueue /\ KeepsLock /\ dq'.w = dq.w
<1>1. dq' = [dq EXCEPT !.dirty = FALSE]
  BY DEF clear_dirty
<1> QED BY <1>1, ClearDirty DEF SameQueue, KeepsLock, SameWidth, Word

(* A drainer takes the lock with all the width that was free, or leaves.    *)
LEMMA EffectLock ==
  ASSUME NEW t \in Threads, Word, drain_try_lock(t)
  PROVE  /\ dq' \in States /\ dq'.sc = dq.sc /\ dq'.enq = ~dq.enq
         /\ \/ /\ dq.owner = None /\ dq.ib = 0 /\ dq.w < Width
               /\ dq'.owner = t /\ dq'.w = Width /\ dq'.pb = 0 /\ pc'[t] = "drain"
               /\ \/ BarrierFree(dq) /\ dq'.ib = 1 /\ owned'[t] = InBarrier
                  \/ ~BarrierFree(dq) /\ dq'.ib = 0 /\ owned'[t] = JustWidth(Width - dq.w)
            \/ KeepsLock /\ dq'.w = dq.w /\ owned' = owned /\ pc'[t] = "idle"
<1>1. PICK e \in BOOLEAN : e = ~dq.enq
  BY StateFields DEF Word
<1>2. PICK n : n = [dq EXCEPT !.enq = e]
  OBVIOUS
<1>3. n \in States /\ SameWidth(n, dq) /\ n.owner = dq.owner /\ n.sc = dq.sc /\ n.enq = e
  BY <1>2 DEF States, SameWidth, Word
<1>4. n = [dq EXCEPT !.enq = ~@]
  BY <1>1, <1>2
<1>5. CASE Runnable(dq) /\ ~Locked(dq)
  <2>1. dq' = LockedFor(n, t) /\ pc'[t] = "drain"
        /\ owned'[t] = IF BarrierFree(dq) THEN InBarrier ELSE JustWidth(Width - dq.w)
    BY <1>4, <1>5 DEF drain_try_lock, Goto, SetOwned, Word
  <2>2. /\ dq' \in States /\ dq'.ib = (IF BarrierFree(n) THEN 1 ELSE 0)
        /\ dq'.w = Width /\ dq'.pb = 0 /\ dq'.enq = n.enq /\ dq'.sc = n.sc /\ dq'.owner = t
    BY <1>3, <2>1, LockedForIs
  <2>3. BarrierFree(n) = BarrierFree(dq)
    BY <1>3 DEF BarrierFree, SameWidth
  <2>4. dq.owner = None /\ dq.ib = 0 /\ dq.w < Width
    BY <1>5 DEF Runnable, Locked
  <2>5. CASE BarrierFree(dq)
    BY <1>1, <1>3, <2>1, <2>2, <2>3, <2>4, <2>5
  <2>6. CASE ~BarrierFree(dq)
    BY <1>1, <1>3, <2>1, <2>2, <2>3, <2>4, <2>6
  <2> QED BY <2>5, <2>6
<1>6. CASE ~(Runnable(dq) /\ ~Locked(dq))
  <2>1. dq' = n /\ owned' = owned /\ pc'[t] = "idle"
    BY <1>4, <1>6 DEF drain_try_lock, Goto, Word
  <2> QED BY <1>1, <1>3, <2>1 DEF KeepsLock, SameWidth
<1> QED BY <1>5, <1>6

(* Choosing how to run the head moves between barrier and shared width.     *)
LEMMA EffectWidth ==
  ASSUME NEW t \in Threads, Word, drain_width(t)
  PROVE  /\ dq' \in States /\ SameQueue /\ dq'.owner = dq.owner /\ dq'.pb = dq.pb
         /\ \/ /\ owned[t] = InBarrier /\ dq'.ib = 0 /\ dq'.w = dq.w
               /\ owned'[t] = JustWidth(Width) /\ pc'[t] = "pop"
            \/ /\ owned[t] = Nothing /\ (Head(items).sync \/ dq.w < Width)
               /\ dq'.ib = dq.ib /\ dq'.w = dq.w + 1
               /\ owned'[t] = JustWidth(1) /\ pc'[t] = "pop"
            \/ /\ dq'.ib = dq.ib /\ dq'.w = dq.w /\ owned' = owned
               /\ \/ owned[t] = Nothing /\ pc'[t] = "unlock"
                  \/ owned[t].w > 0 /\ pc'[t] = "pop"
<1> USE DEF Word, States, SameQueue, Goto, SetOwned
<1>1. CASE /\ owned[t] = InBarrier /\ dq' = [dq EXCEPT !.ib = 0]
           /\ SetOwned(t, JustWidth(Width)) /\ Goto(t, "pop")
  BY <1>1
<1>2. CASE /\ owned[t] = Nothing /\ (Head(items).sync \/ AcquireAsync(dq))
           /\ dq' = [dq EXCEPT !.w = @ + 1] /\ SetOwned(t, JustWidth(1)) /\ Goto(t, "pop")
  BY <1>2 DEF AcquireAsync, Runnable
<1>3. CASE owned[t] = Nothing /\ Goto(t, "unlock") /\ UNCHANGED <<dq, owned>>
  BY <1>3
<1>4. CASE owned[t].w > 0 /\ Goto(t, "pop") /\ UNCHANGED <<dq, owned>>
  BY <1>4
<1> QED BY <1>1, <1>2, <1>3, <1>4 DEF drain_width

(* A drainer that leaves work behind gives its width back or upgrades to a barrier. *)
LEMMA EffectReenqueue ==
  ASSUME NEW t \in Threads, Word, owned[t] \in Parts, dq.ib = owned[t].ib, dq.pb = 0,
         owned[t].pb \in -1..0, reenqueue(t)
  PROVE  /\ dq' \in States /\ dq'.sc = dq.sc
         /\ \/ /\ owned[t].pb = -1 /\ dq'.enq = dq.enq /\ dq'.owner = dq.owner /\ dq'.ib = 1
               /\ dq'.w = dq.w - owned[t].w + 1 /\ dq'.pb = 0 /\ dq.w - owned[t].w < Width
               /\ owned'[t] = InBarrier /\ pc'[t] = "drain"
            \/ /\ Unlocks(owned[t]) /\ owned'[t] = Nothing
               /\ \/ dq'.enq = dq.enq /\ pc'[t] = "idle"
                  \/ dq'.enq /\ ~dq.enq /\ pc'[t] = "enqueue"
<1>1. PICK n : n = Minus(dq, owned[t])
  OBVIOUS
<1>2. dq.ib - owned[t].ib = 0
  BY StateFields DEF Word
<1>3. /\ n \in States /\ n.ib = 0 /\ n.w = dq.w - owned[t].w
      /\ n.pb = dq.pb - owned[t].pb /\ SameFlags(n, dq) /\ n.sc = dq.sc /\ n.owner = dq.owner
  BY <1>1, <1>2, MinusIs DEF Word
<1>4. CASE UpgradesToBarrier(n)
  <2>1. n.pb = 1 /\ n.w < Width
    BY <1>4 DEF UpgradesToBarrier, Runnable
  <2>2. PICK i \in Int, w \in Int, p \in Int : i = 1 /\ w = n.w + 1 /\ p = 0
    BY <1>3, StateFields
  <2>3. dq' = [n EXCEPT !.ib = i, !.w = w, !.pb = p]
    <3>1. i = n.ib + 1 /\ w = n.w + 1 /\ p = n.pb - 1
      BY <1>3, <2>1, <2>2
    <3> QED BY <1>1, <1>4, <3>1 DEF reenqueue, Interrupted
  <2>4. dq' \in States /\ SetWidth(dq', i, w, p) /\ SameFlags(dq', n) /\ dq'.sc = n.sc /\ dq'.owner = n.owner
    BY <1>3, <2>3 DEF States, SetWidth, SameFlags
  <2>5. dq'.ib = 1
    BY <2>2, <2>4 DEF SetWidth
  <2>6. owned'[t] = InBarrier /\ pc'[t] = "drain"
    BY <2>5 DEF reenqueue, Goto, SetOwned, Word
  <2>7. owned[t].pb = -1
    BY <1>3, <2>1
  <2> QED BY <1>3, <2>1, <2>2, <2>4, <2>6, <2>7 DEF SetWidth, SameFlags
<1>5. CASE ~UpgradesToBarrier(n)
  <2>1. PICK u : u = Unlock(n)
    OBVIOUS
  <2>2. u \in States /\ SameWidth(u, n) /\ SameFlags(u, n) /\ u.sc = n.sc /\ u.owner = None
    BY <1>3, <2>1, UnlockIs
  <2>3. dq' = u \/ (ShouldWakeup(u) /\ dq' = [u EXCEPT !.enq = TRUE, !.dirty = TRUE])
    BY <1>1, <1>5, <2>1 DEF reenqueue, Interrupted
  <2>4. /\ dq' \in States /\ SameWidth(dq', u) /\ dq'.sc = u.sc /\ dq'.owner = u.owner
        /\ dq'.enq = u.enq \/ (dq'.enq /\ ~u.enq)
    <3>1. CASE dq' = u
      BY <2>2, <3>1 DEF SameWidth
    <3>2. CASE ShouldWakeup(u) /\ dq' = [u EXCEPT !.enq = TRUE, !.dirty = TRUE]
      <4>1. ~u.enq
        BY <3>2 DEF ShouldWakeup
      <4>2. dq' \in States /\ SameWidth(dq', u) /\ dq'.sc = u.sc /\ dq'.owner = u.owner /\ dq'.enq
        BY <2>2, <3>2 DEF SameWidth, States
      <4> QED BY <4>1, <4>2
    <3> QED BY <2>3, <3>1, <3>2
  <2>5. dq'.ib = 0 /\ dq.enq \in BOOLEAN /\ dq'.enq \in BOOLEAN /\ u.enq = dq.enq
    BY <1>3, <2>2, <2>4, StateFields DEF SameWidth, SameFlags, Word
  <2>6. owned'[t] = Nothing /\ pc'[t] = IF dq'.enq # dq.enq THEN "enqueue" ELSE "idle"
    BY <2>5 DEF reenqueue, Goto, SetOwned, Word
  <2>7. Unlocks(owned[t])
    BY <1>2, <1>3, <2>2, <2>4 DEF Unlocks, SameWidth
  <2>8. (dq'.enq = dq.enq /\ pc'[t] = "idle") \/ (dq'.enq /\ ~dq.enq /\ pc'[t] = "enqueue")
    BY <2>4, <2>5, <2>6
  <2> QED BY <1>3, <2>2, <2>4, <2>6, <2>7, <2>8
<1> QED BY <1>4, <1>5

-----------------------------------------------------------------------------
(* The steps *)

(* What a lock transfer takes from the list: the readers at its head, one at  *)
(* least when the head is one.                                               *)
LEMMA SlowPrefixIs ==
  ASSUME items \in Seq(Items), items # <<>>, SlowReader(Head(items))
  PROVE  \E n \in 1..Len(items) : /\ SlowPrefix = SubSeq(items, 1, n)
                                  /\ \A j \in 1..n : SlowReader(items[j])
<1> DEFINE Good(m) == \A j \in 1..m : SlowReader(items[j])
           Stop(m) == Good(m) /\ (m = Len(items) \/ ~SlowReader(items[m + 1]))
           T == {d \in 0..Len(items) : Good(Len(items) - d)}
<1>1. Len(items) \in Nat /\ Len(items) > 0 /\ Head(items) = items[1]
  BY Ends
<1>2. T \subseteq Nat /\ Len(items) \in T
  BY <1>1
<1>3. PICK d \in T : \A e \in T : d =< e
  <2> HIDE DEF T
  <2> QED BY <1>2, LeastNat
<1>4. Stop(Len(items) - d)
  <2>1. d \in 0..Len(items) /\ Good(Len(items) - d)
    OBVIOUS
  <2>2. CASE d = 0
    BY <1>1, <2>1, <2>2
  <2>3. CASE d > 0 /\ SlowReader(items[Len(items) - d + 1])
    <3>1. Good(Len(items) - (d - 1))
      BY <1>1, <2>1, <2>3
    <3>2. d - 1 \in T
      BY <1>1, <2>1, <2>3, <3>1
    <3>3. d \in 0..Len(items)
      BY <2>1
    <3> HIDE DEF T, Good, Stop
    <3>4. d =< d - 1
      BY <1>3, <3>2
    <3> QED BY <1>1, <3>3, <3>4
  <2> QED BY <1>1, <2>1, <2>2, <2>3
<1>5. \E m \in 0..Len(items) : Stop(m)
  <2>1. Len(items) - d \in 0..Len(items)
    BY <1>1
  <2> HIDE DEF Stop
  <2> QED BY <1>4, <2>1
<1> DEFINE n == CHOOSE m \in 0..Len(items) : Stop(m)
<1>6. n \in 0..Len(items) /\ Stop(n)
  <2> HIDE DEF Stop
  <2> QED BY <1>5
<1>7. SlowPrefix = SubSeq(items, 1, n)
  BY DEF SlowPrefix
<1> HIDE DEF n
<1>8. n # 0
  BY <1>1, <1>6
<1> QED BY <1>1, <1>6, <1>7, <1>8

(* A drainer that leaves, or a handoff, keeps the width of the barrier at the  *)
(* head reserved.                                                            *)
Parted == [ib : 0..1, w : Int, pb : -1..0]
(* The pending barrier of a leaving drainer moves width into the pending bit, it loses none. *)
LEMMA AdjustIs ==
  ASSUME NEW o \in Parted, o.pb = 0, NEW dc, dc # None => dc.barrier \in BOOLEAN
  PROVE  LET a == AdjustOwned(o, dc)
         IN  /\ a \in Parted /\ a.ib = o.ib /\ KeptWidth(a) = o.w
             /\ a.pb # 0 => Width > 1 /\ dc # None /\ dc.barrier
             /\ dc = None => a = o
<1>1. CASE Width > 1 /\ dc # None /\ dc.barrier
  <2>1. PICK w \in Int, p \in -1..0 : w = o.w - (Width - 1) /\ p = -1
    BY WidthAssumption DEF Parted
  <2>2. PICK a : a = [o EXCEPT !.pb = p, !.w = w]
    OBVIOUS
  <2>3. p = o.pb - 1
    BY <2>1
  <2>4. AdjustOwned(o, dc) = a
    BY <1>1, <2>1, <2>2, <2>3 DEF AdjustOwned
  <2>5. a \in Parted /\ a.ib = o.ib /\ a.w = w /\ a.pb = p
    BY <2>2 DEF Parted
  <2>6. KeptWidth(a) = o.w
    BY <2>1, <2>5, WidthAssumption DEF KeptWidth, Parted
  <2> QED BY <1>1, <2>4, <2>5, <2>6
<1>2. CASE ~(Width > 1 /\ dc # None /\ dc.barrier)
  BY <1>2 DEF AdjustOwned, KeptWidth
<1> QED BY <1>1, <1>2

(* The loop of the drainer goes on with what it owns, or adjusts it and leaves. *)
LEMMA EffectDrain ==
  ASSUME NEW t \in Threads, Word, Lists, OwnsWidth(t), drain(t)
  PROVE  \/ pc'[t] \in {"pop", "width"} /\ owned' = owned
         \/ /\ pc'[t] \in {"unlock", "reenqueue"} /\ owned'[t] \in Parted
            /\ owned'[t].ib = owned[t].ib
            /\ KeptWidth(owned'[t]) = (IF owned[t].ib = 1 THEN Width ELSE owned[t].w)
            /\ owned'[t].pb # 0 => Width > 1 /\ pc'[t] = "reenqueue"
<1> USE DEF Goto, SetOwned, Word
<1>1. CASE pc'[t] \in {"pop", "width"}
  BY <1>1 DEF drain, DrainOut
<1>2. CASE pc'[t] \notin {"pop", "width"}
  <2> DEFINE o == IF owned[t] = InBarrier THEN BarrierWidth ELSE owned[t]
  <2>1. PICK dc : /\ owned'[t] = AdjustOwned(o, dc) /\ pc[t] = "drain"
                  /\ pc'[t] = IF dc = None THEN "unlock" ELSE "reenqueue"
                  /\ dc # None => items # <<>> /\ dc = Head(items)
    <3>1. CASE items = <<>>
      BY <1>2, <3>1 DEF drain, DrainOut
    <3>2. CASE items # <<>>
      BY <1>2, <3>2 DEF drain, DrainOut
    <3> QED BY <3>1, <3>2
  <2>2. dc # None => dc.barrier \in BOOLEAN
    BY <2>1, Ends, ItemFacts DEF Lists, ItemOK
  <2>3. /\ o \in Parted /\ o.pb = 0 /\ o.ib = owned[t].ib
        /\ o.w = IF owned[t].ib = 1 THEN Width ELSE owned[t].w
    BY <2>1, WidthAssumption DEF Parted, OwnsWidth, InBarrier, BarrierWidth, Draining
  <2> HIDE DEF o
  <2>4. /\ owned'[t] \in Parted /\ owned'[t].ib = o.ib /\ KeptWidth(owned'[t]) = o.w
        /\ owned'[t].pb # 0 => Width > 1 /\ dc # None
    BY <2>1, <2>2, <2>3, AdjustIs
  <2> QED BY <2>1, <2>3, <2>4
<1> QED BY <1>1, <1>2

(* A thread owns the width that belongs where it is.                         *)
LEMMA OwnsWidthStep ==
  ASSUME NEW t \in Threads, Word, ThreadsAt, RootAt, OwnsWidth(t), SeesHead(t), Lists,
         dq.w >= Reserved, Reserved \in Nat, dq.ib = 1 => dq.pb = 0,
         HasLock(t) => dq.pb = 0 /\ (dq.ib = 1 <=> Whole(t) /\ pc[t] # "redirect"),
         ~HasLock(t) /\ pc[t] \in {"complete", "redirect"} => dq.ib = 0, Moves(t)
  PROVE  OwnsWidth(t)'
<1> USE WidthAssumption, NamesAssumption
    DEF Goto, SetItem, SetOwned, SetFlags, local, history, Word, OwnsWidth, KeptWidth, Nothing,
        InBarrier, BarrierWidth, JustWidth, Draining, Leaving, Handing, Waiting, Asking,
        InCallout, Return, RunLabel
<1>1. ASSUME t \in Clients, NEW k \in uses \cap Kinds, dispatch_call(t, k)
      PROVE  OwnsWidth(t)'
  <2>1. FirstStep(Item(t, ops[t] + 1, k)) \in Asking
    BY DEF FirstStep
  <2>2. pc[t] = "idle" /\ owned' = owned /\ pc'[t] = FirstStep(Item(t, ops[t] + 1, k))
    BY <1>1 DEF dispatch_call
  <2> QED BY <2>1, <2>2
<1>2. CASE t \in Clients /\ async_f2(t)
  BY <1>2 DEF async_f2
<1>3. CASE t \in Clients /\ acquire_async(t)
  BY <1>3 DEF acquire_async
<1>4. CASE t \in Clients /\ sync_f2(t)
  BY <1>4 DEF sync_f2
<1>5. CASE t \in Clients /\ reserve_sync(t)
  BY <1>5 DEF reserve_sync
<1>6. CASE t \in Clients /\ barrier_sync(t)
  BY <1>6 DEF barrier_sync
<1>7. CASE t \in Clients /\ queue_push(t)
  BY <1>7 DEF queue_push
<1>8. CASE t \in Clients /\ sync_wait(t)
  BY <1>8 DEF sync_wait
<1>9. CASE t \in Clients /\ apply_reserve(t)
  <2>1. /\ pc'[t] = "apply_run" /\ owned'[t].w \in 0..Width
        /\ owned'[t] = JustWidth(owned'[t].w)
    <3>1. dq.w \in Nat /\ owned[t].w \in Int /\ pc[t] = "apply" /\ Word
      BY <1>9 DEF apply_reserve, States
    <3> HIDE DEF Word, OwnsWidth, JustWidth
    <3> QED BY <1>9, <3>1, EffectApply
  <2>2. PICK k \in 0..Width : owned'[t] = JustWidth(k)
    BY <2>1
  <2> QED BY <2>1, <2>2
<1>10. CASE t \in Clients /\ apply_relinquish(t)
  BY <1>10 DEF apply_relinquish
<1>11. CASE t \in Clients /\ queue_suspend(t)
  BY <1>11 DEF queue_suspend
<1>12. CASE t \in Clients /\ queue_resume(t)
  BY <1>12 DEF queue_resume
<1>13. CASE redirect(t)
  BY <1>13 DEF redirect, ThreadsAt, ClientAt, WorkerAt, Exclusive, Threads
<1>14. CASE finish(t)
  <2>1. CASE cur[t].sync /\ cur[t].barrier
    BY <1>14, <2>1 DEF finish, Exclusive
  <2>2. CASE ~(cur[t].sync /\ cur[t].barrier)
    <3>1. /\ pc[t] = "run" /\ owned' = owned
          /\ \/ pc'[t] = "drain" /\ ~cur[t].sync /\ Exclusive(cur[t])
             \/ pc'[t] = "complete" /\ ~Exclusive(cur[t])
      BY <1>14, <2>2 DEF finish
    <3>2. ~cur[t].sync => t \in Workers
      BY <3>1 DEF ThreadsAt, ClientAt, Threads
    <3> QED BY <3>1, <3>2
  <2> QED BY <2>1, <2>2
<1>15. CASE non_barrier_complete(t)
  BY <1>15 DEF non_barrier_complete
<1>16. CASE wakeup_probe(t)
  BY <1>16 DEF wakeup_probe
<1>17. CASE class_wakeup(t)
  BY <1>17 DEF class_wakeup
<1>18. CASE wakeup_enqueue(t)
  BY <1>18 DEF wakeup_enqueue
<1>19. CASE handoff(t)
  <2>1. CASE owned' = owned
    BY <1>19, <2>1 DEF handoff
  <2>2. CASE owned' # owned
    <3>1. /\ pc'[t] = "unlock_wakeup" /\ items # <<>> /\ owned[t] = BarrierWidth
          /\ owned'[t] = AdjustOwned(owned[t], Head(items))
      BY <1>19, <2>2 DEF handoff
    <3>2. Head(items) \in Items
      BY <3>1, Ends DEF Lists
    <3>3. Head(items).barrier \in BOOLEAN
      BY <3>2, ItemFacts DEF ItemOK
    <3>4. owned[t] \in Parted /\ owned[t].pb = 0 /\ owned[t].ib = 1 /\ owned[t].w = Width
      BY <3>1 DEF Parted
    <3> HIDE DEF KeptWidth
    <3>5. /\ owned'[t] \in Parted /\ owned'[t].ib = 1 /\ KeptWidth(owned'[t]) = Width
          /\ owned'[t].pb # 0 => Width > 1
      BY <3>1, <3>3, <3>4, AdjustIs
    <3> QED BY <3>1, <3>5 DEF Parted
  <2> QED BY <2>1, <2>2
<1>20. CASE handoff_pop(t)
  <2>1. /\ items \in Seq(Items) /\ items # <<>> /\ Head(items).sync
        /\ pc'[t] = "transfer" /\ pc[t] = "handoff_pop"
    BY <1>20 DEF handoff_pop, SeesHead, Lists
  <2>2. CASE Exclusive(Head(items))
    <3>1. batch'[t] = <<Head(items)>> /\ owned'[t] = Nothing
      BY <1>20, <2>2 DEF handoff_pop
    <3> QED BY <2>1, <2>2, <3>1
  <2>3. CASE ~Exclusive(Head(items))
    <3>1. batch'[t] = SlowPrefix /\ owned'[t] = [BarrierWidth EXCEPT !.w = @ - Len(SlowPrefix)]
      BY <1>20, <2>3 DEF handoff_pop
    <3>2. SlowReader(Head(items))
      BY <2>1, <2>3 DEF SlowReader
    <3>3. PICK n \in 1..Len(items) : /\ SlowPrefix = SubSeq(items, 1, n)
                                     /\ \A j \in 1..n : SlowReader(items[j])
      BY <2>1, <3>2, SlowPrefixIs
    <3>4. n \in Int /\ n >= 1 /\ Len(batch'[t]) = n /\ \A j \in 1..n : batch'[t][j] = items[j]
      <4>1. Len(items) \in Nat
        BY <2>1
      <4>2. /\ Len(SubSeq(items, 1, n)) = n
            /\ \A j \in 1..n : SubSeq(items, 1, n)[j] = items[j]
        BY <2>1, <4>1
      <4> QED BY <3>1, <3>3, <4>2
    <3>5. \A j \in 1..Len(batch'[t]) : ~Exclusive(batch'[t][j])
      BY <3>3, <3>4 DEF SlowReader
    <3>6. ~Exclusive(batch'[t][1]) /\ Width - n \in Int
      <4>1. 1 \in 1..Len(batch'[t])
        BY <3>4
      <4> QED BY <3>4, <3>5, <4>1
    <3>7. owned'[t] = [BarrierWidth EXCEPT !.w = @ - n] /\ Len(batch'[t]) = n
      BY <3>1, <3>4
    <3>8. owned'[t] = [ib |-> 1, w |-> Width - n, pb |-> 0]
      BY <3>7
    <3> QED BY <2>1, <3>5, <3>6, <3>7, <3>8
  <2> QED BY <2>2, <2>3
<1>21. CASE transfer(t)
  BY <1>21 DEF transfer
<1>22. CASE unlock_wakeup(t)
  BY <1>22 DEF unlock_wakeup
<1>23. CASE try_unlock(t, "release", "release_dirty")
  BY <1>23 DEF try_unlock
<1>24. CASE clear_dirty(t, "release_dirty", "handoff")
  BY <1>24 DEF clear_dirty
<1>25. CASE t \in Workers /\ root_pop(t)
  <2>1. pc[t] = "idle" /\ owned' = owned /\ owned[t] = Nothing
    BY <1>25 DEF root_pop
  <2>2. CASE Head(root) = DQ
    BY <1>25, <2>1, <2>2 DEF root_pop
  <2>3. CASE Head(root) # DQ
    <3>1. Reader(Head(root))
      <4>1. root # <<>> /\ RootAt
        BY <1>25 DEF root_pop
      <4>2. Head(root) = root[1] /\ 1 \in 1..Len(root)
        BY <4>1, Ends DEF RootAt
      <4> QED BY <2>3, <4>1, <4>2 DEF RootAt
    <3>2. pc'[t] = "run" /\ cur'[t] = Head(root)
      BY <1>25, <2>3 DEF root_pop
    <3> QED BY <2>1, <3>1, <3>2 DEF Reader
  <2> QED BY <2>2, <2>3
<1>26. CASE t \in Workers /\ drain_try_lock(t)
  <2>1. pc[t] = "lock"
    BY <1>26 DEF drain_try_lock
  <2>2. CASE pc'[t] = "drain"
    <3>1. /\ dq.w < Width
          /\ \/ owned'[t] = InBarrier
             \/ ~BarrierFree(dq) /\ owned'[t] = JustWidth(Width - dq.w)
      BY <1>26, <2>2, EffectLock
    <3>2. dq.w \in Nat
      BY DEF States
    <3>3. ~BarrierFree(dq) => Width > 1
      BY <3>1, <3>2 DEF BarrierFree
    <3>4. Width - dq.w \in 0..Width
      BY <3>1, <3>2
    <3> QED BY <2>2, <3>1, <3>3, <3>4
  <2>3. CASE pc'[t] # "drain"
    <3>1. pc'[t] = "idle" /\ owned' = owned
      BY <1>26, <2>3, EffectLock
    <3> QED BY <2>1, <3>1
  <2> QED BY <2>2, <2>3
<1>27. CASE t \in Workers /\ drain(t)
  <2>1. pc[t] = "drain" /\ owned[t].w \in Int
        /\ (owned[t].ib = 0 => Width > 1 /\ owned[t].w \in 0..Width)
    BY <1>27 DEF drain
  <2>2. \/ pc'[t] \in {"pop", "width"} /\ owned' = owned
        \/ /\ pc'[t] \in {"unlock", "reenqueue"} /\ owned'[t] \in Parted
           /\ owned'[t].ib = owned[t].ib
           /\ KeptWidth(owned'[t]) = (IF owned[t].ib = 1 THEN Width ELSE owned[t].w)
           /\ owned'[t].pb # 0 => Width > 1 /\ pc'[t] = "reenqueue"
    <3> HIDE DEF KeptWidth, Word, OwnsWidth
    <3> QED BY <1>27, EffectDrain
  <2>3. CASE pc'[t] \in {"pop", "width"} /\ owned' = owned
    BY <2>1, <2>3
  <2>4. CASE pc'[t] \notin {"pop", "width"}
    <3> HIDE DEF KeptWidth
    <3>1. owned'[t].ib \in 0..1 /\ owned'[t].pb \in -1..0
      BY <2>2, <2>4 DEF Parted
    <3> QED BY SMTT(60), <2>1, <2>2, <2>4, <3>1 DEF Parted
  <2> QED BY <2>2, <2>3, <2>4
<1>28. CASE t \in Workers /\ drain_width(t)
  <2>1. pc[t] = "width" /\ Width > 1
    BY <1>28 DEF drain_width, SeesHead, Exclusive
  <2>2. \/ owned'[t] = JustWidth(Width) /\ pc'[t] = "pop"
        \/ owned'[t] = JustWidth(1) /\ pc'[t] = "pop"
        \/ owned' = owned /\ owned[t] = Nothing /\ pc'[t] = "unlock"
        \/ owned' = owned /\ owned[t].w > 0 /\ pc'[t] = "pop"
    BY <1>28, EffectWidth
  <2> QED BY <2>1, <2>2
<1>29. CASE t \in Workers /\ drain_pop(t)
  <2> DEFINE dc == Head(items)
  <2>1. pc[t] = "pop"
    BY <1>29 DEF drain_pop
  <2>2. CASE Exclusive(dc)
    <3>1. owned[t] = InBarrier
      BY <2>1, <2>2 DEF SeesHead
    <3>2. \/ batch'[t] = <<dc>> /\ owned'[t] = Nothing /\ pc'[t] = "transfer"
          \/ owned' = owned /\ pc'[t] = "run" /\ cur'[t] = dc
      BY <1>29, <2>2 DEF drain_pop
    <3>3. <<dc>>[1] = dc /\ Len(<<dc>>) = 1
      OBVIOUS
    <3> HIDE DEF dc
    <3>4. CASE batch'[t] = <<dc>> /\ owned'[t] = Nothing /\ pc'[t] = "transfer"
      <4>1. Exclusive(batch'[t][1]) /\ Len(batch'[t]) = 1
        BY <2>2, <3>3, <3>4
      <4> QED BY <3>4, <4>1
    <3>5. CASE owned' = owned /\ pc'[t] = "run" /\ cur'[t] = dc
      BY <1>29, <2>2, <3>1, <3>5
    <3> QED BY <3>2, <3>4, <3>5
  <2>3. CASE ~Exclusive(dc)
    <3>1. owned[t].ib = 0 /\ owned[t].w > 0 /\ owned[t].w =< Width /\ Width > 1 /\ owned[t].pb = 0
      BY <2>1, <2>3 DEF SeesHead
    <3>2. owned'[t] = [owned[t] EXCEPT !.w = @ - 1] /\ pc'[t] \in {"drain", "redirect"}
      BY <1>29, <2>3 DEF drain_pop
    <3>3. owned[t].w - 1 \in 0..Width /\ owned[t].w - 1 < Width
      BY <3>1
    <3>4. owned'[t] \in [ib : 0..1, w : Int, pb : -1..0] /\ owned'[t].ib = 0 /\ owned'[t].pb = 0
          /\ owned'[t].w = owned[t].w - 1
      BY <3>1, <3>2, <3>3
    <3>5. owned'[t].w \in 0..Width /\ owned'[t].w >= 0 /\ owned'[t].w < Width /\ Width > 1
      BY <3>1, <3>3, <3>4
    <3>6. t \notin Clients
      BY <1>29
    <3>7. CASE pc'[t] = "drain"
      BY <3>4, <3>5, <3>7
    <3>8. CASE pc'[t] = "redirect"
      BY <3>4, <3>5, <3>6, <3>8
    <3> QED BY <3>2, <3>7, <3>8
  <2> QED BY <2>2, <2>3
<1>30. CASE t \in Workers /\ reenqueue(t)
  <2>1. CASE owned' = [owned EXCEPT ![t] = InBarrier] /\ pc' = [pc EXCEPT ![t] = "drain"]
    <3>1. owned'[t] = InBarrier /\ pc'[t] = "drain" /\ t \notin Clients
      BY <1>30, <2>1
    <3> QED BY <3>1
  <2>2. CASE /\ owned' = [owned EXCEPT ![t] = Nothing]
             /\ pc' \in {[pc EXCEPT ![t] = "enqueue"], [pc EXCEPT ![t] = "idle"]}
    <3>1. owned'[t] = Nothing /\ pc'[t] \in {"enqueue", "idle"}
      BY <1>30, <2>2
    <3> QED BY <3>1
  <2> QED BY <1>30, <2>1, <2>2 DEF reenqueue
<1>31. CASE t \in Workers /\ try_unlock(t, "unlock", "unlock_dirty")
  BY <1>31 DEF try_unlock
<1>32. CASE t \in Workers /\ clear_dirty(t, "unlock_dirty", "drain")
  <2>1. pc[t] = "unlock_dirty" /\ pc'[t] = "drain"
        /\ owned'[t] = IF owned[t].ib = 1 THEN InBarrier ELSE owned[t]
    BY <1>32 DEF clear_dirty
  <2>2. owned[t].pb = 0
    BY <2>1
  <2> QED BY <2>1, <2>2
<1> HIDE DEF Goto, SetItem, SetOwned, SetFlags, local, history, Word, OwnsWidth, KeptWidth,
             Nothing, InBarrier, BarrierWidth, JustWidth, Draining, Leaving, Handing, Waiting,
             Asking, InCallout, Return, RunLabel
<1> QED
  BY Steps, <1>1, <1>2, <1>3, <1>4, <1>5, <1>6, <1>7, <1>8, <1>9, <1>10, <1>11, <1>12, <1>13, <1>14,
     <1>15, <1>16, <1>17, <1>18, <1>19, <1>20, <1>21, <1>22, <1>23, <1>24, <1>25, <1>26, <1>27,
     <1>28, <1>29, <1>30, <1>31, <1>32

(* What the invariant says of the lock, for the lemmas below.               *)
LEMMA QueueFacts ==
  ASSUME QueueInv
  PROVE  /\ Reserved \in Nat /\ dq.w >= Reserved /\ dq.w \in Nat
         /\ dq.ib = 1 => dq.pb = 0
         /\ \A t, u \in Threads : HasLock(t) /\ HasLock(u) => t = u
         /\ \A t \in Threads :
              ~HasLock(t) /\ pc[t] \in {"complete", "redirect"} \union InCallout => dq.ib = 0
<1>1. Word /\ At /\ Owns /\ Events /\ DrainLock /\ WidthAccounting
  BY DEF QueueInv
<1>2. Reserved \in Nat
  BY WidthAssumption DEF Reserved
<1>3. dq.w \in Int /\ dq.w >= Reserved
  BY <1>1, <1>2, TakenBound, StateFields DEF At, Word
<1>4. dq.ib = 1 => dq.pb = 0
  BY <1>1, Alone
<1>5. \A t, u \in Threads : HasLock(t) /\ HasLock(u) => t = u
  BY <1>1 DEF DrainLock
<1>6. ASSUME NEW t \in Threads, ~HasLock(t), dq.ib # 0,
             pc[t] \in {"complete", "redirect"} \union InCallout
      PROVE  FALSE
  <2>1. dq.ib = 1
    BY <1>1, <1>6 DEF Word
  <2>2. Taken(t) = 0
    BY <1>1, <1>6, <2>1, Alone DEF DrainLock
  <2>3. t \notin signaled
    BY <1>1, <1>6 DEF Events, Waiting, InCallout
  <2>4. Held(t) = 0 /\ OwnsWidth(t)
    BY <1>1, <2>2, <2>3, TakenIs DEF At, Owns
  <2>5. owned[t].w >= 0
    BY <1>6, <2>4 DEF OwnsWidth, Nothing, InBarrier, InCallout
  <2>6. owned[t].w \in Int
    BY <2>4 DEF OwnsWidth
  <2>7. Held(t) = IF pc[t] = "complete" THEN 1 ELSE 1 + owned[t].w
    BY <1>6, <2>4, HeldIs DEF InCallout, HasLock
  <2> QED BY <1>6, <2>4, <2>5, <2>6, <2>7
<1> QED BY <1>2, <1>3, <1>4, <1>5, <1>6

(* What the thread that moves saw of the list, and what it does to it.       *)
LEMMA SeesHeadStep ==
  ASSUME NEW t \in Threads, Word, OwnsWidth(t), SeesHead(t), Moves(t)
  PROVE  SeesHead(t)'
<1> USE WidthAssumption, NamesAssumption
    DEF Goto, SetItem, SetOwned, SetFlags, local, history, Word, SeesHead, Return, RunLabel,
        Waiting, Asking, Draining
<1>1. ASSUME t \in Clients, NEW k \in uses \cap Kinds, dispatch_call(t, k)
      PROVE  SeesHead(t)'
  BY <1>1 DEF dispatch_call, FirstStep
<1>2. CASE t \in Clients /\ async_f2(t)
  BY <1>2 DEF async_f2
<1>3. CASE t \in Clients /\ acquire_async(t)
  BY <1>3 DEF acquire_async
<1>4. CASE t \in Clients /\ sync_f2(t)
  BY <1>4 DEF sync_f2
<1>5. CASE t \in Clients /\ reserve_sync(t)
  BY <1>5 DEF reserve_sync
<1>6. CASE t \in Clients /\ barrier_sync(t)
  BY <1>6 DEF barrier_sync
<1>7. CASE t \in Clients /\ queue_push(t)
  BY <1>7 DEF queue_push
<1>8. CASE t \in Clients /\ sync_wait(t)
  BY <1>8 DEF sync_wait
<1>9. CASE t \in Clients /\ apply_reserve(t)
  BY <1>9 DEF apply_reserve
<1>10. CASE t \in Clients /\ apply_relinquish(t)
  BY <1>10 DEF apply_relinquish
<1>11. CASE t \in Clients /\ queue_suspend(t)
  BY <1>11 DEF queue_suspend
<1>12. CASE t \in Clients /\ queue_resume(t)
  BY <1>12 DEF queue_resume
<1>13. CASE redirect(t)
  BY <1>13 DEF redirect
<1>14. CASE finish(t)
  BY <1>14 DEF finish
<1>15. CASE non_barrier_complete(t)
  BY <1>15 DEF non_barrier_complete
<1>16. CASE wakeup_probe(t)
  BY <1>16 DEF wakeup_probe
<1>17. CASE class_wakeup(t)
  BY <1>17 DEF class_wakeup
<1>18. CASE wakeup_enqueue(t)
  BY <1>18 DEF wakeup_enqueue
<1>19. CASE handoff(t)
  BY <1>19 DEF handoff
<1>20. CASE handoff_pop(t)
  BY <1>20 DEF handoff_pop
<1>21. CASE transfer(t)
  BY <1>21 DEF transfer
<1>22. CASE unlock_wakeup(t)
  BY <1>22 DEF unlock_wakeup
<1>23. CASE try_unlock(t, "release", "release_dirty")
  BY <1>23 DEF try_unlock
<1>24. CASE clear_dirty(t, "release_dirty", "handoff")
  BY <1>24 DEF clear_dirty
<1>25. CASE t \in Workers /\ root_pop(t)
  BY <1>25 DEF root_pop
<1>26. CASE t \in Workers /\ drain_try_lock(t)
  BY <1>26 DEF drain_try_lock
<1>27. CASE t \in Workers /\ drain(t)
  <2>1. owned[t] = InBarrier \/ Width > 1
    BY <1>27 DEF drain, OwnsWidth
  <2>2. CASE pc'[t] \in {"pop", "width"}
    BY <1>27, <2>1, <2>2 DEF drain, DrainOut, Exclusive
  <2>3. CASE pc'[t] \notin {"pop", "width"}
    <3>1. pc'[t] \in {"unlock", "reenqueue"}
      BY <1>27, <2>3 DEF drain, DrainOut
    <3> QED BY <3>1
  <2> QED BY <2>2, <2>3
<1>28. CASE t \in Workers /\ drain_width(t)
  <2>1. pc[t] = "width" /\ items' = items /\ items # <<>> /\ ~Exclusive(Head(items))
    BY <1>28 DEF drain_width
  <2>2. owned[t] # InBarrier => owned[t].ib = 0
    BY <2>1 DEF OwnsWidth
  <2>3. \/ owned'[t] = JustWidth(Width) /\ pc'[t] = "pop"
        \/ owned'[t] = JustWidth(1) /\ pc'[t] = "pop"
        \/ pc'[t] = "unlock"
        \/ owned' = owned /\ owned[t].w > 0 /\ pc'[t] = "pop"
    BY <1>28, EffectWidth
  <2> QED BY <2>1, <2>2, <2>3 DEF JustWidth, InBarrier
<1>29. CASE t \in Workers /\ drain_pop(t)
  BY <1>29 DEF drain_pop
<1>30. CASE t \in Workers /\ reenqueue(t)
  BY <1>30 DEF reenqueue
<1>31. CASE t \in Workers /\ try_unlock(t, "unlock", "unlock_dirty")
  BY <1>31 DEF try_unlock
<1>32. CASE t \in Workers /\ clear_dirty(t, "unlock_dirty", "drain")
  BY <1>32 DEF clear_dirty
<1> HIDE DEF Goto, SetItem, SetOwned, SetFlags, local, history, Word, SeesHead, Return, RunLabel,
             Waiting, Asking, Draining
<1> QED
  BY Steps, <1>1, <1>2, <1>3, <1>4, <1>5, <1>6, <1>7, <1>8, <1>9, <1>10, <1>11, <1>12, <1>13, <1>14,
     <1>15, <1>16, <1>17, <1>18, <1>19, <1>20, <1>21, <1>22, <1>23, <1>24, <1>25, <1>26, <1>27,
     <1>28, <1>29, <1>30, <1>31, <1>32

(* The list grows at its end, and shrinks for the lock's holder.             *)
LEMMA ItemsStep ==
  ASSUME NEW t \in Threads, Word, Moves(t)
  PROVE  \/ items' = items
         \/ t \in Clients /\ pc[t] = "push" /\ items' = Append(items, cur[t])
         \/ pc[t] \in {"pop", "handoff_pop"}
<1> USE WidthAssumption, NamesAssumption
    DEF Goto, SetItem, SetOwned, SetFlags, local, history
<1>1. ASSUME t \in Clients, NEW k \in uses \cap Kinds, dispatch_call(t, k)
      PROVE  \/ items' = items
             \/ t \in Clients /\ pc[t] = "push" /\ items' = Append(items, cur[t])
             \/ pc[t] \in {"pop", "handoff_pop"}
  BY <1>1 DEF dispatch_call
<1>2. CASE t \in Clients /\ async_f2(t)
  BY <1>2 DEF async_f2
<1>3. CASE t \in Clients /\ acquire_async(t)
  BY <1>3 DEF acquire_async
<1>4. CASE t \in Clients /\ sync_f2(t)
  BY <1>4 DEF sync_f2
<1>5. CASE t \in Clients /\ reserve_sync(t)
  BY <1>5 DEF reserve_sync
<1>6. CASE t \in Clients /\ barrier_sync(t)
  BY <1>6 DEF barrier_sync
<1>7. CASE t \in Clients /\ queue_push(t)
  BY <1>7 DEF queue_push
<1>8. CASE t \in Clients /\ sync_wait(t)
  BY <1>8 DEF sync_wait
<1>9. CASE t \in Clients /\ apply_reserve(t)
  BY <1>9 DEF apply_reserve
<1>10. CASE t \in Clients /\ apply_relinquish(t)
  BY <1>10 DEF apply_relinquish
<1>11. CASE t \in Clients /\ queue_suspend(t)
  BY <1>11 DEF queue_suspend
<1>12. CASE t \in Clients /\ queue_resume(t)
  BY <1>12 DEF queue_resume
<1>13. CASE redirect(t)
  BY <1>13 DEF redirect
<1>14. CASE finish(t)
  BY <1>14 DEF finish
<1>15. CASE non_barrier_complete(t)
  BY <1>15 DEF non_barrier_complete
<1>16. CASE wakeup_probe(t)
  BY <1>16 DEF wakeup_probe
<1>17. CASE class_wakeup(t)
  BY <1>17 DEF class_wakeup
<1>18. CASE wakeup_enqueue(t)
  BY <1>18 DEF wakeup_enqueue
<1>19. CASE handoff(t)
  BY <1>19 DEF handoff
<1>20. CASE handoff_pop(t)
  BY <1>20 DEF handoff_pop
<1>21. CASE transfer(t)
  BY <1>21 DEF transfer
<1>22. CASE unlock_wakeup(t)
  BY <1>22 DEF unlock_wakeup
<1>23. CASE try_unlock(t, "release", "release_dirty")
  BY <1>23 DEF try_unlock
<1>24. CASE clear_dirty(t, "release_dirty", "handoff")
  BY <1>24 DEF clear_dirty
<1>25. CASE t \in Workers /\ root_pop(t)
  BY <1>25 DEF root_pop
<1>26. CASE t \in Workers /\ drain_try_lock(t)
  BY <1>26 DEF drain_try_lock
<1>27. CASE t \in Workers /\ drain(t)
  BY <1>27 DEF drain
<1>28. CASE t \in Workers /\ drain_width(t)
  BY <1>28 DEF drain_width
<1>29. CASE t \in Workers /\ drain_pop(t)
  BY <1>29 DEF drain_pop
<1>30. CASE t \in Workers /\ reenqueue(t)
  BY <1>30 DEF reenqueue
<1>31. CASE t \in Workers /\ try_unlock(t, "unlock", "unlock_dirty")
  BY <1>31 DEF try_unlock
<1>32. CASE t \in Workers /\ clear_dirty(t, "unlock_dirty", "drain")
  BY <1>32 DEF clear_dirty
<1> HIDE DEF Goto, SetItem, SetOwned, SetFlags, local, history
<1> QED
  BY Steps, <1>1, <1>2, <1>3, <1>4, <1>5, <1>6, <1>7, <1>8, <1>9, <1>10, <1>11, <1>12, <1>13, <1>14,
     <1>15, <1>16, <1>17, <1>18, <1>19, <1>20, <1>21, <1>22, <1>23, <1>24, <1>25, <1>26, <1>27,
     <1>28, <1>29, <1>30, <1>31, <1>32

(* The head that a drainer has seen stays at the head.                         *)
LEMMA HeadStays ==
  ASSUME QueueInv, NEW t \in Threads, Moves(t), NEW u \in Threads \ {t},
         pc[u] \in {"width", "pop", "handoff_pop"}
  PROVE  items' # <<>> /\ Head(items') = Head(items)
<1>1. Word /\ ThreadsAt /\ SeesHead(u) /\ Lists
  BY DEF QueueInv, At, Owns
<1>2. HasLock(u) /\ items # <<>> /\ items \in Seq(Items)
  BY <1>1 DEF HasLock, Draining, Handing, SeesHead, Lists
<1>3. ~HasLock(t)
  BY <1>2, QueueFacts
<1>4. pc[t] \notin {"pop", "handoff_pop"}
  BY <1>3 DEF HasLock, Draining, Handing
<1>5. items' = items \/ (t \in Clients /\ pc[t] = "push" /\ items' = Append(items, cur[t]))
  BY <1>1, <1>4, ItemsStep
<1>6. pc[t] = "push" /\ t \in Clients => cur[t] \in Items
  BY <1>1 DEF ThreadsAt, ClientAt, ItemOK, Asking
<1> QED BY <1>2, <1>5, <1>6

(* What a drainer has seen of the list, and owns, stays so.                   *)
LEMMA OwnsStep ==
  ASSUME QueueInv, NEW t \in Threads, Moves(t)
  PROVE  Owns'
<1>1. Word /\ ThreadsAt /\ RootAt /\ Owns /\ DrainLock /\ Lists /\ AloneMoves(t)
  BY OneThread DEF QueueInv, At
<1>2. OwnsWidth(t)' /\ SeesHead(t)'
  <2>1. OwnsWidth(t) /\ SeesHead(t)
    BY <1>1 DEF Owns
  <2>2. /\ dq.w >= Reserved /\ Reserved \in Nat /\ (dq.ib = 1 => dq.pb = 0)
        /\ ~HasLock(t) /\ pc[t] \in {"complete", "redirect"} => dq.ib = 0
    BY QueueFacts
  <2>3. HasLock(t) => dq.pb = 0 /\ (dq.ib = 1 <=> Whole(t) /\ pc[t] # "redirect")
    BY <1>1 DEF DrainLock
  <2> QED BY <1>1, <2>1, <2>2, <2>3, OwnsWidthStep, SeesHeadStep
<1>3. ASSUME NEW u \in Threads \ {t}
      PROVE  OwnsWidth(u)' /\ SeesHead(u)'
  <2>1. OwnsWidth(u) /\ SeesHead(u)
    BY <1>1 DEF Owns
  <2>2. pc'[u] = pc[u] /\ cur'[u] = cur[u] /\ owned'[u] = owned[u] /\ batch'[u] = batch[u]
    BY <1>1 DEF AloneMoves
  <2>3. OwnsWidth(u)'
    BY <2>1, <2>2 DEF OwnsWidth
  <2>4. CASE pc[u] \in {"width", "pop", "handoff_pop"}
    BY <2>1, <2>2, <2>3, <2>4, HeadStays DEF SeesHead
  <2>5. CASE pc[u] \notin {"width", "pop", "handoff_pop"}
    BY <2>2, <2>3, <2>5 DEF SeesHead
  <2> QED BY <2>3, <2>4, <2>5
<1> QED BY <1>2, <1>3 DEF Owns

\* What one step does to the drain lock: its thread keeps what it has or has not,
\* takes it, gives it up, or goes on with another claim to the width.
Barred(t) == Whole(t) /\ pc[t] # "redirect"
LockMove(t) ==
  \/ /\ KeepsLock /\ (HasLock(t)' <=> HasLock(t)) /\ (dq'.w = dq.w \/ dq.ib = 0)
     /\ HasLock(t) => (Barred(t)' <=> Barred(t))
  \/ /\ dq.owner = None /\ dq'.owner = t /\ HasLock(t)' /\ dq'.pb = 0 /\ dq'.w = Width
     /\ dq'.ib \in 0..1 /\ (dq'.ib = 1 <=> Barred(t)')
  \/ HasLock(t) /\ dq'.owner = None /\ dq'.ib = 0 /\ dq'.pb \in 0..1 /\ ~HasLock(t)'
  \/ /\ HasLock(t) /\ dq'.owner = dq.owner /\ HasLock(t)' /\ dq'.pb = 0
     /\ dq'.ib \in 0..1 /\ (dq'.ib = 1 <=> Barred(t)') /\ (dq'.ib = 1 => dq'.w = Width)
\* What a step may assume of its thread.
AtHand(t) ==
  /\ OwnsWidth(t) /\ SeesHead(t)
  /\ t \in signaled => t \in Clients /\ pc[t] \in Waiting
  /\ HasLock(t) <=> dq.owner = t
  /\ HasLock(t) => dq.pb = 0 /\ (dq.ib = 1 <=> Barred(t)) /\ dq.w >= Held(t)
  /\ ~HasLock(t) /\ pc[t] \in {"complete", "redirect"} \union InCallout => dq.ib = 0

(* The lock and the barrier bit are as the step a thread is at requires.    *)
LEMMA AtHandIs ==
  ASSUME QueueInv, NEW t \in Threads
  PROVE  AtHand(t)
<1>1. OwnsWidth(t) /\ SeesHead(t)
  BY DEF QueueInv, Owns
<1>2. t \in signaled => t \in Clients /\ pc[t] \in Waiting
  BY DEF QueueInv, Events
<1>3. (HasLock(t) <=> dq.owner = t) /\ (HasLock(t) => dq.pb = 0 /\ (dq.ib = 1 <=> Barred(t)))
  BY DEF QueueInv, DrainLock, Barred
<1>4. ~HasLock(t) /\ pc[t] \in {"complete", "redirect"} \union InCallout => dq.ib = 0
  BY QueueFacts
<1>5. dq.w >= Held(t)
  <2>1. WidthAccounting /\ RootAt /\ ThreadsAt /\ Owns /\ Events
    BY DEF QueueInv, At
  <2>2. dq.w >= Taken(t) /\ Taken(t) \in 0..(Width + 1)
    BY <2>1, TakenBound, QueueFacts, WidthAssumption
  <2>3. CASE t \notin signaled
    BY <2>1, <2>2, <2>3, TakenIs
  <2>4. CASE t \in signaled
    <3>1. Held(t) = 0
      BY <1>1, <1>2, <2>4, HeldIs
          DEF OwnsWidth, KeptWidth, Nothing, Waiting, InCallout, Draining
    <3> QED BY <3>1, QueueFacts
  <2> QED BY <2>3, <2>4
<1> QED BY <1>1, <1>2, <1>3, <1>4, <1>5 DEF AtHand

(* What every step but a transfer does to the drain lock.                    *)
LEMMA LockStep ==
  ASSUME NEW t \in Threads, Word, ThreadsAt, RootAt, Lists, AtHand(t), dq.w >= Reserved, Moves(t)
  PROVE  pc[t] = "transfer" \/ LockMove(t)
<1> USE WidthAssumption, NamesAssumption
    DEF Goto, SetItem, SetOwned, SetFlags, local, history, Word, ThreadsAt, ClientAt, WorkerAt,
        AtHand, LockMove, KeepsLock, HasLock, Barred, Whole, Asking, Waiting, Handing, Draining,
        Leaving, InCallout, Return, RunLabel, Threads
<1>1. ASSUME t \in Clients, NEW k \in uses \cap Kinds, dispatch_call(t, k)
      PROVE  pc[t] = "transfer" \/ LockMove(t)
  <2>1. pc[t] = "idle" /\ pc'[t] \in Asking /\ dq' = dq /\ signaled' = signaled
    BY <1>1 DEF dispatch_call, FirstStep
  <2> QED BY <2>1
<1>2. CASE t \in Clients /\ async_f2(t)
  BY <1>2 DEF async_f2
<1>3. CASE t \in Clients /\ acquire_async(t)
  <2>1. /\ KeepsLock /\ pc[t] = "acquire_async" /\ signaled' = signaled
        /\ pc'[t] \in {"push", "redirect"} /\ (dq'.w = dq.w \/ dq.ib = 0)
    <3> HIDE DEF KeepsLock, Word
    <3> QED BY <1>3, EffectReserve DEF acquire_async
  <2> QED BY <1>3, <2>1, NamesAssumption
<1>4. CASE t \in Clients /\ sync_f2(t)
  BY <1>4 DEF sync_f2
<1>5. CASE t \in Clients /\ reserve_sync(t)
  <2>1. /\ KeepsLock /\ pc[t] = "reserve_sync" /\ signaled' = signaled /\ cur' = cur
        /\ pc'[t] \in {"push", "run", "apply"} /\ (dq'.w = dq.w \/ dq.ib = 0)
    <3> HIDE DEF KeepsLock, Word
    <3> QED BY <1>5, EffectReserve DEF reserve_sync
  <2>2. ~Exclusive(cur[t])
    BY <1>5, <2>1
  <2> QED BY <1>5, <2>1, <2>2
<1>6. CASE t \in Clients /\ barrier_sync(t)
  <2>1. /\ pc[t] = "barrier_sync" /\ signaled' = signaled /\ cur' = cur
        /\ \/ TakesBarrier(t, 0) /\ pc'[t] \in {"run", "apply"}
           \/ KeepsLock /\ dq'.w = dq.w /\ pc'[t] = "push"
    <3> HIDE DEF KeepsLock, Word
    <3> QED BY Zenon, <1>6, EffectBarrierSync DEF barrier_sync
  <2>2. Exclusive(cur[t])
    BY <1>6, <2>1
  <2> QED BY SMTT(60), <1>6, <2>1, <2>2 DEF TakesBarrier
<1>7. CASE t \in Clients /\ queue_push(t)
  BY <1>7 DEF queue_push
<1>8. CASE t \in Clients /\ sync_wait(t)
  BY <1>8 DEF sync_wait
<1>9. CASE t \in Clients /\ apply_reserve(t)
  <2>1. pc[t] = "apply" /\ signaled' = signaled /\ cur' = cur /\ ~Exclusive(cur[t])
    BY <1>9 DEF apply_reserve, ItemOK
  <2>2. KeepsLock /\ pc'[t] = "apply_run"
    BY <1>9, <2>1 DEF apply_reserve, States
  <2> QED BY <1>9, <2>1, <2>2
<1>10. CASE t \in Clients /\ apply_relinquish(t)
  <2>1. pc[t] = "apply_run" /\ signaled' = signaled /\ cur' = cur /\ ~Exclusive(cur[t])
    BY <1>10 DEF apply_relinquish, ItemOK
  <2>2. KeepsLock /\ pc'[t] = "run"
    BY <1>10, <2>1 DEF apply_relinquish, States
  <2> QED BY <1>10, <2>1, <2>2
<1>11. CASE t \in Clients /\ queue_suspend(t)
  BY <1>11 DEF queue_suspend
<1>12. CASE t \in Clients /\ queue_resume(t)
  <2>1. /\ pc[t] = "suspended" /\ signaled' = signaled
        /\ \/ TakesBarrier(t, 0) /\ pc'[t] = "handoff"
           \/ KeepsLock /\ dq'.w = dq.w /\ pc'[t] \in {"probe", "idle"}
    <3> HIDE DEF KeepsLock, Word
    <3> QED BY SMTT(60), <1>12, EffectResume DEF queue_resume
  <2> QED BY <1>12, <2>1 DEF TakesBarrier
<1>13. CASE redirect(t)
  <2>1. /\ pc[t] = "redirect" /\ dq' = dq /\ signaled' = signaled /\ owned' = owned
        /\ pc'[t] = IF t \in Workers THEN "drain" ELSE "idle"
    BY <1>13 DEF redirect
  <2>2. owned[t].ib = 0 /\ t \notin signaled
    BY <2>1 DEF OwnsWidth
  <2>3. CASE t \in Workers
    BY <2>1, <2>2, <2>3
  <2>4. CASE t \notin Workers
    BY SMTT(60), <2>1, <2>2, <2>4
  <2> QED BY <2>3, <2>4
<1>14. CASE finish(t)
  <2>1. /\ pc[t] = "run" /\ dq' = dq /\ signaled' = signaled /\ cur' = cur /\ t \notin signaled
        /\ \/ cur[t].sync /\ cur[t].barrier /\ pc'[t] = "handoff"
           \/ ~cur[t].sync /\ Exclusive(cur[t]) /\ pc'[t] = "drain" /\ owned' = owned
           \/ ~Exclusive(cur[t]) /\ pc'[t] = "complete"
    BY <1>14 DEF finish
  <2>2. CASE cur[t].sync /\ cur[t].barrier /\ pc'[t] = "handoff"
    BY <2>1, <2>2 DEF Exclusive
  <2>3. CASE ~cur[t].sync /\ Exclusive(cur[t]) /\ pc'[t] = "drain" /\ owned' = owned
    <3>1. t \in Workers
      BY <2>1, <2>3
    <3>2. owned[t].ib = 1
      BY <2>1, <2>3, <3>1 DEF OwnsWidth, InBarrier
    <3> QED BY <2>1, <2>3, <3>2
  <2>4. CASE ~Exclusive(cur[t]) /\ pc'[t] = "complete"
    BY <2>1, <2>4
  <2> QED BY <2>1, <2>2, <2>3, <2>4
<1>15. CASE non_barrier_complete(t)
  <2>1. /\ pc[t] = "complete" /\ signaled' = signaled /\ cur' = cur /\ t \notin signaled
        /\ ~HasLock(t) /\ dq.ib = 0
    BY <1>15 DEF non_barrier_complete
  <2>2. \/ TakesBarrier(t, 1) /\ pc'[t] = "handoff"
        \/ KeepsLock /\ pc'[t] \in {"probe", "wait", "idle"}
    <3> HIDE DEF KeepsLock, Word
    <3> QED BY <1>15, <2>1, EffectComplete
  <2> QED BY <2>1, <2>2 DEF TakesBarrier
<1>16. CASE wakeup_probe(t)
  BY <1>16 DEF wakeup_probe
<1>17. CASE class_wakeup(t)
  <2>1. pc[t] = "wakeup" /\ signaled' = signaled /\ cur' = cur
    BY <1>17 DEF class_wakeup
  <2>2. \/ TakesBarrier(t, 0) /\ pc'[t] = "handoff"
        \/ KeepsLock /\ dq'.w = dq.w /\ pc'[t] \in {"enqueue", "wait", "idle"}
    <3> HIDE DEF KeepsLock, Word
    <3> QED BY <1>17, EffectWakeup
  <2> QED BY <2>1, <2>2 DEF TakesBarrier
<1>18. CASE wakeup_enqueue(t)
  BY <1>18 DEF wakeup_enqueue
<1>19. CASE handoff(t)
  BY <1>19 DEF handoff
<1>20. CASE handoff_pop(t)
  BY <1>20 DEF handoff_pop
<1>21. CASE transfer(t)
  BY <1>21 DEF transfer
<1>22. CASE unlock_wakeup(t)
  <2>1. pc[t] = "unlock_wakeup" /\ signaled' = signaled /\ t \notin signaled
    BY <1>22 DEF unlock_wakeup
  <2>2. owned[t] \in Parts /\ owned[t].ib = 1 /\ owned[t].pb \in -1..0 /\ dq.pb = 0
    BY <2>1 DEF OwnsWidth, Parts
  <2>3. Unlocks(owned[t]) /\ pc'[t] \in {"probe", "wait", "idle"}
    <3> HIDE DEF Word
    <3> QED BY <1>22, <2>2, EffectUnlockWakeup
  <2> QED BY <2>1, <2>2, <2>3 DEF Unlocks
<1>23. CASE try_unlock(t, "release", "release_dirty")
  <2>1. pc[t] = "release" /\ signaled' = signaled /\ t \notin signaled
    BY <1>23 DEF try_unlock
  <2>2. owned[t] \in Parts /\ owned[t].ib = 1 /\ owned[t].pb \in -1..0 /\ dq.pb = 0
    BY <2>1 DEF OwnsWidth, Parts, BarrierWidth
  <2>3. \/ KeepsLock /\ dq'.w = dq.w /\ pc'[t] = "release_dirty"
        \/ Unlocks(owned[t]) /\ pc'[t] \in {"wait", "idle"}
    <3> HIDE DEF Word, KeepsLock
    <3> QED BY <1>23, <2>2, EffectTryUnlock
  <2> QED BY <2>1, <2>2, <2>3 DEF Unlocks
<1>24. CASE clear_dirty(t, "release_dirty", "handoff")
  BY SMTT(60), <1>24 DEF clear_dirty
<1>25. CASE t \in Workers /\ root_pop(t)
  <2>1. pc[t] = "idle" /\ dq' = dq /\ signaled' = signaled /\ t \notin signaled
    BY <1>25 DEF root_pop
  <2>2. CASE Head(root) = DQ
    BY <1>25, <2>1, <2>2 DEF root_pop
  <2>3. CASE Head(root) # DQ
    <3>1. Reader(Head(root))
      <4>1. root # <<>> /\ RootAt
        BY <1>25 DEF root_pop
      <4>2. Head(root) = root[1] /\ 1 \in 1..Len(root)
        BY <4>1, Ends DEF RootAt
      <4> QED BY <2>3, <4>1, <4>2 DEF RootAt
    <3>2. pc'[t] = "run" /\ cur'[t] = Head(root)
      BY <1>25, <2>3 DEF root_pop
    <3> QED BY <2>1, <3>1, <3>2 DEF Reader
  <2> QED BY <2>2, <2>3
<1>26. CASE t \in Workers /\ drain_try_lock(t)
  <2>1. pc[t] = "lock" /\ signaled' = signaled /\ t \notin signaled /\ ~HasLock(t)
    BY <1>26 DEF drain_try_lock
  <2>2. \/ /\ dq.owner = None /\ dq'.owner = t /\ dq'.w = Width /\ dq'.pb = 0 /\ pc'[t] = "drain"
           /\ \/ dq'.ib = 1 /\ owned'[t] = InBarrier
              \/ dq'.ib = 0 /\ owned'[t] = JustWidth(Width - dq.w)
        \/ KeepsLock /\ dq'.w = dq.w /\ pc'[t] = "idle"
    <3> HIDE DEF Word, KeepsLock
    <3> QED BY <1>26, EffectLock
  <2> QED BY <2>1, <2>2 DEF InBarrier, JustWidth
<1>27. CASE t \in Workers /\ drain(t)
  <2>1. pc[t] = "drain" /\ dq' = dq /\ signaled' = signaled /\ t \notin signaled
    BY <1>27 DEF drain
  <2>2. pc'[t] \in {"pop", "width", "unlock", "reenqueue"} /\ owned'[t].ib = owned[t].ib
    <3> HIDE DEF Word
    <3> QED BY SMTT(60), <1>27, EffectDrain
  <2> QED BY <2>1, <2>2
<1>28. CASE t \in Workers /\ drain_width(t)
  <2>1. pc[t] = "width" /\ signaled' = signaled /\ t \notin signaled
    BY <1>28 DEF drain_width
  <2>2. /\ dq'.owner = dq.owner /\ dq'.pb = dq.pb
        /\ \/ /\ owned[t] = InBarrier /\ dq'.ib = 0
              /\ owned'[t] = JustWidth(Width) /\ pc'[t] = "pop"
           \/ /\ owned[t] = Nothing /\ dq'.ib = dq.ib
              /\ owned'[t] = JustWidth(1) /\ pc'[t] = "pop"
           \/ /\ dq'.ib = dq.ib /\ dq'.w = dq.w /\ owned' = owned /\ pc'[t] \in {"unlock", "pop"}
    <3> HIDE DEF Word
    <3> QED BY <1>28, EffectWidth
  <2>3. HasLock(t) /\ HasLock(t)' /\ dq.owner = t /\ dq.pb = 0 /\ dq.ib \in 0..1
    BY <2>1, <2>2
  <2>4. CASE owned[t] = InBarrier /\ dq'.ib = 0 /\ owned'[t] = JustWidth(Width) /\ pc'[t] = "pop"
    BY <2>2, <2>3, <2>4 DEF JustWidth
  <2>5. CASE owned[t] = Nothing /\ dq'.ib = dq.ib /\ owned'[t] = JustWidth(1) /\ pc'[t] = "pop"
    <3>1. dq.ib = 0
      BY <2>1, <2>3, <2>5 DEF Nothing
    <3> QED BY <2>2, <2>3, <2>5, <3>1 DEF JustWidth
  <2>6. CASE dq'.ib = dq.ib /\ dq'.w = dq.w /\ owned' = owned /\ pc'[t] \in {"unlock", "pop"}
    BY SMTT(60), <2>1, <2>2, <2>3, <2>6
  <2> QED BY <2>2, <2>4, <2>5, <2>6
<1>29. CASE t \in Workers /\ drain_pop(t)
  <2> DEFINE dc == Head(items)
  <2>1. pc[t] = "pop" /\ dq' = dq /\ t \notin signaled /\ dq.ib \in 0..1 /\ HasLock(t)
    BY <1>29 DEF drain_pop
  <2>2. CASE Exclusive(dc)
    <3>1. owned[t] = InBarrier
      BY <2>1, <2>2 DEF SeesHead
    <3>2. signaled' = signaled /\ (pc'[t] = "transfer" \/ (pc'[t] = "run" /\ cur'[t] = dc))
      BY <1>29, <2>2 DEF drain_pop
    <3> HIDE DEF dc
    <3> QED BY <2>1, <2>2, <3>1, <3>2 DEF InBarrier
  <2>3. CASE ~Exclusive(dc)
    <3>1. owned[t].ib = 0 /\ owned[t] \in [ib : 0..1, w : Int, pb : -1..0]
      BY <2>1, <2>3 DEF SeesHead, OwnsWidth
    <3>2. owned'[t] = [owned[t] EXCEPT !.w = @ - 1] /\ pc'[t] \in {"drain", "redirect"}
      BY <1>29, <2>3 DEF drain_pop
    <3>3. owned'[t].ib = 0
      BY <3>1, <3>2
    <3>4. HasLock(t)' /\ ~Barred(t) /\ ~Barred(t)'
      BY SMTT(60), <1>29, <2>1, <3>1, <3>2, <3>3
    <3> QED BY <2>1, <3>4
  <2> QED BY <2>2, <2>3
<1>30. CASE t \in Workers /\ reenqueue(t)
  <2>1. pc[t] = "reenqueue" /\ signaled' = signaled /\ t \notin signaled /\ HasLock(t)
    BY <1>30 DEF reenqueue
  <2>2. /\ owned[t] \in Parts /\ owned[t].ib \in 0..1 /\ owned[t].w \in Int
        /\ owned[t].pb \in -1..0
    BY DEF OwnsWidth, Parts
  <2>3. dq.ib = owned[t].ib /\ dq.pb = 0
    BY <2>1, <2>2
  <2>4. \/ /\ owned[t].pb = -1 /\ dq'.owner = dq.owner /\ dq'.ib = 1
           /\ dq'.w = dq.w - owned[t].w + 1 /\ dq'.pb = 0 /\ dq.w - owned[t].w < Width
           /\ owned'[t] = InBarrier /\ pc'[t] = "drain"
        \/ Unlocks(owned[t]) /\ pc'[t] \in {"idle", "enqueue"}
    <3> HIDE DEF Word
    <3> QED BY <1>30, <2>2, <2>3, EffectReenqueue
  <2>5. CASE /\ owned[t].pb = -1 /\ dq'.owner = dq.owner /\ dq'.ib = 1
             /\ dq'.w = dq.w - owned[t].w + 1 /\ dq'.pb = 0 /\ dq.w - owned[t].w < Width
             /\ owned'[t] = InBarrier /\ pc'[t] = "drain"
    <3>1. dq.w >= owned[t].w + (Width - 1) /\ dq.w \in Int
      <4>1. dq.w >= Held(t)
        BY <2>1
      <4>2. Held(t) = KeptWidth(owned[t])
        BY <2>1, HeldIs
      <4> QED BY <2>5, <4>1, <4>2, StateFields DEF KeptWidth
    <3>2. dq'.w = Width
      BY <2>2, <2>5, <3>1, WidthAssumption
    <3> QED BY <2>1, <2>5, <3>2 DEF InBarrier
  <2>6. CASE Unlocks(owned[t]) /\ pc'[t] \in {"idle", "enqueue"}
    BY <2>1, <2>2, <2>3, <2>6 DEF Unlocks
  <2> QED BY <2>4, <2>5, <2>6
<1>31. CASE t \in Workers /\ try_unlock(t, "unlock", "unlock_dirty")
  <2>1. pc[t] = "unlock" /\ signaled' = signaled /\ t \notin signaled
    BY <1>31 DEF try_unlock
  <2>2. owned[t] \in Parts /\ owned[t].ib \in 0..1 /\ owned[t].pb \in -1..0 /\ dq.pb = 0
    BY <2>1 DEF OwnsWidth, Parts
  <2>3. \/ KeepsLock /\ dq'.w = dq.w /\ owned' = owned /\ pc'[t] = "unlock_dirty"
        \/ Unlocks(owned[t]) /\ pc'[t] \in {"wait", "idle"}
    <3> HIDE DEF Word, KeepsLock
    <3> QED BY <1>31, <2>2, EffectTryUnlock
  <2>4. dq.ib = owned[t].ib
    BY <2>1, <2>2
  <2> QED BY <2>1, <2>2, <2>3, <2>4, StateFields DEF Unlocks
<1>32. CASE t \in Workers /\ clear_dirty(t, "unlock_dirty", "drain")
  <2>1. pc[t] = "unlock_dirty" /\ pc'[t] = "drain" /\ signaled' = signaled /\ t \notin signaled
        /\ owned'[t] = IF owned[t].ib = 1 THEN InBarrier ELSE owned[t]
    BY <1>32 DEF clear_dirty
  <2>2. KeepsLock /\ dq'.w = dq.w
    <3> HIDE DEF Word, KeepsLock
    <3> QED BY <1>32, EffectClearDirty
  <2> QED BY <2>1, <2>2 DEF InBarrier
<1> HIDE DEF Goto, SetItem, SetOwned, SetFlags, local, history, Word, ThreadsAt, ClientAt,
             WorkerAt, AtHand, LockMove, KeepsLock, HasLock, Barred, Whole, Asking, Waiting,
             Handing, Draining, Leaving, InCallout, Return, RunLabel
<1> QED
  BY Steps, <1>1, <1>2, <1>3, <1>4, <1>5, <1>6, <1>7, <1>8, <1>9, <1>10, <1>11, <1>12, <1>13, <1>14,
     <1>15, <1>16, <1>17, <1>18, <1>19, <1>20, <1>21, <1>22, <1>23, <1>24, <1>25, <1>26, <1>27,
     <1>28, <1>29, <1>30, <1>31, <1>32

(* Who is waiting for an item of the list, or of the batch, while another      *)
(* thread, or itself, hands the lock over.                                   *)
LEMMA WaiterIs ==
  ASSUME QueueInv, NEW t \in Threads, HasLock(t), NEW i \in Items, i.sync, Placed(i)
  PROVE  /\ i.by \in Clients /\ cur[i.by] = i /\ i.by \notin signaled /\ i \in outstanding
         /\ i.by # t => pc[i.by] \in Waiting
         /\ i.by = t => pc[t] \in Handing
<1>1. i.by \in Clients /\ i.by \in Threads
  BY ItemFacts DEF ItemOK, Threads
<1>2. i.by # t => pc[i.by] \in Waiting
  <2>1. i.by # t => ~HasLock(i.by)
    BY <1>1, QueueFacts
  <2> QED BY <2>1 DEF HasLock, Placed
<1>3. i.by = t => pc[t] \in Handing
  BY DEF HasLock, Placed, Waiting, Draining, Leaving, InCallout
<1> QED BY <1>1, <1>2, <1>3 DEF Placed

\* What one step does to the events.
SignalMove(t) ==
  \/ signaled' = signaled /\ pc[t] # "transfer"
  \/ pc[t] = "wait" /\ t \in signaled /\ signaled' = signaled \ {t} /\ pc'[t] = RunLabel(cur[t])
  \/ /\ pc[t] = "pop" /\ t \in Workers /\ Head(items).sync /\ ~Exclusive(Head(items))
     /\ signaled' = signaled \union {Head(items).by}
     /\ pc'[t] = "drain" /\ items' = Tail(items)
     /\ owned'[t] = [owned[t] EXCEPT !.w = @ - 1]
  \/ transfer(t)

(* Events are signaled by the lock's holder, and taken by their thread.        *)
LEMMA SignalStep ==
  ASSUME NEW t \in Threads, Word, Moves(t)
  PROVE  SignalMove(t)
<1> USE WidthAssumption, NamesAssumption
    DEF Goto, SetItem, SetOwned, SetFlags, local, history, Word, SignalMove
<1>1. ASSUME t \in Clients, NEW k \in uses \cap Kinds, dispatch_call(t, k)
      PROVE  SignalMove(t)
  BY <1>1 DEF dispatch_call
<1>2. CASE t \in Clients /\ async_f2(t)
  BY <1>2 DEF async_f2
<1>3. CASE t \in Clients /\ acquire_async(t)
  BY <1>3 DEF acquire_async
<1>4. CASE t \in Clients /\ sync_f2(t)
  BY <1>4 DEF sync_f2
<1>5. CASE t \in Clients /\ reserve_sync(t)
  BY <1>5 DEF reserve_sync
<1>6. CASE t \in Clients /\ barrier_sync(t)
  BY <1>6 DEF barrier_sync
<1>7. CASE t \in Clients /\ queue_push(t)
  BY <1>7 DEF queue_push
<1>8. CASE t \in Clients /\ sync_wait(t)
  BY <1>8 DEF sync_wait
<1>9. CASE t \in Clients /\ apply_reserve(t)
  BY <1>9 DEF apply_reserve
<1>10. CASE t \in Clients /\ apply_relinquish(t)
  BY <1>10 DEF apply_relinquish
<1>11. CASE t \in Clients /\ queue_suspend(t)
  BY <1>11 DEF queue_suspend
<1>12. CASE t \in Clients /\ queue_resume(t)
  BY <1>12 DEF queue_resume
<1>13. CASE redirect(t)
  BY <1>13 DEF redirect
<1>14. CASE finish(t)
  BY <1>14 DEF finish
<1>15. CASE non_barrier_complete(t)
  BY <1>15 DEF non_barrier_complete
<1>16. CASE wakeup_probe(t)
  BY <1>16 DEF wakeup_probe
<1>17. CASE class_wakeup(t)
  BY <1>17 DEF class_wakeup
<1>18. CASE wakeup_enqueue(t)
  BY <1>18 DEF wakeup_enqueue
<1>19. CASE handoff(t)
  BY <1>19 DEF handoff
<1>20. CASE handoff_pop(t)
  BY <1>20 DEF handoff_pop
<1>21. CASE transfer(t)
  BY <1>21 DEF transfer
<1>22. CASE unlock_wakeup(t)
  BY <1>22 DEF unlock_wakeup
<1>23. CASE try_unlock(t, "release", "release_dirty")
  BY <1>23 DEF try_unlock
<1>24. CASE clear_dirty(t, "release_dirty", "handoff")
  BY <1>24 DEF clear_dirty
<1>25. CASE t \in Workers /\ root_pop(t)
  BY <1>25 DEF root_pop
<1>26. CASE t \in Workers /\ drain_try_lock(t)
  BY <1>26 DEF drain_try_lock
<1>27. CASE t \in Workers /\ drain(t)
  BY <1>27 DEF drain
<1>28. CASE t \in Workers /\ drain_width(t)
  BY <1>28 DEF drain_width
<1>29. CASE t \in Workers /\ drain_pop(t)
  BY <1>29 DEF drain_pop
<1>30. CASE t \in Workers /\ reenqueue(t)
  BY <1>30 DEF reenqueue
<1>31. CASE t \in Workers /\ try_unlock(t, "unlock", "unlock_dirty")
  BY <1>31 DEF try_unlock
<1>32. CASE t \in Workers /\ clear_dirty(t, "unlock_dirty", "drain")
  BY <1>32 DEF clear_dirty
<1> HIDE DEF Goto, SetItem, SetOwned, SetFlags, local, history, Word, SignalMove
<1> QED
  BY Steps, <1>1, <1>2, <1>3, <1>4, <1>5, <1>6, <1>7, <1>8, <1>9, <1>10, <1>11, <1>12, <1>13, <1>14,
     <1>15, <1>16, <1>17, <1>18, <1>19, <1>20, <1>21, <1>22, <1>23, <1>24, <1>25, <1>26, <1>27,
     <1>28, <1>29, <1>30, <1>31, <1>32

(* Whom the handoff wakes: threads that wait, each with the item it was woken for. *)
LEMMA TransferFacts ==
  ASSUME QueueInv, NEW t \in Threads, transfer(t)
  PROVE  /\ HasLock(t) /\ dq.owner = t /\ dq.ib = 1 /\ dq.pb = 0 /\ dq.w = Width /\ t \notin signaled
         /\ batch[t] \in Seq(Items) /\ 1 \in 1..Len(batch[t]) /\ Len(batch[t]) \in Nat
         /\ pc'[t] \in {"wait", "idle"} /\ cur' = cur /\ owned'[t] = Nothing
         /\ signaled' = signaled \union {batch[t][j].by : j \in 1..Len(batch[t])}
         /\ \A j \in 1..Len(batch[t]) :
              LET u == batch[t][j].by
              IN  /\ u \in Clients /\ u \notin signaled /\ u \in signaled' /\ cur[u] = batch[t][j]
                  /\ batch[t][j].sync /\ batch[t][j] \in outstanding /\ pc'[u] \in Waiting
                  /\ batch[t][j] \in Items
<1>1. Word /\ DrainLock /\ Events /\ OwnsWidth(t) /\ pc[t] = "transfer" /\ batch[t] # <<>>
  BY DEF QueueInv, Owns, Batches, transfer
<1>2. HasLock(t) /\ dq.owner = t /\ dq.ib = 1 /\ dq.pb = 0 /\ dq.w = Width /\ t \notin signaled
  BY <1>1 DEF HasLock, DrainLock, Whole, Handing, Draining, Leaving, Events, Waiting
<1>3. batch[t] \in Seq(Items) /\ 1 \in 1..Len(batch[t]) /\ Len(batch[t]) \in Nat
  <2>1. batch[t] \in Seq(Items)
    BY DEF QueueInv, Batches
  <2> QED BY <1>1, <2>1
<1>4. /\ pc' = [pc EXCEPT ![t] = Return(t)] /\ cur' = cur /\ owned'[t] = Nothing
      /\ pc'[t] = Return(t)
      /\ signaled' = signaled \union {batch[t][j].by : j \in 1..Len(batch[t])}
  BY <1>1 DEF transfer, Goto, SetOwned, history, Word
<1>5. ASSUME NEW j \in 1..Len(batch[t])
      PROVE  LET u == batch[t][j].by
             IN  /\ u \in Clients /\ u \notin signaled /\ u \in signaled' /\ cur[u] = batch[t][j]
                 /\ batch[t][j].sync /\ batch[t][j] \in outstanding /\ pc'[u] \in Waiting
                 /\ batch[t][j] \in Items
  <2>1. batch[t][j] \in Items /\ batch[t][j].sync /\ Placed(batch[t][j])
    BY <1>3 DEF QueueInv, Batches
  <2> DEFINE u == batch[t][j].by
  <2>2. /\ u \in Clients /\ cur[u] = batch[t][j] /\ u \notin signaled /\ batch[t][j] \in outstanding
        /\ u # t => pc[u] \in Waiting
    BY <1>2, <2>1, WaiterIs
  <2>3. u \in signaled'
    BY <1>4
  <2>4. pc'[u] \in Waiting
    <3>1. CASE u = t
      <4>1. cur[t] # None
        BY <2>1, <2>2, <3>1, NamesAssumption
      <4>2. Return(t) = "wait"
        BY <2>1, <2>2, <3>1, <4>1 DEF Return
      <4> QED BY <1>4, <3>1, <4>2 DEF Waiting
    <3>2. CASE u # t
      <4>1. pc'[u] = pc[u]
        BY <1>1, <1>4, <2>2, <3>2 DEF Threads, Word
      <4> QED BY <2>2, <3>2, <4>1
    <3> QED BY <3>1, <3>2
  <2> QED BY <2>1, <2>2, <2>3, <2>4
<1>6. Return(t) \in {"wait", "idle"}
  BY DEF Return
<1> QED BY <1>2, <1>3, <1>4, <1>5, <1>6

(* A waiter popped from the list is another thread, and it is still waiting. *)
LEMMA PopFacts ==
  ASSUME QueueInv, NEW t \in Threads, pc[t] = "pop", Head(items).sync
  PROVE  LET i == Head(items)
         IN  /\ HasLock(t) /\ t \notin signaled /\ i \in Items /\ i.by \in Clients /\ i.by # t
             /\ i.by \notin signaled /\ cur[i.by] = i /\ i \in outstanding /\ pc[i.by] \in Waiting
             /\ Placed(i) /\ items # <<>>
<1>1. Lists /\ Events /\ Owns /\ HasLock(t)
  BY DEF QueueInv, HasLock, Draining
<1>2. items # <<>> /\ items \in Seq(Items)
  BY <1>1 DEF Owns, SeesHead, Lists
<1>3. Head(items) = items[1] /\ 1 \in 1..Len(items) /\ Head(items) \in Items
  BY <1>2, Ends
<1>4. Placed(Head(items))
  BY <1>1, <1>3 DEF Lists
<1>5. t \notin signaled
  BY <1>1 DEF Events, Waiting
<1>6. Head(items).by # t
  BY <1>1, <1>3, <1>4, WaiterIs DEF Handing
<1> QED BY <1>1, <1>2, <1>3, <1>4, <1>5, <1>6, WaiterIs

(* What a step does to the claims of the other threads.                       *)
LEMMA OthersClaim ==
  ASSUME QueueInv, NEW t \in Threads, Moves(t), pc[t] # "transfer", NEW u \in Threads \ {t}
  PROVE  (HasLock(u)' <=> HasLock(u)) /\ (Barred(u)' <=> Barred(u))
<1>1. pc'[u] = pc[u] /\ cur'[u] = cur[u] /\ owned'[u] = owned[u]
  BY OneThread DEF AloneMoves, QueueInv
<1>2. Barred(u)' <=> Barred(u)
  BY <1>1 DEF Barred, Whole
<1>3. (u \in signaled' /\ Exclusive(cur[u])) <=> (u \in signaled /\ Exclusive(cur[u]))
  <2>1. SignalMove(t)
    BY SignalStep DEF QueueInv
  <2>2. CASE /\ pc[t] = "pop" /\ Head(items).sync /\ ~Exclusive(Head(items))
             /\ signaled' = signaled \union {Head(items).by}
    BY <2>2, PopFacts
  <2>3. CASE signaled' = signaled \/ signaled' = signaled \ {t}
    BY <2>3
  <2> QED BY <2>1, <2>2, <2>3 DEF SignalMove, transfer
<1>4. HasLock(u)' <=> HasLock(u)
  BY <1>1, <1>3 DEF HasLock
<1> QED BY <1>2, <1>4

(* A transfer moves the lock to the writer's thread, or lets go of it.        *)
LEMMA TransferMove ==
  ASSUME QueueInv, NEW t \in Threads, transfer(t)
  PROVE  LET u == batch[t][1].by
         IN  /\ dq' \in States /\ SameQueue /\ dq'.pb = 0
             /\ \/ /\ Exclusive(cur[u]) /\ Len(batch[t]) = 1 /\ cur[u] = batch[t][1]
                   /\ dq'.owner = u /\ dq'.ib = 1 /\ dq'.w = Width
                \/ /\ \A j \in 1..Len(batch[t]) : ~Exclusive(batch[t][j])
                   /\ dq'.owner = None /\ dq'.ib = 0 /\ dq'.w = Len(batch[t])
<1>1. /\ dq.ib = 1 /\ dq.pb = 0 /\ dq.w = Width /\ 1 \in 1..Len(batch[t]) /\ Len(batch[t]) \in Nat
      /\ OwnsWidth(t) /\ Word /\ pc[t] = "transfer"
  BY TransferFacts DEF QueueInv, Owns, transfer
<1>2. /\ batch[t][1].by \in Clients /\ cur[batch[t][1].by] = batch[t][1] /\ batch[t][1].sync
      /\ ItemOK(batch[t][1])
  <2>1. /\ batch[t][1].by \in Clients /\ cur[batch[t][1].by] = batch[t][1] /\ batch[t][1].sync
        /\ batch[t][1] \in Items
    BY <1>1, TransferFacts
  <2> QED BY <2>1, ItemFacts
<1>3. batch[t][1].by \in Threads
  BY <1>2 DEF Threads
<1>4. CASE Exclusive(batch[t][1])
  <2>1. owned[t] = Nothing /\ Len(batch[t]) = 1
    BY <1>1, <1>4 DEF OwnsWidth
  <2>2. batch[t][1].barrier
    BY <1>2, <1>4 DEF ItemOK
  <2>3. owned[t] \in Parts /\ owned[t].ib = 0 /\ owned[t].w = 0 /\ owned[t].pb = 0
    BY <2>1 DEF Nothing, Parts
  <2>4. /\ dq' \in States /\ SameQueue
        /\ dq'.ib = dq.ib - owned[t].ib /\ dq'.w = dq.w - owned[t].w /\ dq'.pb = dq.pb - owned[t].pb
        /\ dq'.owner = batch[t][1].by
    BY <1>1, <1>3, <2>2, <2>3, EffectTransfer
  <2> QED BY <1>1, <1>2, <1>4, <2>1, <2>3, <2>4, WidthAssumption
<1>5. CASE ~Exclusive(batch[t][1])
  <2>1. /\ owned[t] = [BarrierWidth EXCEPT !.w = @ - Len(batch[t])]
        /\ \A j \in 1..Len(batch[t]) : ~Exclusive(batch[t][j])
    BY <1>1, <1>5 DEF OwnsWidth
  <2>2. ~batch[t][1].barrier
    BY <1>5 DEF Exclusive
  <2>3. Width - Len(batch[t]) \in Int
    BY <1>1, WidthAssumption
  <2>4. /\ owned[t] \in Parts /\ owned[t].ib = 1 /\ owned[t].w = Width - Len(batch[t])
        /\ owned[t].pb = 0
    BY <2>1, <2>3 DEF BarrierWidth, Parts
  <2>5. /\ dq' \in States /\ SameQueue
        /\ dq'.ib = dq.ib - owned[t].ib /\ dq'.w = dq.w - owned[t].w /\ dq'.pb = dq.pb - owned[t].pb
        /\ dq'.owner = None
    BY <1>1, <1>3, <2>2, <2>4, EffectTransfer
  <2>6. dq'.w = Len(batch[t])
    BY <1>1, <2>4, <2>5, WidthAssumption
  <2> QED BY <1>1, <2>1, <2>4, <2>5, <2>6
<1> QED BY <1>4, <1>5

(* One thread has the drain lock, or nobody, as the word says.                *)
LEMMA DrainLockStep ==
  ASSUME QueueInv, NEW t \in Threads, Moves(t)
  PROVE  DrainLock' /\ dq'.ib \in 0..1 /\ dq'.pb \in 0..1
<1>1. DrainLock /\ Word /\ ThreadsAt /\ RootAt /\ Lists /\ AtHand(t) /\ dq.w >= Reserved
  BY AtHandIs, QueueFacts DEF QueueInv, At
<1> DEFINE Mine(u) == /\ HasLock(u)' <=> dq'.owner = u
                      /\ HasLock(u)' => dq'.pb = 0 /\ (dq'.ib = 1 <=> Barred(u)')
<1>2. ASSUME \A u \in Threads : Mine(u), dq'.owner = None => dq'.ib = 0,
             dq'.ib = 1 => dq'.w = Width, dq'.ib \in 0..1, dq'.pb \in 0..1
      PROVE  DrainLock' /\ dq'.ib \in 0..1 /\ dq'.pb \in 0..1
  BY <1>2 DEF DrainLock, Barred
<1>3. CASE pc[t] # "transfer"
  <2>1. LockMove(t)
    BY <1>1, <1>3, LockStep
  <2>2. \A u \in Threads \ {t} : (HasLock(u)' <=> HasLock(u)) /\ (Barred(u)' <=> Barred(u))
    BY <1>3, OthersClaim
  <2>3. \A u \in Threads : /\ HasLock(u) <=> dq.owner = u
                           /\ HasLock(u) => dq.pb = 0 /\ (dq.ib = 1 <=> Barred(u))
    BY <1>1 DEF DrainLock, Barred
  <2>4. dq.ib \in 0..1 /\ dq.pb \in 0..1 /\ t # None /\ dq.ib # 1 => dq.ib = 0
    BY <1>1, NamesAssumption DEF Word
  <2>5. /\ dq.owner = None => dq.ib = 0
        /\ dq.ib = 1 => dq.w = Width
    BY <1>1 DEF DrainLock
  <2> HIDE DEF Mine
  <2>6. CASE /\ KeepsLock /\ (HasLock(t)' <=> HasLock(t)) /\ (dq'.w = dq.w \/ dq.ib = 0)
             /\ HasLock(t) => (Barred(t)' <=> Barred(t))
    <3>1. \A u \in Threads : Mine(u)
      BY <2>2, <2>3, <2>6 DEF Mine, KeepsLock
    <3>2. dq'.owner = dq.owner /\ dq'.ib = dq.ib /\ dq'.pb = dq.pb /\ (dq'.w = dq.w \/ dq.ib = 0)
      BY <2>6 DEF KeepsLock
    <3> QED BY <1>1, <1>2, <2>5, <3>1, <3>2 DEF Word
  <2>7. CASE /\ dq.owner = None /\ dq'.owner = t /\ HasLock(t)' /\ dq'.pb = 0 /\ dq'.w = Width
             /\ dq'.ib \in 0..1 /\ (dq'.ib = 1 <=> Barred(t)')
    <3>1. \A u \in Threads : Mine(u)
      BY <2>2, <2>3, <2>7, NamesAssumption DEF Mine
    <3> QED BY <1>2, <2>7, <3>1, NamesAssumption
  <2>8. CASE HasLock(t) /\ dq'.owner = None /\ dq'.ib = 0 /\ dq'.pb \in 0..1 /\ ~HasLock(t)'
    <3>1. \A u \in Threads : Mine(u)
      BY <2>2, <2>3, <2>8, NamesAssumption DEF Mine
    <3> QED BY <1>2, <2>8, <3>1
  <2>9. CASE /\ HasLock(t) /\ dq'.owner = dq.owner /\ HasLock(t)' /\ dq'.pb = 0
             /\ dq'.ib \in 0..1 /\ (dq'.ib = 1 <=> Barred(t)') /\ (dq'.ib = 1 => dq'.w = Width)
    <3>1. \A u \in Threads : Mine(u)
      BY <2>2, <2>3, <2>9 DEF Mine
    <3>2. dq'.owner # None
      BY <2>3, <2>9, NamesAssumption
    <3> QED BY <1>2, <2>9, <3>1, <3>2
  <2> QED BY <2>1, <2>6, <2>7, <2>8, <2>9 DEF LockMove
<1>4. CASE pc[t] = "transfer"
  <2>1. transfer(t)
    <3>1. SignalMove(t)
      BY <1>1, SignalStep
    <3> QED BY <1>4, <3>1 DEF SignalMove
  <2>2. PICK v : v = batch[t][1].by
    OBVIOUS
  <2>3. /\ dq'.pb = 0
        /\ \/ /\ Exclusive(cur[v]) /\ Len(batch[t]) = 1 /\ cur[v] = batch[t][1]
              /\ dq'.owner = v /\ dq'.ib = 1 /\ dq'.w = Width
           \/ /\ \A j \in 1..Len(batch[t]) : ~Exclusive(batch[t][j])
              /\ dq'.owner = None /\ dq'.ib = 0 /\ dq'.w = Len(batch[t])
    BY <2>1, <2>2, TransferMove
  <2>4. /\ v \in Clients /\ v \in signaled' /\ pc'[v] \in Waiting /\ cur'[v] = cur[v]
        /\ pc'[t] \in {"wait", "idle"} /\ t \notin signaled /\ cur' = cur /\ HasLock(t)
    BY <2>1, <2>2, TransferFacts
  <2>5. ASSUME NEW u \in Threads
        PROVE  HasLock(u)' <=> (u \in signaled' /\ Exclusive(cur[u]))
    <3>1. CASE u = t
      BY <2>4, <3>1 DEF HasLock, Draining, Leaving, Handing, InCallout
    <3>2. CASE u # t
      <4>1. ~HasLock(u)
        BY <2>4, <3>2, QueueFacts
      <4>2. pc'[u] = pc[u] /\ cur'[u] = cur[u]
        BY <1>1, <3>2, OneThread DEF AloneMoves
      <4> QED BY <4>1, <4>2 DEF HasLock
    <3> QED BY <3>1, <3>2
  <2>6. ASSUME NEW u \in signaled', Exclusive(cur[u]), u \in Threads
        PROVE  \E j \in 1..Len(batch[t]) : batch[t][j].by = u /\ cur[u] = batch[t][j]
    <3>1. u \notin signaled
      <4>1. u # t => ~HasLock(u)
        BY <2>4, <2>6, QueueFacts
      <4> QED BY <2>4, <2>6, <4>1 DEF HasLock
    <3> QED BY <2>1, <2>6, <3>1, TransferFacts
  <2>7. CASE /\ Exclusive(cur[v]) /\ Len(batch[t]) = 1 /\ cur[v] = batch[t][1]
             /\ dq'.owner = v /\ dq'.ib = 1 /\ dq'.w = Width
    <3>1. Barred(v)'
      BY <2>4 DEF Barred, Whole, Waiting, Draining, Leaving
    <3>2. v # None /\ \A u \in Threads : (u \in signaled' /\ Exclusive(cur[u])) <=> u = v
      BY <2>4, <2>6, <2>7, NamesAssumption DEF Threads
    <3>3. \A u \in Threads : Mine(u)
      BY <2>3, <2>5, <2>7, <3>1, <3>2
    <3> HIDE DEF Mine
    <3> QED BY <1>2, <2>3, <2>7, <3>2, <3>3
  <2>8. CASE /\ \A j \in 1..Len(batch[t]) : ~Exclusive(batch[t][j])
             /\ dq'.owner = None /\ dq'.ib = 0 /\ dq'.w = Len(batch[t])
    <3>1. \A u \in Threads : ~HasLock(u)'
      BY <2>5, <2>6, <2>8
    <3>2. \A u \in Threads : Mine(u)
      BY <2>8, <3>1, NamesAssumption
    <3> HIDE DEF Mine
    <3> QED BY <1>2, <2>3, <2>8, <3>2
  <2> QED BY <2>3, <2>7, <2>8
<1> QED BY <1>3, <1>4

(* The state word, the calls and the items keep their types.                 *)
LEMMA DataStep ==
  ASSUME NEW t \in Threads, QueueInv, Moves(t)
  PROVE  dq' \in States /\ ops' \in [Clients -> Nat] /\ outstanding' \subseteq Items
<1> USE WidthAssumption, NamesAssumption
    DEF Goto, SetItem, SetOwned, SetFlags, local, history, Word
<1>1. Word
  BY DEF QueueInv
<1>2. ASSUME t \in Clients, NEW k \in uses \cap Kinds, dispatch_call(t, k)
      PROVE  dq' \in States /\ ops' \in [Clients -> Nat] /\ outstanding' \subseteq Items
  <2>1. /\ dq' = dq /\ ops' = [ops EXCEPT ![t] = @ + 1]
        /\ outstanding' = outstanding \union {Item(t, ops[t] + 1, k)} /\ ops[t] < MaxOps
    BY <1>1, <1>2 DEF dispatch_call
  <2>2. Item(t, ops[t] + 1, k) \in Items
    BY <1>1, <1>2, <2>1, NewItem
  <2> QED BY <1>1, <1>2, <2>1, <2>2
<1>3. CASE t \in Clients /\ async_f2(t)
  BY <1>1, <1>3 DEF async_f2
<1>4. CASE t \in Clients /\ acquire_async(t)
  <2>1. ops' = ops /\ outstanding' = outstanding
    BY <1>4 DEF acquire_async
  <2>2. dq' \in States
    <3> HIDE DEF Word
    <3> QED BY <1>1, <1>4, EffectReserve
  <2> QED BY <1>1, <2>1, <2>2
<1>5. CASE t \in Clients /\ sync_f2(t)
  BY <1>1, <1>5 DEF sync_f2
<1>6. CASE t \in Clients /\ reserve_sync(t)
  <2>1. ops' = ops /\ outstanding' = outstanding
    BY <1>6 DEF reserve_sync
  <2>2. dq' \in States
    <3> HIDE DEF Word
    <3> QED BY <1>1, <1>6, EffectReserve
  <2> QED BY <1>1, <2>1, <2>2
<1>7. CASE t \in Clients /\ barrier_sync(t)
  <2>1. ops' = ops /\ outstanding' = outstanding
    BY <1>7 DEF barrier_sync
  <2>2. dq' \in States
    <3> HIDE DEF Word
    <3> QED BY <1>1, <1>7, EffectBarrierSync
  <2> QED BY <1>1, <2>1, <2>2
<1>8. CASE t \in Clients /\ queue_push(t)
  BY <1>1, <1>8 DEF queue_push
<1>9. CASE t \in Clients /\ sync_wait(t)
  BY <1>1, <1>9 DEF sync_wait
<1>10. CASE t \in Clients /\ apply_reserve(t)
  <2>1. ops' = ops /\ outstanding' = outstanding
    BY <1>10 DEF apply_reserve
  <2>2. OwnsWidth(t) /\ dq.w \in Nat
    BY QueueFacts DEF QueueInv, Owns
  <2>3. owned[t] \in Parts /\ owned[t].w \in Int
    BY <2>2 DEF OwnsWidth, Parts
  <2>4. dq' \in States
    <3> HIDE DEF Word
    <3> QED BY <1>1, <1>10, <2>2, <2>3, EffectApply
  <2> QED BY <1>1, <2>1, <2>4
<1>11. CASE t \in Clients /\ apply_relinquish(t)
  <2>1. ops' = ops /\ outstanding' = outstanding
    BY <1>11 DEF apply_relinquish
  <2>2. OwnsWidth(t) /\ dq.w \in Nat
    BY QueueFacts DEF QueueInv, Owns
  <2>3. owned[t] \in Parts /\ owned[t].w \in Int
    BY <2>2 DEF OwnsWidth, Parts
  <2>4. dq' \in States
    <3> HIDE DEF Word
    <3> QED BY <1>1, <1>11, <2>2, <2>3, EffectApply
  <2> QED BY <1>1, <2>1, <2>4
<1>12. CASE t \in Clients /\ queue_suspend(t)
  <2>1. ops' = [ops EXCEPT ![t] = @ + 1] /\ outstanding' = outstanding
    BY <1>12 DEF queue_suspend
  <2>2. dq' \in States
    BY <1>1, <1>12, EffectSuspend
  <2> QED BY <1>1, <1>12, <2>1, <2>2
<1>13. CASE t \in Clients /\ queue_resume(t)
  <2>1. ops' = ops /\ outstanding' = outstanding
    BY <1>13 DEF queue_resume
  <2>2. dq' \in States
    <3> HIDE DEF Word
    <3> QED BY <1>1, <1>13, EffectResume
  <2> QED BY <1>1, <2>1, <2>2
<1>14. CASE redirect(t)
  BY <1>1, <1>14 DEF redirect
<1>15. CASE finish(t)
  BY <1>1, <1>15 DEF finish
<1>16. CASE non_barrier_complete(t)
  <2>1. ops' = ops /\ outstanding' = outstanding /\ pc[t] = "complete"
    BY <1>16 DEF non_barrier_complete
  <2>2. dq.ib = 0
    <3>1. AtHand(t) /\ t \notin signaled
      BY <2>1, AtHandIs DEF QueueInv, Events, Waiting
    <3>2. ~HasLock(t)
      BY <2>1, <3>1 DEF HasLock, Draining, Leaving, Handing, InCallout
    <3> QED BY <2>1, <3>1, <3>2 DEF AtHand
  <2>3. dq' \in States
    <3> HIDE DEF Word
    <3> QED BY <1>1, <1>16, <2>2, EffectComplete
  <2> QED BY <1>1, <2>1, <2>3
<1>17. CASE wakeup_probe(t)
  BY <1>1, <1>17 DEF wakeup_probe
<1>18. CASE class_wakeup(t)
  <2>1. ops' = ops /\ outstanding' = outstanding
    BY <1>18 DEF class_wakeup
  <2>2. dq' \in States
    <3> HIDE DEF Word
    <3> QED BY <1>1, <1>18, EffectWakeup, QueueFacts
  <2> QED BY <1>1, <2>1, <2>2
<1>19. CASE wakeup_enqueue(t)
  BY <1>1, <1>19 DEF wakeup_enqueue
<1>20. CASE handoff(t)
  BY <1>1, <1>20 DEF handoff
<1>21. CASE handoff_pop(t)
  BY <1>1, <1>21 DEF handoff_pop
<1>22. CASE transfer(t)
  <2>1. ops' = ops /\ outstanding' = outstanding
    BY <1>22 DEF transfer
  <2>2. dq' \in States
    <3> HIDE DEF Word
    <3> QED BY <1>1, <1>22, TransferMove
  <2> QED BY <1>1, <2>1, <2>2
<1>23. CASE unlock_wakeup(t)
  <2>1. ops' = ops /\ outstanding' = outstanding
    BY <1>23 DEF unlock_wakeup
  <2>2. OwnsWidth(t) /\ dq.w \in Nat
    BY QueueFacts DEF QueueInv, Owns
  <2>3. owned[t] \in Parts /\ owned[t].w \in Int
    BY <2>2 DEF OwnsWidth, Parts
  <2>4. dq' \in States
    <3> HIDE DEF Word
    <3> QED BY <1>1, <1>23, <2>2, <2>3, EffectUnlockWakeup
  <2> QED BY <1>1, <2>1, <2>4
<1>24. CASE try_unlock(t, "release", "release_dirty")
  <2>1. ops' = ops /\ outstanding' = outstanding
    BY <1>24 DEF try_unlock
  <2>2. OwnsWidth(t) /\ dq.w \in Nat
    BY QueueFacts DEF QueueInv, Owns
  <2>3. owned[t] \in Parts /\ owned[t].w \in Int
    BY <2>2 DEF OwnsWidth, Parts
  <2>4. dq' \in States
    <3> HIDE DEF Word
    <3> QED BY <1>1, <1>24, <2>2, <2>3, EffectTryUnlock
  <2> QED BY <1>1, <2>1, <2>4
<1>25. CASE clear_dirty(t, "release_dirty", "handoff")
  <2>1. ops' = ops /\ outstanding' = outstanding
    BY <1>25 DEF clear_dirty
  <2>2. dq' \in States
    <3> HIDE DEF Word
    <3> QED BY <1>1, <1>25, EffectClearDirty
  <2> QED BY <1>1, <2>1, <2>2
<1>26. CASE t \in Workers /\ root_pop(t)
  BY <1>1, <1>26 DEF root_pop
<1>27. CASE t \in Workers /\ drain_try_lock(t)
  <2>1. ops' = ops /\ outstanding' = outstanding
    BY <1>27 DEF drain_try_lock
  <2>2. dq' \in States
    <3> HIDE DEF Word
    <3> QED BY <1>1, <1>27, EffectLock
  <2> QED BY <1>1, <2>1, <2>2
<1>28. CASE t \in Workers /\ drain(t)
  BY <1>1, <1>28 DEF drain
<1>29. CASE t \in Workers /\ drain_width(t)
  <2>1. ops' = ops /\ outstanding' = outstanding
    BY <1>29 DEF drain_width
  <2>2. dq' \in States
    <3> HIDE DEF Word
    <3> QED BY <1>1, <1>29, EffectWidth
  <2> QED BY <1>1, <2>1, <2>2
<1>30. CASE t \in Workers /\ drain_pop(t)
  BY <1>1, <1>30 DEF drain_pop
<1>31. CASE t \in Workers /\ reenqueue(t)
  <2>1. ops' = ops /\ outstanding' = outstanding /\ pc[t] = "reenqueue"
    BY <1>31 DEF reenqueue
  <2>2. OwnsWidth(t) /\ HasLock(t) /\ AtHand(t)
    BY <2>1, AtHandIs DEF HasLock, Leaving, AtHand
  <2>3. owned[t] \in Parts /\ owned[t].ib \in 0..1 /\ owned[t].pb \in -1..0
    BY <2>2 DEF OwnsWidth, Parts
  <2>4. dq.ib = owned[t].ib /\ dq.pb = 0
    BY <1>1, <2>1, <2>2, <2>3 DEF AtHand, Barred, Whole, Leaving
  <2>5. dq' \in States
    <3> HIDE DEF Word
    <3> QED BY <1>1, <1>31, <2>3, <2>4, EffectReenqueue
  <2> QED BY <1>1, <2>1, <2>5
<1>32. CASE t \in Workers /\ try_unlock(t, "unlock", "unlock_dirty")
  <2>1. ops' = ops /\ outstanding' = outstanding
    BY <1>32 DEF try_unlock
  <2>2. OwnsWidth(t) /\ dq.w \in Nat
    BY QueueFacts DEF QueueInv, Owns
  <2>3. owned[t] \in Parts /\ owned[t].w \in Int
    BY <2>2 DEF OwnsWidth, Parts
  <2>4. dq' \in States
    <3> HIDE DEF Word
    <3> QED BY <1>1, <1>32, <2>2, <2>3, EffectTryUnlock
  <2> QED BY <1>1, <2>1, <2>4
<1>33. CASE t \in Workers /\ clear_dirty(t, "unlock_dirty", "drain")
  <2>1. ops' = ops /\ outstanding' = outstanding
    BY <1>33 DEF clear_dirty
  <2>2. dq' \in States
    <3> HIDE DEF Word
    <3> QED BY <1>1, <1>33, EffectClearDirty
  <2> QED BY <1>1, <2>1, <2>2
<1> HIDE DEF Goto, SetItem, SetOwned, SetFlags, local, history, Word
<1> QED
  BY <1>2, <1>3, <1>4, <1>5, <1>6, <1>7, <1>8, <1>9, <1>10, <1>11, <1>12, <1>13, <1>14, <1>15,
     <1>16, <1>17, <1>18, <1>19, <1>20, <1>21, <1>22, <1>23, <1>24, <1>25, <1>26, <1>27, <1>28,
     <1>29, <1>30, <1>31, <1>32, <1>33
     DEF Moves, Call, ClientStep, SharedStep, WorkerStep, Threads

(* The state word stays well formed.                                        *)
LEMMA WordStep ==
  ASSUME QueueInv, NEW t \in Threads, Moves(t)
  PROVE  Word'
<1>1. dq' \in States /\ ops' \in [Clients -> Nat] /\ outstanding' \subseteq Items
  BY DataStep
<1>2. dq'.ib \in 0..1 /\ dq'.pb \in 0..1
  BY DrainLockStep
<1>3. AloneMoves(t) /\ uses' \in Programs
  BY OneThread DEF QueueInv, Word, Moves
<1> QED BY <1>1, <1>2, <1>3 DEF Word, States, AloneMoves

\* What one step does to the suspensions.
SuspendMove(t) ==
  \/ dq'.sc = dq.sc /\ pc[t] # "suspended" /\ pc'[t] # "suspended"
  \/ t \in Clients /\ dq'.sc = dq.sc + 1 /\ pc[t] # "suspended" /\ pc'[t] = "suspended"
  \/ t \in Clients /\ dq'.sc = dq.sc - 1 /\ pc[t] = "suspended" /\ pc'[t] # "suspended"

(* A suspension and its resume.                                               *)
LEMMA SuspendStep ==
  ASSUME NEW t \in Threads, QueueInv, Moves(t)
  PROVE  SuspendMove(t)
<1> USE WidthAssumption, NamesAssumption
    DEF Goto, SetItem, SetOwned, SetFlags, local, history, Word, SuspendMove, Return, RunLabel,
        FirstStep, DrainOut
<1>1. Word
  BY DEF QueueInv
<1>2. ASSUME t \in Clients, NEW k \in uses \cap Kinds, dispatch_call(t, k)
      PROVE  SuspendMove(t)
  BY <1>1, <1>2 DEF dispatch_call
<1>3. CASE t \in Clients /\ async_f2(t)
  BY <1>1, <1>3 DEF async_f2
<1>4. CASE t \in Clients /\ acquire_async(t)
  <2>1. pc[t] # "suspended" /\ pc'[t] # "suspended"
    BY <1>1, <1>4 DEF acquire_async
  <2>2. dq'.sc = dq.sc
    <3> HIDE DEF Word
    <3> QED BY <1>1, <1>4, EffectReserve DEF SameQueue
  <2> QED BY <2>1, <2>2
<1>5. CASE t \in Clients /\ sync_f2(t)
  BY <1>1, <1>5 DEF sync_f2
<1>6. CASE t \in Clients /\ reserve_sync(t)
  <2>1. pc[t] # "suspended" /\ pc'[t] # "suspended"
    BY <1>1, <1>6 DEF reserve_sync
  <2>2. dq'.sc = dq.sc
    <3> HIDE DEF Word
    <3> QED BY <1>1, <1>6, EffectReserve DEF SameQueue
  <2> QED BY <2>1, <2>2
<1>7. CASE t \in Clients /\ barrier_sync(t)
  <2>1. pc[t] # "suspended" /\ pc'[t] # "suspended"
    BY <1>1, <1>7 DEF barrier_sync
  <2>2. dq'.sc = dq.sc
    <3> HIDE DEF Word
    <3> QED BY <1>1, <1>7, EffectBarrierSync DEF SameQueue
  <2> QED BY <2>1, <2>2
<1>8. CASE t \in Clients /\ queue_push(t)
  BY <1>1, <1>8 DEF queue_push
<1>9. CASE t \in Clients /\ sync_wait(t)
  BY <1>1, <1>9 DEF sync_wait
<1>10. CASE t \in Clients /\ apply_reserve(t)
  <2>1. pc[t] # "suspended" /\ pc'[t] # "suspended"
    BY <1>1, <1>10 DEF apply_reserve
  <2>2. OwnsWidth(t) /\ dq.w \in Nat
    BY QueueFacts DEF QueueInv, Owns
  <2>3. owned[t] \in Parts /\ owned[t].w \in Int
    BY <2>2 DEF OwnsWidth, Parts
  <2>4. dq'.sc = dq.sc
    <3> HIDE DEF Word
    <3> QED BY <1>1, <1>10, EffectApply, <2>2, <2>3 DEF SameQueue
  <2> QED BY <2>1, <2>4
<1>11. CASE t \in Clients /\ apply_relinquish(t)
  <2>1. pc[t] # "suspended" /\ pc'[t] # "suspended"
    BY <1>1, <1>11 DEF apply_relinquish
  <2>2. OwnsWidth(t) /\ dq.w \in Nat
    BY QueueFacts DEF QueueInv, Owns
  <2>3. owned[t] \in Parts /\ owned[t].w \in Int
    BY <2>2 DEF OwnsWidth, Parts
  <2>4. dq'.sc = dq.sc
    <3> HIDE DEF Word
    <3> QED BY <1>1, <1>11, EffectApply, <2>2, <2>3 DEF SameQueue
  <2> QED BY <2>1, <2>4
<1>12. CASE t \in Clients /\ queue_suspend(t)
  <2>1. pc[t] # "suspended" /\ pc'[t] = "suspended" /\ t \in Clients
    BY <1>1, <1>12 DEF queue_suspend
  <2> QED BY <1>1, <1>12, <2>1, EffectSuspend
<1>13. CASE t \in Clients /\ queue_resume(t)
  <2>1. pc[t] = "suspended" /\ t \in Clients
    BY <1>1, <1>13 DEF queue_resume
  <2> HIDE DEF Word
  <2> QED BY <1>1, <1>13, <2>1, EffectResume
<1>14. CASE redirect(t)
  BY <1>1, <1>14 DEF redirect
<1>15. CASE finish(t)
  BY <1>1, <1>15 DEF finish
<1>16. CASE non_barrier_complete(t)
  <2>1. pc[t] # "suspended" /\ pc'[t] # "suspended"
    BY <1>1, <1>16 DEF non_barrier_complete
  <2>2. dq.ib = 0
    <3>1. pc[t] = "complete"
      BY <1>16 DEF non_barrier_complete
    <3>2. AtHand(t) /\ t \notin signaled
      BY <3>1, AtHandIs DEF QueueInv, Events, Waiting
    <3>3. ~HasLock(t)
      BY <3>1, <3>2 DEF HasLock, Draining, Leaving, Handing, InCallout
    <3> QED BY <3>1, <3>2, <3>3 DEF AtHand
  <2>3. dq'.sc = dq.sc
    <3> HIDE DEF Word
    <3> QED BY <1>1, <1>16, EffectComplete, <2>2 DEF SameQueue
  <2> QED BY <2>1, <2>3
<1>17. CASE wakeup_probe(t)
  BY <1>1, <1>17 DEF wakeup_probe
<1>18. CASE class_wakeup(t)
  <2>1. pc[t] # "suspended" /\ pc'[t] # "suspended"
    BY <1>1, <1>18 DEF class_wakeup
  <2>2. dq'.sc = dq.sc
    <3> HIDE DEF Word
    <3> QED BY <1>1, <1>18, EffectWakeup, QueueFacts DEF SameQueue
  <2> QED BY <2>1, <2>2
<1>19. CASE wakeup_enqueue(t)
  BY <1>1, <1>19 DEF wakeup_enqueue
<1>20. CASE handoff(t)
  BY <1>1, <1>20 DEF handoff
<1>21. CASE handoff_pop(t)
  BY <1>1, <1>21 DEF handoff_pop
<1>22. CASE transfer(t)
  <2>1. pc[t] # "suspended" /\ pc'[t] # "suspended"
    BY <1>1, <1>22 DEF transfer
  <2>2. dq'.sc = dq.sc
    <3> HIDE DEF Word
    <3> QED BY <1>1, <1>22, TransferMove DEF SameQueue
  <2> QED BY <2>1, <2>2
<1>23. CASE unlock_wakeup(t)
  <2>1. pc[t] # "suspended" /\ pc'[t] # "suspended"
    BY <1>1, <1>23 DEF unlock_wakeup
  <2>2. OwnsWidth(t) /\ dq.w \in Nat
    BY QueueFacts DEF QueueInv, Owns
  <2>3. owned[t] \in Parts /\ owned[t].w \in Int
    BY <2>2 DEF OwnsWidth, Parts
  <2>4. dq'.sc = dq.sc
    <3> HIDE DEF Word
    <3> QED BY <1>1, <1>23, EffectUnlockWakeup, <2>2, <2>3 DEF SameQueue
  <2> QED BY <2>1, <2>4
<1>24. CASE try_unlock(t, "release", "release_dirty")
  <2>1. pc[t] # "suspended" /\ pc'[t] # "suspended"
    BY <1>1, <1>24 DEF try_unlock
  <2>2. OwnsWidth(t) /\ dq.w \in Nat
    BY QueueFacts DEF QueueInv, Owns
  <2>3. owned[t] \in Parts /\ owned[t].w \in Int
    BY <2>2 DEF OwnsWidth, Parts
  <2>4. dq'.sc = dq.sc
    <3> HIDE DEF Word
    <3> QED BY <1>1, <1>24, EffectTryUnlock, <2>2, <2>3 DEF SameQueue
  <2> QED BY <2>1, <2>4
<1>25. CASE clear_dirty(t, "release_dirty", "handoff")
  <2>1. pc[t] # "suspended" /\ pc'[t] # "suspended"
    BY <1>1, <1>25 DEF clear_dirty
  <2>2. dq'.sc = dq.sc
    <3> HIDE DEF Word
    <3> QED BY <1>1, <1>25, EffectClearDirty DEF SameQueue
  <2> QED BY <2>1, <2>2
<1>26. CASE t \in Workers /\ root_pop(t)
  BY <1>1, <1>26 DEF root_pop
<1>27. CASE t \in Workers /\ drain_try_lock(t)
  <2>1. pc[t] # "suspended" /\ pc'[t] # "suspended"
    BY <1>1, <1>27 DEF drain_try_lock
  <2>2. dq'.sc = dq.sc
    <3> HIDE DEF Word
    <3> QED BY <1>1, <1>27, EffectLock DEF SameQueue
  <2> QED BY <2>1, <2>2
<1>28. CASE t \in Workers /\ drain(t)
  BY <1>1, <1>28 DEF drain
<1>29. CASE t \in Workers /\ drain_width(t)
  <2>1. pc[t] # "suspended" /\ pc'[t] # "suspended"
    BY <1>1, <1>29 DEF drain_width
  <2>2. dq'.sc = dq.sc
    <3> HIDE DEF Word
    <3> QED BY <1>1, <1>29, EffectWidth DEF SameQueue
  <2> QED BY <2>1, <2>2
<1>30. CASE t \in Workers /\ drain_pop(t)
  BY <1>1, <1>30 DEF drain_pop
<1>31. CASE t \in Workers /\ reenqueue(t)
  <2>1. pc[t] # "suspended" /\ pc'[t] # "suspended"
    BY <1>1, <1>31 DEF reenqueue
  <2>2. OwnsWidth(t) /\ HasLock(t) /\ AtHand(t) /\ pc[t] = "reenqueue"
    BY <1>31, AtHandIs DEF HasLock, Leaving, AtHand, reenqueue
  <2>3. owned[t] \in Parts /\ owned[t].ib \in 0..1 /\ owned[t].pb \in -1..0
    BY <2>2 DEF OwnsWidth, Parts
  <2>4. dq.ib = owned[t].ib /\ dq.pb = 0
    BY <1>1, <2>2, <2>3 DEF AtHand, Barred, Whole, Leaving
  <2>5. dq'.sc = dq.sc
    <3> HIDE DEF Word
    <3> QED BY <1>1, <1>31, EffectReenqueue, <2>3, <2>4 DEF SameQueue
  <2> QED BY <2>1, <2>5
<1>32. CASE t \in Workers /\ try_unlock(t, "unlock", "unlock_dirty")
  <2>1. pc[t] # "suspended" /\ pc'[t] # "suspended"
    BY <1>1, <1>32 DEF try_unlock
  <2>2. OwnsWidth(t) /\ dq.w \in Nat
    BY QueueFacts DEF QueueInv, Owns
  <2>3. owned[t] \in Parts /\ owned[t].w \in Int
    BY <2>2 DEF OwnsWidth, Parts
  <2>4. dq'.sc = dq.sc
    <3> HIDE DEF Word
    <3> QED BY <1>1, <1>32, EffectTryUnlock, <2>2, <2>3 DEF SameQueue
  <2> QED BY <2>1, <2>4
<1>33. CASE t \in Workers /\ clear_dirty(t, "unlock_dirty", "drain")
  <2>1. pc[t] # "suspended" /\ pc'[t] # "suspended"
    BY <1>1, <1>33 DEF clear_dirty
  <2>2. dq'.sc = dq.sc
    <3> HIDE DEF Word
    <3> QED BY <1>1, <1>33, EffectClearDirty DEF SameQueue
  <2> QED BY <2>1, <2>2
<1> HIDE DEF Goto, SetItem, SetOwned, SetFlags, local, history, Word, SuspendMove, Return,
             RunLabel, FirstStep, DrainOut
<1> QED
  BY <1>2, <1>3, <1>4, <1>5, <1>6, <1>7, <1>8, <1>9, <1>10, <1>11, <1>12, <1>13, <1>14, <1>15,
     <1>16, <1>17, <1>18, <1>19, <1>20, <1>21, <1>22, <1>23, <1>24, <1>25, <1>26, <1>27, <1>28,
     <1>29, <1>30, <1>31, <1>32, <1>33
     DEF Moves, Call, ClientStep, SharedStep, WorkerStep, Threads

(* The suspend count stays the number of threads between a suspend and its resume. *)
LEMMA SuspensionsStep ==
  ASSUME QueueInv, NEW t \in Threads, Moves(t)
  PROVE  Suspensions' /\ dq'.sc \in 0..Cardinality(Clients)
<1> DEFINE S == {c \in Clients : pc[c] = "suspended"}
           R == {c \in Clients : pc'[c] = "suspended"}
<1>1. dq.sc = Cardinality(S) /\ AloneMoves(t) /\ SuspendMove(t)
  BY OneThread, SuspendStep DEF QueueInv, Suspensions
<1>2. IsFiniteSet(S) /\ IsFiniteSet(R) /\ Cardinality(R) =< Cardinality(Clients)
      /\ Cardinality(Clients) \in Nat
  BY FS_Subset, FS_CardinalityType, NamesAssumption
<1>3. S \ {t} = R \ {t}
  BY <1>1 DEF AloneMoves, Threads
<1>4. /\ t \in S <=> t \in Clients /\ pc[t] = "suspended"
      /\ t \in R <=> t \in Clients /\ pc'[t] = "suspended"
  OBVIOUS
<1> HIDE DEF S, R
<1>5. /\ Cardinality(S) \in Nat /\ Cardinality(R) \in Nat
      /\ Cardinality(R) = Cardinality(S) + (IF t \in R THEN 1 ELSE 0) - (IF t \in S THEN 1 ELSE 0)
  BY <1>2, <1>3, CountMoves
<1>6. dq'.sc = Cardinality(R)
  BY <1>1, <1>4, <1>5 DEF SuspendMove
<1> QED BY <1>2, <1>5, <1>6 DEF Suspensions, R

\* The four steps of a thread that is back from its push.
WaitingStep(t) == \/ wakeup_probe(t) \/ class_wakeup(t) \/ wakeup_enqueue(t)
                  \/ t \in Clients /\ sync_wait(t)

(* What a waiting thread may do.                                             *)
LEMMA WaitingMoves ==
  ASSUME NEW t \in Threads, pc[t] \in Waiting, Moves(t)
  PROVE  WaitingStep(t)
<1> USE DEF Waiting, WaitingStep
<1>1. CASE t \in Clients /\ Call(t)
  BY <1>1 DEF Call, queue_suspend, dispatch_call
<1>2. CASE t \in Clients /\ ClientStep(t)
  BY <1>2 DEF ClientStep, async_f2, acquire_async, sync_f2, reserve_sync, barrier_sync,
      queue_push, apply_reserve, apply_relinquish, queue_resume
<1>3. CASE SharedStep(t)
  BY <1>3 DEF SharedStep, redirect, finish, non_barrier_complete, handoff, handoff_pop, transfer,
      unlock_wakeup, try_unlock, clear_dirty
<1>4. CASE WorkerStep(t)
  BY <1>4 DEF WorkerStep, root_pop, drain_try_lock, drain, drain_width, drain_pop, reenqueue,
      try_unlock, clear_dirty
<1> HIDE DEF Waiting, WaitingStep
<1> QED
  BY <1>1, <1>2, <1>3, <1>4 DEF Moves

(* A thread that was signaled keeps its item until it has seen the event.     *)
LEMMA SignaledStays ==
  ASSUME QueueInv, NEW t \in Threads, Moves(t), t \in signaled, t \in signaled'
  PROVE  pc'[t] \in Waiting /\ cur'[t] = cur[t]
<1>1. Word /\ Events /\ DrainLock /\ WidthAccounting /\ At /\ Owns /\ ThreadsAt /\ RootAt
  BY DEF QueueInv, At
<1>2. /\ pc[t] \in Waiting /\ cur[t] \in outstanding /\ cur[t] # None /\ cur[t].sync
      /\ Return(t) = "wait"
  BY <1>1 DEF Events, Return
<1>3. CASE wakeup_probe(t)
  BY <1>1, <1>2, <1>3 DEF wakeup_probe, Goto, local, Word, Waiting
<1>4. CASE wakeup_enqueue(t)
  BY <1>1, <1>2, <1>4 DEF wakeup_enqueue, Goto, local, Word, Waiting
<1>5. CASE sync_wait(t)
  BY <1>5 DEF sync_wait
<1>6. CASE class_wakeup(t)
  <2>1. dq.w >= Reserved /\ Reserved \in Nat
    BY QueueFacts
  <2>2. ~TakesBarrier(t, 0)
    <3>1. SUFFICES ASSUME dq.owner = None, dq.w = Reserved + 0 PROVE FALSE
      BY DEF TakesBarrier
    <3>2. ~HasLock(t)
      BY <1>1, <3>1, NamesAssumption DEF DrainLock
    <3>3. Taken(t) = 1
      BY <1>1, <3>2, TakenIs DEF HasLock
    <3>4. 1 =< Cardinality(Units)
      BY <1>1, <3>3, TakenBound
    <3> QED BY <1>1, <2>1, <3>1, <3>4, TakenBound
  <2>3. pc'[t] \in {Return(t), "enqueue"}
    BY <1>1, <1>6, <2>1, <2>2, EffectWakeup
  <2>4. cur' = cur
    BY <1>6 DEF class_wakeup
  <2> QED BY <1>2, <2>3, <2>4 DEF Waiting
<1> QED BY <1>2, <1>3, <1>4, <1>5, <1>6, WaitingMoves DEF WaitingStep

(* An event is signaled for a thread that waits for it.                      *)
LEMMA EventsStep ==
  ASSUME QueueInv, NEW t \in Threads, Moves(t)
  PROVE  Events'
<1> DEFINE Signaled(c) == /\ c \in Clients /\ cur'[c] \in outstanding' /\ cur'[c] # None
                          /\ cur'[c].sync /\ pc'[c] \in Waiting
<1>1. Word /\ ThreadsAt /\ Events /\ AloneMoves(t) /\ SignalMove(t) /\ Lists /\ Batches
  BY OneThread, SignalStep DEF QueueInv, At
<1>2. ASSUME NEW c \in Clients, cur[c] \in outstanding, cur[c].sync, cur[c] # None,
             cur'[c] = cur[c], pc[t] # "run" \/ c # t, pc'[c] \in Waiting
      PROVE  Signaled(c)
  <2>1. ~(pc[t] = "run" /\ cur[t] = cur[c])
    BY <1>1, <1>2, NamesAssumption DEF ThreadsAt, ClientAt, WorkerAt, Threads, InCallout
  <2>2. cur[c] \in outstanding'
    BY <1>1, <1>2, <2>1 DEF AloneMoves
  <2> QED BY <1>2, <2>2
<1>3. ASSUME NEW c \in signaled, c \in signaled' PROVE Signaled(c)
  <2>1. /\ c \in Clients /\ c \in Threads /\ cur[c] \in outstanding /\ cur[c] # None
        /\ cur[c].sync /\ pc[c] \in Waiting
    BY <1>1 DEF Events, Threads
  <2>2. CASE c = t
    BY <1>2, <1>3, <2>1, <2>2, SignaledStays DEF Waiting
  <2>3. CASE c # t
    <3>1. cur'[c] = cur[c] /\ pc'[c] = pc[c]
      BY <1>1, <2>1, <2>3 DEF AloneMoves
    <3> QED BY <1>2, <2>1, <2>3, <3>1
  <2> QED BY <2>2, <2>3
<1>4. ASSUME NEW c \in signaled', c \notin signaled PROVE Signaled(c)
  <2>1. CASE transfer(t)
    <3>1. PICK j \in 1..Len(batch[t]) : batch[t][j].by = c
      BY <1>4, <2>1, TransferFacts
    <3>2. /\ c \in Clients /\ cur[c] = batch[t][j] /\ batch[t][j].sync /\ batch[t][j] \in Items
          /\ batch[t][j] \in outstanding /\ pc'[c] \in Waiting /\ cur' = cur
      BY <2>1, <3>1, TransferFacts
    <3> QED BY <1>2, <2>1, <3>2, NamesAssumption DEF transfer
  <2>2. CASE /\ pc[t] = "pop" /\ Head(items).sync /\ signaled' = signaled \union {Head(items).by}
    <3>1. /\ c = Head(items).by /\ c \in Clients /\ c # t /\ cur[c] = Head(items)
          /\ Head(items) \in outstanding /\ pc[c] \in Waiting /\ Head(items) \in Items /\ c \in Threads
      BY <1>4, <2>2, PopFacts DEF Threads
    <3>2. cur'[c] = cur[c] /\ pc'[c] = pc[c]
      BY <1>1, <3>1 DEF AloneMoves
    <3> QED BY <1>2, <2>2, <3>1, <3>2, NamesAssumption
  <2> QED BY <1>1, <1>4, <2>1, <2>2 DEF SignalMove
<1> HIDE DEF Signaled
<1>5. \A c \in signaled' : Signaled(c)
  BY <1>3, <1>4
<1> QED BY <1>5 DEF Signaled, Events

\* What a step does to the list and to the batches.
ListMove(t) ==
  \/ /\ items' = items /\ batch' = batch /\ pc'[t] # "transfer"
     /\ pc[t] \notin {"push", "pop", "handoff_pop", "transfer"}
  \/ t \in Clients /\ queue_push(t)
  \/ t \in Workers /\ drain_pop(t)
  \/ handoff_pop(t)
  \/ transfer(t)

(* Only a push, two pops and the transfer change them.                        *)
LEMMA ListMoves ==
  ASSUME NEW t \in Threads, Word, Moves(t)
  PROVE  ListMove(t)
<1> USE DEF ListMove, Goto, local, history, Word, Return, RunLabel, FirstStep
<1>1. CASE t \in Clients /\ Call(t)
  BY <1>1 DEF Call, queue_suspend, dispatch_call
<1>2. CASE t \in Clients /\ ClientStep(t)
  BY <1>2 DEF ClientStep, async_f2, acquire_async, sync_f2, reserve_sync, barrier_sync,
      sync_wait, apply_reserve, apply_relinquish, queue_resume
<1>3. CASE SharedStep(t)
  BY <1>3 DEF SharedStep, redirect, finish, non_barrier_complete, wakeup_probe, class_wakeup,
      wakeup_enqueue, handoff, unlock_wakeup, try_unlock, clear_dirty
<1>4. CASE t \in Workers /\ WorkerStep(t)
  BY <1>4 DEF WorkerStep, root_pop, drain_try_lock, drain, DrainOut, drain_width, reenqueue,
      try_unlock, clear_dirty
<1> HIDE DEF ListMove, Goto, local, history, Word, Return, RunLabel, FirstStep
<1> QED
  BY <1>1, <1>2, <1>3, <1>4 DEF Moves

(* What a lock transfer takes out of the list is a prefix of slow items.      *)
LEMMA HandoffPopIs ==
  ASSUME QueueInv, NEW t \in Threads, handoff_pop(t)
  PROVE  \E n \in 1..Len(items) :
           /\ batch'[t] \in Seq(Items) /\ Len(batch'[t]) = n
           /\ \A j \in 1..n : batch'[t][j] = items[j] /\ items[j].sync
           /\ items' \in Seq(Items) /\ Len(items') = Len(items) - n
           /\ \A j \in 1..Len(items') : items'[j] = items[j + n] /\ j + n \in 1..Len(items)
           /\ IF Exclusive(Head(items)) THEN n = 1 ELSE \A j \in 1..n : ~Exclusive(items[j])
           /\ pc'[t] = "transfer" /\ signaled' = signaled
<1>1. Word /\ SeesHead(t) /\ items \in Seq(Items) /\ pc[t] = "handoff_pop"
  BY DEF QueueInv, Owns, Lists, handoff_pop
<1>2. items # <<>> /\ Head(items).sync
  BY <1>1 DEF SeesHead
<1>3. Len(items) \in Nat /\ Len(items) > 0 /\ Head(items) = items[1]
  BY <1>1, <1>2, Ends
<1> DEFINE b == IF Exclusive(Head(items)) THEN <<Head(items)>> ELSE SlowPrefix
<1>4. /\ batch'[t] = b /\ items' = SubSeq(items, Len(b) + 1, Len(items))
      /\ pc'[t] = "transfer" /\ signaled' = signaled
  BY <1>1 DEF handoff_pop, Goto, Word
<1>5. PICK n \in 1..Len(items) :
        /\ b \in Seq(Items) /\ Len(b) = n
        /\ \A j \in 1..n : b[j] = items[j] /\ items[j].sync
        /\ IF Exclusive(Head(items)) THEN n = 1 ELSE \A j \in 1..n : ~Exclusive(items[j])
  <2>1. CASE Exclusive(Head(items))
    <3>1. /\ b \in Seq(Items) /\ Len(b) = 1 /\ b[1] = items[1] /\ items[1].sync /\ 1 \in 1..Len(items)
      BY <1>1, <1>2, <1>3, <2>1
    <3> HIDE DEF b
    <3> QED BY <2>1, <3>1
  <2>2. CASE ~Exclusive(Head(items))
    <3>1. PICK n \in 1..Len(items) : /\ SlowPrefix = SubSeq(items, 1, n)
                                     /\ \A j \in 1..n : SlowReader(items[j])
      BY <1>1, <1>2, <2>2, SlowPrefixIs DEF SlowReader
    <3>2. b = SubSeq(items, 1, n)
      BY <2>2, <3>1
    <3> HIDE DEF b
    <3>3. b \in Seq(Items) /\ Len(b) = n /\ \A j \in 1..n : b[j] = items[j]
      BY <1>1, <1>3, <3>2
    <3> QED BY <2>2, <3>1, <3>3 DEF SlowReader
  <2> QED BY <2>1, <2>2
<1> HIDE DEF b
<1>6. /\ items' \in Seq(Items) /\ Len(items') = Len(items) - n
      /\ \A j \in 1..Len(items') : items'[j] = items[j + n] /\ j + n \in 1..Len(items)
  <2>1. items' = SubSeq(items, n + 1, Len(items))
    BY <1>4, <1>5
  <2> QED BY <1>1, <1>3, <2>1
<1> QED BY <1>4, <1>5, <1>6

StaysPlaced(i) == /\ cur'[i.by] = i /\ i \in outstanding' /\ i.by \notin signaled'
                  /\ pc'[i.by] \in Waiting \union Handing

(* Slow items stay where they are until their thread is signaled.             *)
LEMMA ListsStep ==
  ASSUME QueueInv, NEW t \in Threads, Moves(t)
  PROVE  Lists' /\ Batches'
<1>1. /\ Word /\ ThreadsAt /\ Lists /\ Batches /\ Events /\ SeesHead(t)
      /\ AloneMoves(t) /\ SignalMove(t) /\ ListMove(t)
  BY OneThread, SignalStep, ListMoves DEF QueueInv, At, Owns
<1>2. items \in Seq(Items) /\ Len(items) \in Nat
  BY <1>1 DEF Lists
<1>3. ASSUME NEW i \in Items, i.sync, Placed(i), i.by \notin signaled' PROVE StaysPlaced(i)
  BY <1>3, PlacedStep DEF Placed, StaysPlaced
<1> DEFINE BatchOK(u) ==
             /\ batch'[u] \in Seq(Items)
             /\ batch'[u] # <<>> <=> pc'[u] = "transfer"
             /\ \A j \in 1..Len(batch'[u]) :
                  /\ batch'[u][j].sync /\ StaysPlaced(batch'[u][j])
                  /\ \A k \in 1..Len(items') : items'[k] # batch'[u][j]
                  /\ \A k \in 1..Len(batch'[u]) : batch'[u][j] = batch'[u][k] => j = k
           ListOK == /\ items' \in Seq(Items)
                     /\ \A j \in 1..Len(items') : items'[j].sync => StaysPlaced(items'[j])
                     /\ \A j, k \in 1..Len(items') : items'[j].sync /\ items'[j] = items'[k] => j = k
<1>4. ASSUME ListOK, \A u \in Threads : BatchOK(u)
      PROVE  Lists' /\ Batches'
  BY <1>4 DEF Lists, Batches, Placed, StaysPlaced
<1>5. ASSUME HasLock(t), NEW u \in Threads \ {t} PROVE batch'[u] = <<>> /\ pc'[u] # "transfer"
  <2>1. ~HasLock(u)
    BY <1>5, QueueFacts
  <2>2. pc[u] # "transfer" /\ pc'[u] = pc[u] /\ batch'[u] = batch[u]
    BY <1>1, <1>5, <2>1 DEF HasLock, Handing, AloneMoves
  <2> QED BY <1>1, <2>2 DEF Batches
<1>6. ASSUME HasLock(t), NEW u \in Threads \ {t} PROVE BatchOK(u)
  <2>1. batch'[u] = <<>> /\ pc'[u] # "transfer"
    BY <1>5, <1>6
  <2> QED BY <2>1
<1>7. CASE /\ items' = items /\ batch' = batch /\ pc'[t] # "transfer"
           /\ pc[t] \notin {"push", "pop", "handoff_pop", "transfer"}
  <2>1. signaled' \subseteq signaled
    BY <1>1, <1>7 DEF SignalMove, transfer
  <2>2. ASSUME NEW i \in Items, i.sync, Placed(i) PROVE StaysPlaced(i)
    BY <1>3, <2>1, <2>2 DEF Placed
  <2>3. ListOK
    <3>1. ASSUME NEW j \in 1..Len(items), items[j].sync PROVE StaysPlaced(items[j])
      <4>1. items[j] \in Items /\ Placed(items[j])
        BY <1>1, <1>2, <3>1 DEF Lists
      <4> QED BY <2>2, <3>1, <4>1
    <3> QED BY <1>1, <1>7, <3>1 DEF Lists
  <2>4. ASSUME NEW u \in Threads PROVE BatchOK(u)
    <3>1. pc'[u] = "transfer" <=> pc[u] = "transfer"
      BY <1>1, <1>7 DEF AloneMoves
    <3>2. ASSUME NEW j \in 1..Len(batch[u]) PROVE StaysPlaced(batch[u][j])
      <4>1. batch[u][j] \in Items /\ batch[u][j].sync /\ Placed(batch[u][j])
        BY <1>1 DEF Batches
      <4> QED BY <2>2, <4>1
    <3> QED BY SMTT(60), <1>1, <1>7, <3>1, <3>2 DEF Batches
  <2> QED BY <1>4, <2>3, <2>4
<1>8. CASE t \in Clients /\ queue_push(t)
  <2>1. /\ items' = Append(items, cur[t]) /\ batch' = batch /\ signaled' = signaled /\ cur' = cur
        /\ outstanding' = outstanding /\ pc[t] = "push" /\ pc'[t] \in {"probe", Return(t)}
    BY <1>1, <1>8 DEF queue_push, history, Goto, Word
  <2>2. /\ cur[t] \in Items /\ cur[t] # None /\ cur[t].by = t /\ ItemOK(cur[t])
        /\ cur[t].sync => cur[t] \in outstanding
    BY <1>1, <1>8, <2>1 DEF ThreadsAt, ClientAt, Asking, ItemOK
  <2>3. ASSUME NEW i \in Items, i.sync, Placed(i) PROVE StaysPlaced(i) /\ i # cur[t]
    <3>1. StaysPlaced(i)
      BY <1>3, <2>1, <2>3 DEF Placed
    <3>2. i # cur[t]
      BY <2>1, <2>2, <2>3 DEF Placed, Waiting, Handing
    <3> QED BY <3>1, <3>2
  <2>4. cur[t].sync => StaysPlaced(cur[t])
    <3>1. SUFFICES ASSUME cur[t].sync PROVE StaysPlaced(cur[t])
      OBVIOUS
    <3>2. pc'[t] \in Waiting
      BY <2>1, <2>2, <3>1 DEF Return, Waiting
    <3>3. t \notin signaled
      BY <1>1, <2>1 DEF Events, Waiting
    <3> QED BY <2>1, <2>2, <3>1, <3>2, <3>3 DEF StaysPlaced
  <2>5. ListOK
    <3>1. /\ items' \in Seq(Items) /\ Len(items') = Len(items) + 1
          /\ items'[Len(items) + 1] = cur[t] /\ \A j \in 1..Len(items) : items'[j] = items[j]
      BY <1>2, <2>1, <2>2, Ends
    <3>2. ASSUME NEW j \in 1..Len(items), items[j].sync PROVE StaysPlaced(items[j]) /\ items[j] # cur[t]
      <4>1. items[j] \in Items /\ Placed(items[j])
        BY <1>1, <1>2, <3>2 DEF Lists
      <4> QED BY <2>3, <3>2, <4>1
    <3>3. \A j \in 1..Len(items') : items'[j].sync => StaysPlaced(items'[j])
      <4>1. SUFFICES ASSUME NEW j \in 1..Len(items'), items'[j].sync PROVE StaysPlaced(items'[j])
        OBVIOUS
      <4>2. CASE j \in 1..Len(items)
        BY <3>1, <3>2, <4>1, <4>2
      <4>3. CASE j = Len(items) + 1
        BY <2>4, <3>1, <4>1, <4>3
      <4> QED BY <1>2, <3>1, <4>2, <4>3
    <3>4. \A j, k \in 1..Len(items') : items'[j].sync /\ items'[j] = items'[k] => j = k
      <4>1. \A j, k \in 1..Len(items) : items[j].sync /\ items[j] = items[k] => j = k
        BY <1>1 DEF Lists
      <4> QED BY <1>2, <3>1, <3>2, <4>1
    <3> QED BY <3>1, <3>3, <3>4
  <2>6. ASSUME NEW u \in Threads PROVE BatchOK(u)
    <3>1. pc'[u] = "transfer" <=> pc[u] = "transfer"
      BY <1>1, <2>1 DEF AloneMoves, Return
    <3>2. ASSUME NEW j \in 1..Len(batch[u])
          PROVE  StaysPlaced(batch[u][j]) /\ \A k \in 1..Len(items') : items'[k] # batch[u][j]
      <4>1. batch[u][j] \in Items /\ batch[u][j].sync /\ Placed(batch[u][j])
            /\ \A k \in 1..Len(items) : items[k] # batch[u][j]
        BY <1>1 DEF Batches
      <4>2. StaysPlaced(batch[u][j]) /\ batch[u][j] # cur[t]
        BY <2>3, <4>1
      <4> QED BY <1>2, <2>1, <4>1, <4>2, Ends
    <3> QED BY ZenonT(60), <1>1, <2>1, <3>1, <3>2 DEF Batches
  <2> QED BY <1>4, <2>5, <2>6
<1>9. CASE t \in Workers /\ drain_pop(t)
  <2>1. items' = Tail(items) /\ pc[t] = "pop" /\ outstanding' = outstanding
    BY <1>9 DEF drain_pop, history
  <2>2. HasLock(t) /\ items # <<>>
    BY <1>1, <2>1 DEF HasLock, Draining, SeesHead
  <2>3. /\ Head(items) = items[1] /\ Head(items) \in Items /\ 1 \in 1..Len(items)
        /\ items' \in Seq(Items) /\ Len(items') = Len(items) - 1
        /\ \A j \in 1..Len(items') : items'[j] = items[j + 1] /\ j + 1 \in 1..Len(items)
    BY <1>2, <2>1, <2>2, Ends
  <2>4. signaled' = signaled \/ (Head(items).sync /\ signaled' = signaled \union {Head(items).by})
    BY <1>9 DEF drain_pop
  <2>5. ASSUME NEW j \in 1..Len(items'), items'[j].sync PROVE StaysPlaced(items'[j])
    <3>1. items'[j] \in Items /\ Placed(items'[j]) /\ items'[j] # Head(items)
      <4>1. \A k, m \in 1..Len(items) : items[k].sync /\ items[k] = items[m] => k = m
        BY <1>1 DEF Lists
      <4>2. items'[j] = items[j + 1] /\ j + 1 \in 1..Len(items) /\ j + 1 # 1
        BY <2>3
      <4> QED BY SMTT(60), <1>1, <1>2, <2>3, <2>5, <4>1, <4>2 DEF Lists
    <3>2. Head(items).sync => Placed(Head(items))
      BY <2>1, PopFacts
    <3>3. items'[j].by \notin signaled'
      BY <2>4, <3>1, <3>2 DEF Placed
    <3> QED BY <1>3, <2>5, <3>1, <3>3
  <2>6. ListOK
    <3>1. \A j, k \in 1..Len(items') : items'[j].sync /\ items'[j] = items'[k] => j = k
      BY <1>1, <2>3 DEF Lists
    <3> QED BY <2>3, <2>5, <3>1
  <2>7. BatchOK(t)
    <3>1. CASE /\ Exclusive(Head(items)) /\ Head(items).sync /\ pc'[t] = "transfer"
               /\ batch'[t] = <<Head(items)>> /\ signaled' = signaled
      <4>1. StaysPlaced(Head(items))
        BY <2>1, <2>3, <3>1, PopFacts, <1>3
      <4>2. \A k \in 1..Len(items') : items'[k] # Head(items)
        BY <1>1, <2>3, <3>1 DEF Lists
      <4>3. batch'[t] \in Seq(Items) /\ batch'[t] # <<>> /\ Len(batch'[t]) = 1 /\ batch'[t][1] = Head(items)
        BY <2>3, <3>1
      <4> QED BY <3>1, <4>1, <4>2, <4>3
    <3>2. CASE batch' = batch /\ pc'[t] # "transfer"
      BY <1>1, <2>1, <3>2 DEF Batches
    <3> QED BY <1>1, <1>9, <3>1, <3>2 DEF drain_pop, Goto, Word
  <2> QED BY <1>4, <1>6, <2>2, <2>6, <2>7
<1>10. CASE handoff_pop(t)
  <2>1. HasLock(t)
    BY <1>10 DEF HasLock, Handing, handoff_pop
  <2>2. PICK n \in 1..Len(items) :
           /\ batch'[t] \in Seq(Items) /\ Len(batch'[t]) = n
           /\ \A j \in 1..n : batch'[t][j] = items[j] /\ items[j].sync
           /\ items' \in Seq(Items) /\ Len(items') = Len(items) - n
           /\ \A j \in 1..Len(items') : items'[j] = items[j + n] /\ j + n \in 1..Len(items)
           /\ pc'[t] = "transfer" /\ signaled' = signaled
    BY <1>10, HandoffPopIs
  <2>3. ASSUME NEW j \in 1..Len(items), items[j].sync PROVE StaysPlaced(items[j])
    <3>1. items[j] \in Items /\ Placed(items[j])
      BY <1>1, <1>2, <2>3 DEF Lists
    <3> QED BY <1>3, <2>2, <2>3, <3>1 DEF Placed
  <2>4. \A j, k \in 1..Len(items) : items[j].sync /\ items[j] = items[k] => j = k
    BY <1>1 DEF Lists
  <2>5. ListOK
    <3>1. \A j \in 1..Len(items') : items'[j].sync => StaysPlaced(items'[j])
      BY <2>2, <2>3
    <3>2. ASSUME NEW j \in 1..Len(items'), NEW k \in 1..Len(items'), items'[j].sync,
                 items'[j] = items'[k]
          PROVE  j = k
      <4>1. j + n = k + n
        BY SMTT(60), <2>2, <2>4, <3>2
      <4> QED BY <4>1
    <3> QED BY <2>2, <3>1, <3>2
  <2>6. BatchOK(t)
    <3>1. \A j \in 1..n : j \in 1..Len(items) /\ \A k \in 1..Len(items') : k + n # j
      BY <1>2, <2>2
    <3>2. batch'[t] # <<>> /\ batch'[t] \in Seq(Items)
      BY <2>2
    <3>3. ASSUME NEW j \in 1..Len(batch'[t])
          PROVE  batch'[t][j].sync /\ StaysPlaced(batch'[t][j])
      BY <2>2, <2>3, <3>1
    <3>4. ASSUME NEW j \in 1..Len(batch'[t]), NEW k \in 1..Len(items')
          PROVE  items'[k] # batch'[t][j]
      <4>1. /\ j \in 1..Len(items) /\ batch'[t][j] = items[j] /\ items[j].sync
            /\ k + n \in 1..Len(items) /\ items'[k] = items[k + n]
        BY <2>2, <3>1
      <4>2. k + n # j
        BY <2>2, <3>1
      <4> QED BY <2>4, <4>1, <4>2
    <3>5. ASSUME NEW j \in 1..Len(batch'[t]), NEW k \in 1..Len(batch'[t]),
                 batch'[t][j] = batch'[t][k]
          PROVE  j = k
      <4>1. /\ j \in 1..Len(items) /\ k \in 1..Len(items) /\ items[j].sync
            /\ batch'[t][j] = items[j] /\ batch'[t][k] = items[k]
        BY <2>2, <3>1
      <4> QED BY <2>4, <3>5, <4>1
    <3>6. pc'[t] = "transfer"
      BY <2>2
    <3> QED BY <3>2, <3>3, <3>4, <3>5, <3>6
  <2> HIDE DEF ListOK, BatchOK
  <2> QED BY <1>4, <1>6, <2>1, <2>5, <2>6
<1>11. CASE transfer(t)
  <2>1. /\ items' = items /\ batch'[t] = <<>> /\ pc[t] = "transfer" /\ HasLock(t)
        /\ pc'[t] \in {"wait", "idle"}
        /\ signaled' = signaled \union {batch[t][j].by : j \in 1..Len(batch[t])}
        /\ \A j \in 1..Len(batch[t]) : cur[batch[t][j].by] = batch[t][j]
    <3>1. /\ HasLock(t) /\ pc'[t] \in {"wait", "idle"}
          /\ signaled' = signaled \union {batch[t][j].by : j \in 1..Len(batch[t])}
      BY Zenon, <1>1, <1>11, TransferFacts
    <3>2. \A j \in 1..Len(batch[t]) : cur[batch[t][j].by] = batch[t][j]
      BY Zenon, <1>1, <1>11, TransferFacts
    <3>3. items' = items /\ batch'[t] = <<>> /\ pc[t] = "transfer"
      BY <1>1, <1>11 DEF transfer, Word
    <3> QED BY <3>1, <3>2, <3>3
  <2>2. ASSUME NEW j \in 1..Len(items), items[j].sync PROVE StaysPlaced(items[j])
    <3>1. items[j] \in Items /\ Placed(items[j])
      BY <1>1, <1>2, <2>2 DEF Lists
    <3>2. \A k \in 1..Len(batch[t]) : items[j] # batch[t][k]
      BY <1>1 DEF Batches
    <3>3. items[j].by \notin signaled'
      BY <2>1, <3>1, <3>2 DEF Placed
    <3> QED BY <1>3, <2>2, <3>1, <3>3
  <2>3. ListOK
    BY <1>1, <2>1, <2>2 DEF Lists
  <2>4. BatchOK(t)
    BY <2>1
  <2> HIDE DEF ListOK, BatchOK
  <2> QED BY <1>4, <1>6, <2>1, <2>3, <2>4
<1> HIDE DEF ListOK, BatchOK
<1> QED BY <1>1, <1>7, <1>8, <1>9, <1>10, <1>11 DEF ListMove

(* What the updates of the state word need of their thread.                   *)
LEMMA ReadyIs ==
  ASSUME QueueInv, NEW t \in Threads
  PROVE  /\ Word /\ dq.w >= Reserved /\ dq.w \in Nat /\ owned[t] \in Parts /\ owned[t].w \in Int
         /\ pc[t] = "complete" => dq.ib = 0
         /\ pc[t] = "reenqueue" => /\ dq.ib = owned[t].ib /\ dq.pb = 0 /\ owned[t].pb \in -1..0
                                   /\ dq.w >= KeptWidth(owned[t])
<1>1. Word /\ Events /\ AtHand(t) /\ OwnsWidth(t)
  BY AtHandIs DEF QueueInv, AtHand
<1>2. owned[t] \in Parts /\ owned[t].w \in Int /\ owned[t].ib \in 0..1 /\ owned[t].pb \in -1..0
  BY <1>1 DEF OwnsWidth, Parts
<1>3. pc[t] = "complete" => dq.ib = 0
  <2>1. pc[t] = "complete" => t \notin signaled
    BY <1>1 DEF AtHand, Waiting
  <2>2. pc[t] = "complete" => ~HasLock(t)
    BY <2>1 DEF HasLock, Draining, Leaving, Handing, InCallout
  <2> QED BY <1>1, <2>2 DEF AtHand
<1>4. ASSUME pc[t] = "reenqueue" PROVE dq.ib = owned[t].ib /\ dq.pb = 0 /\ dq.w >= KeptWidth(owned[t])
  <2>1. HasLock(t) /\ (Barred(t) <=> owned[t].ib = 1)
    BY <1>4 DEF HasLock, Leaving, Barred, Whole
  <2>2. dq.pb = 0 /\ (dq.ib = 1 <=> owned[t].ib = 1) /\ dq.w >= Held(t)
    BY <1>1, <2>1 DEF AtHand
  <2>3. Held(t) = KeptWidth(owned[t])
    BY <1>1, <1>4, HeldIs DEF InCallout, Draining
  <2> QED BY <1>1, <1>2, <2>2, <2>3 DEF Word
<1> QED BY <1>1, <1>2, <1>3, <1>4, QueueFacts

\* The queue is on its way to the root queue, or from it to a drainer.
OnTheWay(t) == pc[t] \in {"enqueue", "lock"}
EnqueueMove(t) ==
  \/ /\ dq'.enq = dq.enq /\ (OnTheWay(t)' <=> OnTheWay(t))
     /\ \/ root' = root
        \/ cur[t] \in Items /\ root' = Append(root, cur[t])
        \/ root # <<>> /\ Head(root) # DQ /\ root' = Tail(root)
  \/ dq'.enq = dq.enq /\ OnTheWay(t) /\ ~OnTheWay(t)' /\ root' = Append(root, DQ)
  \/ /\ dq'.enq = dq.enq /\ ~OnTheWay(t) /\ OnTheWay(t)'
     /\ root # <<>> /\ Head(root) = DQ /\ root' = Tail(root)
  \/ root' = root /\ dq'.enq /\ ~dq.enq /\ ~OnTheWay(t) /\ OnTheWay(t)'
  \/ root' = root /\ dq'.enq = ~dq.enq /\ OnTheWay(t) /\ ~OnTheWay(t)'

(* The enqueued bit changes only where the root queue or a worker records it. *)
LEMMA EnqueueStep ==
  ASSUME QueueInv, NEW t \in Threads, Moves(t)
  PROVE  EnqueueMove(t)
<1> USE DEF EnqueueMove, OnTheWay, Goto, SetItem, SetOwned, SetFlags, local, history, Return,
            RunLabel, FirstStep, DrainOut, SameQueue
<1>1. /\ Word /\ dq.w >= Reserved /\ dq.w \in Nat /\ owned[t] \in Parts /\ owned[t].w \in Int
      /\ pc[t] = "complete" => dq.ib = 0
      /\ pc[t] = "reenqueue" => dq.ib = owned[t].ib /\ dq.pb = 0 /\ owned[t].pb \in -1..0
  BY ReadyIs
<1>2. DOMAIN pc = Threads
  BY <1>1 DEF Word
<1>3. ASSUME dq' = dq, root' = root, OnTheWay(t)' <=> OnTheWay(t) PROVE EnqueueMove(t)
  BY <1>3
<1>4. CASE t \in Clients /\ (queue_suspend(t) \/ queue_resume(t))
  BY <1>1, <1>2, <1>4, EffectSuspend, EffectResume DEF queue_suspend, queue_resume
<1>5. ASSUME t \in Clients, NEW k \in uses \cap Kinds, dispatch_call(t, k) PROVE EnqueueMove(t)
  BY <1>2, <1>3, <1>5 DEF dispatch_call
<1>6. CASE async_f2(t) \/ sync_f2(t) \/ queue_push(t) \/ sync_wait(t)
  BY <1>2, <1>3, <1>6 DEF async_f2, sync_f2, queue_push, sync_wait
<1>7. CASE acquire_async(t) \/ reserve_sync(t)
  BY <1>1, <1>2, <1>7, EffectReserve DEF acquire_async, reserve_sync
<1>8. CASE barrier_sync(t)
  BY Zenon, <1>1, <1>2, <1>8, EffectBarrierSync DEF barrier_sync
<1>9. CASE apply_reserve(t) \/ apply_relinquish(t)
  BY <1>1, <1>2, <1>9, EffectApply DEF apply_reserve, apply_relinquish
<1>10. CASE redirect(t)
  <2>1. cur[t] \in Items
    <3>1. ItemOK(cur[t])
      BY <1>10 DEF QueueInv, At, ThreadsAt, ClientAt, WorkerAt, Threads, redirect, Asking
    <3> QED BY <3>1 DEF ItemOK
  <2> QED BY <1>2, <1>10, <2>1 DEF redirect
<1>11. CASE finish(t) \/ wakeup_probe(t) \/ handoff(t) \/ handoff_pop(t) \/ drain(t) \/ drain_pop(t)
  BY <1>2, <1>3, <1>11 DEF finish, wakeup_probe, handoff, handoff_pop, drain, drain_pop
<1>12. CASE non_barrier_complete(t)
  BY <1>1, <1>2, <1>12, EffectComplete DEF non_barrier_complete
<1>13. CASE class_wakeup(t)
  BY <1>1, <1>2, <1>13, EffectWakeup DEF class_wakeup
<1>14. CASE wakeup_enqueue(t)
  BY <1>2, <1>14 DEF wakeup_enqueue
<1>15. CASE transfer(t)
  BY <1>2, <1>15, TransferMove DEF transfer
<1>16. CASE unlock_wakeup(t)
  BY <1>1, <1>2, <1>16, EffectUnlockWakeup DEF unlock_wakeup
<1>17. CASE try_unlock(t, "release", "release_dirty")
  BY <1>1, <1>2, <1>17, EffectTryUnlock DEF try_unlock
<1>18. CASE try_unlock(t, "unlock", "unlock_dirty")
  BY <1>1, <1>2, <1>18, EffectTryUnlock DEF try_unlock
<1>19. CASE clear_dirty(t, "release_dirty", "handoff")
  BY <1>1, <1>2, <1>19, EffectClearDirty DEF clear_dirty
<1>20. CASE clear_dirty(t, "unlock_dirty", "drain")
  BY <1>1, <1>2, <1>20, EffectClearDirty DEF clear_dirty
<1>21. CASE root_pop(t)
  BY <1>2, <1>21 DEF root_pop
<1>22. CASE drain_try_lock(t)
  BY <1>1, <1>2, <1>22, EffectLock DEF drain_try_lock
<1>23. CASE drain_width(t)
  BY <1>1, <1>2, <1>23, EffectWidth DEF drain_width
<1>24. CASE reenqueue(t)
  BY <1>1, <1>2, <1>24, EffectReenqueue DEF reenqueue
<1> HIDE DEF EnqueueMove
<1> QED
  BY <1>4, <1>5, <1>6, <1>7, <1>8, <1>9, <1>10, <1>11, <1>12, <1>13, <1>14, <1>15, <1>16, <1>17,
     <1>18, <1>19, <1>20, <1>21, <1>22, <1>23, <1>24
     DEF Moves, Call, ClientStep, SharedStep, WorkerStep

(* What an append and a removal do to the two counts over the root queue.     *)
LEMMA RootCounts ==
  ASSUME RootAt
  PROVE  LET Queued(q) == Cardinality({j \in 1..Len(q) : q[j] = DQ})
             Others(q) == Cardinality({j \in 1..Len(q) : q[j] # DQ})
         IN  /\ Queued(root) \in Nat /\ Others(root) \in Nat
             /\ \A e \in Items \union {DQ} :
                  /\ Queued(Append(root, e)) = Queued(root) + (IF e = DQ THEN 1 ELSE 0)
                  /\ Others(Append(root, e)) = Others(root) + (IF e # DQ THEN 1 ELSE 0)
             /\ root # <<>> =>
                  /\ Queued(Tail(root)) \in Nat /\ Others(Tail(root)) \in Nat
                  /\ Queued(root) = Queued(Tail(root)) + (IF Head(root) = DQ THEN 1 ELSE 0)
                  /\ Others(root) = Others(Tail(root)) + (IF Head(root) # DQ THEN 1 ELSE 0)
<1> DEFINE S == Items \union {DQ}
           Queued(q) == Cardinality({j \in 1..Len(q) : q[j] = DQ})
           Others(q) == Cardinality({j \in 1..Len(q) : q[j] # DQ})
<1>1. root \in Seq(S)
  BY DEF RootAt
<1>2. ASSUME NEW q \in Seq(S) PROVE Queued(q) = Count(q, {DQ}) /\ Others(q) = Count(q, Items)
  <2>1. \A j \in 1..Len(q) : (q[j] = DQ <=> q[j] \in {DQ}) /\ (q[j] # DQ <=> q[j] \in Items)
    BY NamesAssumption
  <2>2. {j \in 1..Len(q) : q[j] = DQ} = {j \in 1..Len(q) : q[j] \in {DQ}}
    BY <2>1
  <2>3. {j \in 1..Len(q) : q[j] # DQ} = {j \in 1..Len(q) : q[j] \in Items}
    BY <2>1
  <2> QED BY <2>2, <2>3 DEF Count
<1>3. ASSUME NEW P
      PROVE  /\ Count(root, P) \in Nat
             /\ \A e : Count(Append(root, e), P) = Count(root, P) + (IF e \in P THEN 1 ELSE 0)
             /\ root # <<>> => /\ Count(Tail(root), P) \in Nat
                               /\ Count(root, P) = Count(Tail(root), P)
                                                   + (IF Head(root) \in P THEN 1 ELSE 0)
  <2> HIDE DEF S
  <2> QED BY <1>1, CountEntries
<1> HIDE DEF Queued, Others
<1>4. ASSUME NEW e \in S
      PROVE  /\ Queued(Append(root, e)) = Queued(root) + (IF e = DQ THEN 1 ELSE 0)
             /\ Others(Append(root, e)) = Others(root) + (IF e # DQ THEN 1 ELSE 0)
  <2>1. Append(root, e) \in Seq(S)
    BY <1>1
  <2>2. e \in Items \/ e = DQ
    OBVIOUS
  <2>3. Queued(root) = Count(root, {DQ}) /\ Others(root) = Count(root, Items)
    <3> HIDE DEF S
    <3> QED BY <1>1, <1>2
  <2>4. /\ Queued(Append(root, e)) = Count(Append(root, e), {DQ})
        /\ Others(Append(root, e)) = Count(Append(root, e), Items)
    <3> HIDE DEF S
    <3> QED BY <1>2, <2>1
  <2> HIDE DEF S
  <2> QED BY <1>3, <2>2, <2>3, <2>4, NamesAssumption
<1>5. ASSUME root # <<>>
      PROVE  /\ Queued(Tail(root)) \in Nat /\ Others(Tail(root)) \in Nat
             /\ Queued(root) = Queued(Tail(root)) + (IF Head(root) = DQ THEN 1 ELSE 0)
             /\ Others(root) = Others(Tail(root)) + (IF Head(root) # DQ THEN 1 ELSE 0)
  <2>1. Tail(root) \in Seq(S) /\ Head(root) \in S
    <3> HIDE DEF S
    <3> QED BY <1>1, <1>5
  <2>2. Head(root) # DQ <=> Head(root) \in Items
    BY <2>1, NamesAssumption
  <2> HIDE DEF S
  <2> QED BY ZenonT(60), <1>1, <1>2, <1>3, <1>5, <2>1, <2>2
<1>6. Queued(root) \in Nat /\ Others(root) \in Nat
  <2> HIDE DEF S
  <2> QED BY <1>1, <1>2, <1>3
<1> QED BY <1>4, <1>5, <1>6 DEF Queued, Others

(* The queue is on the root queue at most once.                              *)
LEMMA EnqueuedOnceStep ==
  ASSUME QueueInv, NEW t \in Threads, Moves(t)
  PROVE  EnqueuedOnce'
<1> DEFINE S == {u \in Threads : pc[u] \in {"enqueue", "lock"}}
           R == {u \in Threads : pc'[u] \in {"enqueue", "lock"}}
           Queued(q) == Cardinality({j \in 1..Len(q) : q[j] = DQ})
<1>1. /\ AloneMoves(t) /\ EnqueueMove(t) /\ RootAt /\ ThreadsAt /\ dq.enq \in BOOLEAN
      /\ dq'.enq \in BOOLEAN /\ EnqueuedOnce
  BY OneThread, EnqueueStep, DataStep, StateFields DEF QueueInv, At, Word
<1>2. S \ {t} = R \ {t} /\ (t \in S <=> OnTheWay(t)) /\ (t \in R <=> OnTheWay(t)')
  BY <1>1 DEF AloneMoves, OnTheWay
<1>3. IsFiniteSet(S)
  BY ThreadsFinite, FS_Subset
<1>4. Queued(root) + Cardinality(S) = IF dq.enq THEN 1 ELSE 0
  BY <1>1 DEF EnqueuedOnce
<1>5. SUFFICES Queued(root') + Cardinality(R) = IF dq'.enq THEN 1 ELSE 0
  BY DEF EnqueuedOnce
<1> HIDE DEF S, R
<1>6. /\ Cardinality(S) \in Nat /\ Cardinality(R) \in Nat
      /\ Cardinality(R) = Cardinality(S) + (IF OnTheWay(t)' THEN 1 ELSE 0)
                                         - (IF OnTheWay(t) THEN 1 ELSE 0)
  BY <1>2, <1>3, CountMoves
<1>7. /\ Queued(root) \in Nat
      /\ \A e \in Items \union {DQ} : Queued(Append(root, e)) = Queued(root) + (IF e = DQ THEN 1 ELSE 0)
      /\ root # <<>> => /\ Queued(Tail(root)) \in Nat
                        /\ Queued(root) = Queued(Tail(root)) + (IF Head(root) = DQ THEN 1 ELSE 0)
  BY <1>1, RootCounts
<1>8. OnTheWay(t) => Cardinality(S) >= 1
  BY <1>2, <1>3, <1>6, FS_EmptySet
<1>9. cur[t] \in Items => Queued(Append(root, cur[t])) = Queued(root)
  <2> HIDE DEF Queued
  <2> QED BY <1>7, NamesAssumption
<1>10. Queued(Append(root, DQ)) = Queued(root) + 1
  <2> HIDE DEF Queued
  <2> QED BY <1>7
<1> HIDE DEF Queued
<1>11. CASE /\ dq'.enq = dq.enq /\ (OnTheWay(t)' <=> OnTheWay(t))
            /\ \/ root' = root
               \/ cur[t] \in Items /\ root' = Append(root, cur[t])
               \/ root # <<>> /\ Head(root) # DQ /\ root' = Tail(root)
  <2>1. Queued(root') = Queued(root)
    <3>1. CASE root # <<>> /\ Head(root) # DQ /\ root' = Tail(root)
      <4>1. /\ Queued(Tail(root)) \in Nat /\ Queued(root) = Queued(Tail(root)) + 0
        BY <1>7, <3>1
      <4> QED BY <3>1, <4>1
    <3> QED BY <1>9, <1>11, <3>1
  <2>2. Cardinality(R) = Cardinality(S)
    BY <1>6, <1>11
  <2> QED BY <1>4, <1>11, <2>1, <2>2
<1>12. CASE dq'.enq = dq.enq /\ OnTheWay(t) /\ ~OnTheWay(t)' /\ root' = Append(root, DQ)
  BY <1>4, <1>6, <1>7, <1>10, <1>12
<1>13. CASE /\ dq'.enq = dq.enq /\ ~OnTheWay(t) /\ OnTheWay(t)'
            /\ root # <<>> /\ Head(root) = DQ /\ root' = Tail(root)
  BY <1>4, <1>6, <1>7, <1>13
<1>14. CASE root' = root /\ dq'.enq /\ ~dq.enq /\ ~OnTheWay(t) /\ OnTheWay(t)'
  BY <1>4, <1>6, <1>7, <1>14
<1>15. CASE root' = root /\ dq'.enq = ~dq.enq /\ OnTheWay(t) /\ ~OnTheWay(t)'
  <2>1. dq.enq
    BY <1>4, <1>6, <1>7, <1>8, <1>15
  <2>2. ~dq'.enq
    BY <1>15, <2>1
  <2> QED BY <1>4, <1>6, <1>7, <1>15, <2>1, <2>2
<1> QED BY <1>1, <1>11, <1>12, <1>13, <1>14, <1>15 DEF EnqueueMove

-----------------------------------------------------------------------------
(* The width is what its holders have                                        *)

\* The width a thread has out of the state word, label by label (HeldIs), and
\* with what it was given through its item.
HeldAt(t) ==
  IF pc[t] \in InCallout THEN IF Exclusive(cur[t]) THEN Width ELSE 1 + owned[t].w
  ELSE IF pc[t] = "complete" THEN 1
  ELSE IF pc[t] = "transfer" THEN Width
  ELSE IF pc[t] = "redirect" THEN 1 + owned[t].w
  ELSE IF pc[t] \in Draining THEN IF owned[t].ib = 1 THEN Width ELSE owned[t].w
  ELSE KeptWidth(owned[t])
WidthOf(t) == IF t \in signaled THEN IF Exclusive(cur[t]) THEN Width ELSE 1 ELSE HeldAt(t)
WidthReads ==
  ThreadsAt /\ Owns /\ Events =>
    \A t \in Threads : /\ Taken(t) = WidthOf(t) /\ WidthOf(t) \in 0..(Width + 1)
                       /\ Held(t) = HeldAt(t) /\ HeldAt(t) \in 0..(Width + 1)

(* Nobody has more than the width and one unit.                              *)
LEMMA WidthOfIs == WidthReads
<1> SUFFICES ASSUME ThreadsAt, Owns, Events, NEW t \in Threads
             PROVE  /\ Taken(t) = WidthOf(t) /\ WidthOf(t) \in 0..(Width + 1)
                    /\ Held(t) = HeldAt(t) /\ HeldAt(t) \in 0..(Width + 1)
  BY DEF WidthReads
<1>1. OwnsWidth(t)
  BY DEF Owns
<1>2. Held(t) = HeldAt(t)
  BY <1>1, HeldIs DEF HeldAt
<1>3. Taken(t) = WidthOf(t)
  BY <1>2, TakenIs DEF WidthOf
<1>4. Width \in Nat /\ Width > 0
  BY WidthAssumption
<1>5. HeldAt(t) \in 0..(Width + 1)
  <2>1. CASE pc[t] \in InCallout
    <3>1. Exclusive(cur[t]) \/ owned[t].w \in 0..Width
      BY <1>1, <1>4, <2>1 DEF OwnsWidth, InCallout, Nothing
    <3> QED BY <1>4, <2>1, <3>1 DEF HeldAt
  <2>2. CASE pc[t] = "redirect"
    <3>1. owned[t].w \in Int /\ owned[t].w >= 0 /\ owned[t].w < Width
      BY <1>1, <2>2 DEF OwnsWidth
    <3> QED BY <1>4, <2>2, <3>1 DEF HeldAt, InCallout
  <2>3. CASE pc[t] \in Draining
    <3>1. owned[t].ib = 1 \/ owned[t].w \in 0..Width
      BY <1>1, <2>3 DEF OwnsWidth, InBarrier
    <3> QED BY <1>4, <2>3, <3>1 DEF HeldAt, InCallout, Draining
  <2>4. CASE pc[t] \in Leaving
    <3>1. KeptWidth(owned[t]) \in 0..Width
      BY <1>1, <1>4, <2>4 DEF OwnsWidth
    <3> QED BY <1>4, <2>4, <3>1 DEF HeldAt, InCallout, Draining, Leaving
  <2>5. CASE pc[t] \in Handing \ {"transfer"}
    <3>1. KeptWidth(owned[t]) = Width
      BY <1>1, <2>5 DEF OwnsWidth, KeptWidth, BarrierWidth, Handing
    <3> QED BY <1>4, <2>5, <3>1 DEF HeldAt, InCallout, Draining, Handing
  <2>6. CASE pc[t] \in {"idle", "suspended", "lock"} \union Asking \union Waiting
    <3>1. KeptWidth(owned[t]) = 0
      BY <1>1, <2>6 DEF OwnsWidth, KeptWidth, Nothing
    <3> QED BY <1>4, <2>6, <3>1 DEF HeldAt, InCallout, Draining, Asking, Waiting
  <2>7. CASE pc[t] \in {"complete", "transfer"}
    BY <1>4, <2>7 DEF HeldAt, InCallout
  <2>8. pc[t] \in {"idle", "suspended", "lock", "complete", "redirect", "transfer"} \union InCallout
                  \union Draining \union Leaving \union Asking \union Waiting \union Handing
    <3>1. CASE t \in Clients
      BY <3>1 DEF ThreadsAt, ClientAt
    <3>2. CASE t \in Workers
      BY <3>2 DEF ThreadsAt, WorkerAt, InCallout, Waiting
    <3> QED BY <3>1, <3>2 DEF Threads
  <2> HIDE DEF HeldAt
  <2> QED BY <2>1, <2>2, <2>3, <2>4, <2>5, <2>6, <2>7, <2>8
<1>6. WidthOf(t) \in 0..(Width + 1)
  BY <1>4, <1>5 DEF WidthOf
<1> QED BY <1>2, <1>3, <1>5, <1>6

\* The state word's share of a step of t, less what it reserves: what t takes, and
\* n redirected items leave the root queue with.
WidthMove(t) ==
  \E n \in Int : /\ Cardinality(Redirected)' = Cardinality(Redirected) - n
                 /\ dq'.w - Reserved' = dq.w - Reserved + WidthOf(t)' - WidthOf(t) - n

(* The redirected items of the root queue, in the same steps.                 *)
LEMMA RedirectedMove ==
  ASSUME RootAt
  PROVE  /\ Cardinality(Redirected) \in Nat
         /\ root' = root => Cardinality(Redirected)' = Cardinality(Redirected)
         /\ \A e \in Items : root' = Append(root, e) =>
              Cardinality(Redirected)' = Cardinality(Redirected) + 1
         /\ root' = Append(root, DQ) => Cardinality(Redirected)' = Cardinality(Redirected)
         /\ root # <<>> /\ root' = Tail(root) =>
              Cardinality(Redirected)' = Cardinality(Redirected) - (IF Head(root) # DQ THEN 1 ELSE 0)
<1> DEFINE Others(q) == Cardinality({j \in 1..Len(q) : q[j] # DQ})
<1>1. Cardinality(Redirected) = Others(root) /\ Cardinality(Redirected)' = Others(root')
  BY DEF Redirected
<1>2. /\ Others(root) \in Nat
      /\ \A e \in Items \union {DQ} : Others(Append(root, e)) = Others(root) + (IF e # DQ THEN 1 ELSE 0)
      /\ root # <<>> => /\ Others(Tail(root)) \in Nat
                        /\ Others(root) = Others(Tail(root)) + (IF Head(root) # DQ THEN 1 ELSE 0)
  BY RootCounts
<1> HIDE DEF Others
<1>3. \A e \in Items : Others(Append(root, e)) = Others(root) + 1
  BY <1>2, NamesAssumption
<1>4. Others(Append(root, DQ)) = Others(root)
  BY <1>2
<1>5. root # <<>> => Others(Tail(root)) = Others(root) - (IF Head(root) # DQ THEN 1 ELSE 0)
  BY <1>2
<1> QED BY <1>1, <1>2, <1>3, <1>4, <1>5

(* A step of a thread takes from the state word what it gives to the thread.   *)
LEMMA WidthStep ==
  ASSUME QueueInv, NEW t \in Threads, Moves(t), pc[t] # "transfer", ~PopsSyncReader(t)
  PROVE  WidthMove(t)
<1>1. /\ Word /\ dq.w >= Reserved /\ dq.w \in Nat /\ owned[t] \in Parts /\ owned[t].w \in Int
      /\ pc[t] = "complete" => dq.ib = 0
      /\ pc[t] = "reenqueue" => dq.ib = owned[t].ib /\ dq.pb = 0 /\ owned[t].pb \in -1..0
  BY ReadyIs
<1>2. /\ ThreadsAt /\ ThreadsAt' /\ OwnsWidth(t) /\ OwnsWidth(t)' /\ SeesHead(t) /\ Lists /\ AtHand(t)
      /\ Width \in Nat /\ Width > 0 /\ Reserved \in Nat /\ DOMAIN pc = Threads
      /\ DOMAIN cur = Threads /\ DOMAIN owned = Threads /\ dq.pb \in 0..1
      /\ SignalMove(t) /\ EnqueueMove(t) /\ RootAt
  BY ThreadsAtStep, OwnsStep, AtHandIs, SignalStep, EnqueueStep, QueueFacts, WidthAssumption
     DEF QueueInv, At, Owns, Word
<1>3. /\ WidthOf(t) \in Int /\ WidthOf(t)' \in Int /\ Cardinality(Redirected) \in Nat
  <2>1. WidthOf(t) \in 0..(Width + 1) /\ WidthOf(t)' \in 0..(Width + 1)
    <3>1. WidthReads /\ WidthReads'
      BY WidthOfIs, PTL
    <3>2. Owns /\ Events /\ Owns' /\ Events'
      BY OwnsStep, EventsStep DEF QueueInv
    <3> QED BY <1>2, <3>1, <3>2 DEF WidthReads
  <2>2. Cardinality(Redirected) \in Nat
    BY <1>2, RedirectedMove
  <2> QED BY <1>2, <2>1, <2>2
<1>4. ASSUME root' = root, dq'.w - Reserved' = dq.w - Reserved + WidthOf(t)' - WidthOf(t)
      PROVE  WidthMove(t)
  <2>1. Cardinality(Redirected)' = Cardinality(Redirected) - 0
    BY <1>3, <1>4 DEF Redirected
  <2>2. dq'.w - Reserved' = dq.w - Reserved + WidthOf(t)' - WidthOf(t) - 0
    BY <1>1, <1>2, <1>3, <1>4
  <2> QED BY <2>1, <2>2 DEF WidthMove
<1>5. ASSUME root' = root, dq'.w = dq.w, dq'.pb = dq.pb, WidthOf(t)' = WidthOf(t)
      PROVE  WidthMove(t)
  BY <1>1, <1>2, <1>3, <1>4, <1>5 DEF Reserved
<1>6. CASE t \in signaled
  <2>1. t \notin signaled' \/ (pc'[t] \in Waiting /\ cur'[t] = cur[t] /\ WidthOf(t)' = WidthOf(t))
    BY <1>6, SignaledStays DEF WidthOf
  <2>2. pc[t] \in Waiting /\ owned[t] = Nothing
    BY <1>2, <1>6 DEF AtHand, OwnsWidth
  <2>3. CASE wakeup_probe(t)
    <3>1. signaled' = signaled /\ root' = root /\ dq' = dq
      BY <2>3 DEF wakeup_probe
    <3> QED BY <1>5, <1>6, <2>1, <3>1
  <2>4. CASE wakeup_enqueue(t)
    <3>1. signaled' = signaled /\ root' = Append(root, DQ) /\ dq' = dq
      BY <2>4 DEF wakeup_enqueue
    <3>2. Cardinality(Redirected)' = Cardinality(Redirected) - 0
      BY <1>2, <1>3, <3>1, RedirectedMove
    <3>3. dq'.w - Reserved' = dq.w - Reserved + WidthOf(t)' - WidthOf(t) - 0
      BY <1>1, <1>2, <1>3, <1>6, <2>1, <3>1 DEF Reserved
    <3> QED BY <3>2, <3>3 DEF WidthMove
  <2>5. CASE class_wakeup(t)
    <3>1. signaled' = signaled /\ root' = root
      BY <2>5 DEF class_wakeup, history
    <3>2. KeepsLock /\ dq'.w = dq.w
      BY <1>1, <1>6, <2>1, <2>5, <3>1, EffectWakeup DEF Waiting
    <3> QED BY <1>5, <1>6, <2>1, <3>1, <3>2 DEF KeepsLock
  <2>6. CASE sync_wait(t)
    <3>1. /\ t \notin signaled' /\ root' = root /\ dq' = dq /\ cur' = cur /\ owned' = owned
          /\ pc'[t] \in InCallout
      BY <1>2, <2>6 DEF sync_wait, local, Goto, RunLabel, InCallout
    <3>2. WidthOf(t)' = WidthOf(t)
      BY <1>2, <1>6, <2>2, <3>1 DEF WidthOf, HeldAt, Nothing
    <3> QED BY <1>5, <3>1, <3>2
  <2> QED BY <2>2, <2>3, <2>4, <2>5, <2>6, WaitingMoves DEF WaitingStep
<1>7. ASSUME t \notin signaled
      PROVE  t \notin signaled' /\ WidthOf(t) = HeldAt(t) /\ WidthOf(t)' = HeldAt(t)'
  <2>1. t \notin signaled'
    BY <1>2, <1>7 DEF SignalMove, PopsSyncReader, transfer
  <2> QED BY <1>7, <2>1 DEF WidthOf
<1> DEFINE Bare == t \notin signaled
<1>8. ASSUME Bare, root' = root, dq'.w = dq.w, dq'.pb = dq.pb, HeldAt(t)' = HeldAt(t)
      PROVE  WidthMove(t)
  BY <1>5, <1>7, <1>8
<1>9. ASSUME Bare, root' = root, dq'.w - Reserved' = dq.w - Reserved + HeldAt(t)' - HeldAt(t)
      PROVE  WidthMove(t)
  BY <1>4, <1>7, <1>9
<1>10. ASSUME Bare, root' = root, NEW k \in 0..1, TakesBarrier(t, k), HeldAt(t) = k, HeldAt(t)' = Width
      PROVE  WidthMove(t)
  <2>1. dq.w = Reserved + k /\ dq'.w = Width /\ Reserved' = 0
    BY <1>10 DEF TakesBarrier, Reserved
  <2> QED BY <1>1, <1>2, <1>9, <1>10, <2>1
<1>11. ASSUME Bare, root' = root, Unlocks(owned[t]), dq.pb = 0, owned[t].pb \in -1..0,
              HeldAt(t) = KeptWidth(owned[t]), HeldAt(t)' = 0
       PROVE  WidthMove(t)
  <2>1. dq'.w = dq.w - owned[t].w /\ dq'.pb = 0 - owned[t].pb
    BY <1>11 DEF Unlocks
  <2>2. CASE owned[t].pb = 0
    BY <1>1, <1>2, <1>9, <1>11, <2>1, <2>2 DEF Reserved, KeptWidth
  <2>3. CASE owned[t].pb = -1
    BY <1>1, <1>2, <1>9, <1>11, <2>1, <2>3 DEF Reserved, KeptWidth
  <2> QED BY <1>11, <2>2, <2>3
<1> HIDE DEF Bare

<1> DEFINE Still == {"idle", "suspended", "lock"} \union Asking \union Waiting
<1>12. /\ pc[t] \in Still => HeldAt(t) = 0 /\ owned[t] = Nothing
       /\ pc'[t] \in Still => HeldAt(t)' = 0
  <2>1. KeptWidth(Nothing) = 0
    BY DEF KeptWidth, Nothing
  <2>2. /\ pc[t] \in Still => owned[t] = Nothing
        /\ pc'[t] \in Still => owned'[t] = Nothing
    BY <1>2 DEF OwnsWidth
  <2> QED BY <2>1, <2>2 DEF HeldAt, InCallout, Draining, Asking, Waiting
<1>13. /\ pc[t] \in Handing => HeldAt(t) = Width
       /\ pc'[t] \in Handing => HeldAt(t)' = Width
  <2>1. KeptWidth(BarrierWidth) = Width
    BY DEF KeptWidth, BarrierWidth
  <2>2. /\ pc[t] \in Handing \ {"transfer"} => KeptWidth(owned[t]) = Width
        /\ pc'[t] \in Handing \ {"transfer"} => KeptWidth(owned'[t]) = Width
    BY <1>2, <2>1 DEF OwnsWidth, Handing
  <2> QED BY <2>2 DEF HeldAt, InCallout, Draining, Handing
<1>14. /\ pc[t] \in Leaving => HeldAt(t) = KeptWidth(owned[t])
       /\ pc'[t] \in Leaving => HeldAt(t)' = KeptWidth(owned'[t])
  BY DEF HeldAt, InCallout, Draining, Leaving
<1>15. /\ pc[t] \in Draining => HeldAt(t) = IF owned[t].ib = 1 THEN Width ELSE owned[t].w
       /\ pc'[t] \in Draining => HeldAt(t)' = IF owned'[t].ib = 1 THEN Width ELSE owned'[t].w
  BY DEF HeldAt, InCallout, Draining
<1>16. /\ pc[t] \in InCallout => HeldAt(t) = IF Exclusive(cur[t]) THEN Width ELSE 1 + owned[t].w
       /\ pc'[t] \in InCallout => HeldAt(t)' = IF Exclusive(cur'[t]) THEN Width ELSE 1 + owned'[t].w
  BY DEF HeldAt
<1>17. /\ pc[t] = "redirect" => HeldAt(t) = 1 + owned[t].w
       /\ pc'[t] = "redirect" => HeldAt(t)' = 1 + owned'[t].w
       /\ pc[t] = "complete" => HeldAt(t) = 1
       /\ pc'[t] = "complete" => HeldAt(t)' = 1
  BY DEF HeldAt, InCallout
<1>18. ASSUME Bare, root' = root, dq'.w = dq.w, dq'.pb = dq.pb, pc[t] \in Still, pc'[t] \in Still
       PROVE  WidthMove(t)
  BY <1>8, <1>12, <1>18
<1>19. Return(t) \in {"wait", "idle"}
  BY DEF Return
<1>20. ASSUME NEW k \in 0..1, TakesBarrier(t, k), Bare, root' = root, HeldAt(t) = k, pc'[t] = "handoff"
       PROVE  WidthMove(t)
  BY <1>10, <1>13, <1>20 DEF Handing
<1> USE DEF Goto, SetItem, SetOwned, SetFlags, local, history
<1>21. ASSUME t \in Clients, Bare, NEW k \in uses \cap Kinds, dispatch_call(t, k)
       PROVE  WidthMove(t)
  <2>1. dq' = dq /\ root' = root /\ pc[t] = "idle"
    BY <1>21 DEF dispatch_call
  <2>2. pc'[t] \in Asking
    BY <1>2, <1>21 DEF dispatch_call, FirstStep, Asking
  <2> QED BY <1>18, <1>21, <2>1, <2>2
<1>22. CASE Bare /\ queue_suspend(t)
  <2>1. root' = root /\ pc[t] = "idle" /\ pc'[t] = "suspended"
    BY <1>2, <1>22 DEF queue_suspend
  <2>2. KeepsLock /\ dq'.w = dq.w
    BY <1>1, <1>22, EffectSuspend
  <2> QED BY <1>18, <1>22, <2>1, <2>2 DEF KeepsLock
<1>23. CASE Bare /\ queue_resume(t)
  <2>1. root' = root /\ pc[t] = "suspended"
    BY <1>23 DEF queue_resume
  <2>2. \/ TakesBarrier(t, 0) /\ pc'[t] = "handoff"
        \/ KeepsLock /\ dq'.w = dq.w /\ pc'[t] \in {"probe", "idle"}
    BY <1>1, <1>23, EffectResume
  <2>3. CASE TakesBarrier(t, 0) /\ pc'[t] = "handoff"
    BY <1>12, <1>20, <1>23, <2>1, <2>3
  <2>4. CASE KeepsLock /\ dq'.w = dq.w /\ pc'[t] \in {"probe", "idle"}
    BY <1>18, <1>23, <2>1, <2>4 DEF KeepsLock, Waiting
  <2> QED BY <2>2, <2>3, <2>4
<1>24. CASE Bare /\ (async_f2(t) \/ sync_f2(t) \/ queue_push(t))
  <2>1. dq' = dq /\ root' = root /\ pc[t] \in Asking
    BY <1>24 DEF async_f2, sync_f2, queue_push, Asking
  <2>2. pc'[t] \in Still
    BY <1>2, <1>19, <1>24 DEF async_f2, sync_f2, queue_push, Asking, Waiting
  <2> QED BY <1>18, <1>24, <2>1, <2>2
<1>25. CASE Bare /\ t \in Clients /\ (acquire_async(t) \/ reserve_sync(t))
  <2>1. root' = root /\ pc[t] \in {"acquire_async", "reserve_sync"} /\ owned' = owned /\ cur' = cur
    BY <1>25 DEF acquire_async, reserve_sync
  <2>2. /\ KeepsLock
        /\ \/ /\ dq'.w = dq.w + 1
              /\ pc'[t] = IF pc[t] = "acquire_async" THEN "redirect" ELSE RunLabel(cur[t])
           \/ dq'.w = dq.w /\ pc'[t] = "push"
    BY <1>1, <1>25, EffectReserve
  <2>3. pc[t] \in Asking
    BY <2>1 DEF Asking
  <2>4. HeldAt(t) = 0 /\ owned[t].w = 0
    BY <1>12, <2>3 DEF Nothing
  <2>5. CASE dq'.w = dq.w + 1 /\ pc'[t] = IF pc[t] = "acquire_async" THEN "redirect" ELSE RunLabel(cur[t])
    <3>1. pc[t] = "reserve_sync" => ~Exclusive(cur'[t])
      BY <1>2, <1>25, <2>1 DEF ThreadsAt, ClientAt
    <3>2. pc'[t] = "redirect" \/ (pc'[t] \in InCallout /\ ~Exclusive(cur'[t]))
      BY <2>1, <2>5, <3>1 DEF RunLabel, InCallout
    <3>3. owned'[t].w = 0
      BY <2>1, <2>4
    <3>4. HeldAt(t)' = 1
      BY <1>16, <1>17, <3>2, <3>3
    <3> QED BY <1>1, <1>2, <1>9, <1>25, <2>1, <2>2, <2>4, <2>5, <3>4 DEF KeepsLock, Reserved
  <2>6. CASE dq'.w = dq.w /\ pc'[t] = "push"
    BY <1>18, <1>25, <2>1, <2>2, <2>3, <2>6 DEF KeepsLock, Asking
  <2> QED BY <2>2, <2>5, <2>6
<1>26. CASE Bare /\ t \in Clients /\ barrier_sync(t)
  <2>1. root' = root /\ pc[t] = "barrier_sync" /\ owned' = owned /\ cur' = cur
    BY <1>26 DEF barrier_sync
  <2>2. \/ TakesBarrier(t, 0) /\ pc'[t] = RunLabel(cur[t])
        \/ KeepsLock /\ dq'.w = dq.w /\ pc'[t] = "push"
    BY <1>1, <1>26, EffectBarrierSync
  <2>3. pc[t] \in Asking
    BY <2>1 DEF Asking
  <2>4. CASE TakesBarrier(t, 0) /\ pc'[t] = RunLabel(cur[t])
    <3>1. Exclusive(cur'[t]) /\ pc'[t] \in InCallout
      BY <1>2, <1>26, <2>1, <2>4 DEF ThreadsAt, ClientAt, RunLabel, InCallout
    <3> QED BY <1>10, <1>12, <1>16, <1>26, <2>1, <2>3, <2>4, <3>1
  <2>5. CASE KeepsLock /\ dq'.w = dq.w /\ pc'[t] = "push"
    BY <1>18, <1>26, <2>1, <2>3, <2>5 DEF KeepsLock, Asking
  <2> QED BY <2>2, <2>4, <2>5
<1>27. CASE Bare /\ t \in Clients /\ (apply_reserve(t) \/ apply_relinquish(t))
  <2>1. /\ root' = root /\ cur' = cur /\ pc[t] \in {"apply", "apply_run"}
    BY <1>27 DEF apply_reserve, apply_relinquish
  <2>2. /\ KeepsLock
        /\ pc[t] = "apply" => /\ pc'[t] = "apply_run" /\ owned'[t].w \in 0..Width
                              /\ dq'.w = dq.w + owned'[t].w
        /\ pc[t] = "apply_run" => /\ pc'[t] = "run" /\ owned'[t] = Nothing
                                  /\ dq'.w = dq.w - owned[t].w
    BY <1>1, <1>27, EffectApply
  <2>3. ~Exclusive(cur[t]) /\ pc'[t] \in InCallout /\ pc[t] \in InCallout
    BY <1>2, <1>27, <2>1, <2>2 DEF ThreadsAt, ClientAt, ItemOK, InCallout
  <2>4. HeldAt(t) = 1 + owned[t].w /\ HeldAt(t)' = 1 + owned'[t].w
    BY <1>16, <2>1, <2>3
  <2>5. pc[t] = "apply" => owned[t].w = 0
    BY <1>2 DEF OwnsWidth, Nothing
  <2>6. pc[t] = "apply_run" => owned'[t].w = 0
    BY <2>2 DEF Nothing
  <2>7. Reserved' = Reserved
    BY <2>2 DEF Reserved, KeepsLock
  <2> QED BY <1>1, <1>2, <1>9, <1>27, <2>1, <2>2, <2>4, <2>5, <2>6, <2>7
<1>28. CASE Bare /\ redirect(t)
  <2>1. dq' = dq /\ pc[t] = "redirect" /\ root' = Append(root, cur[t]) /\ owned' = owned
    BY <1>28 DEF redirect
  <2>2. cur[t] \in Items
    BY <1>2, <2>1 DEF ThreadsAt, ClientAt, WorkerAt, Threads, Asking, ItemOK
  <2>3. HeldAt(t) = 1 + owned[t].w
    BY <1>17, <2>1
  <2>4. HeldAt(t)' = owned[t].w
    <3>1. CASE t \in Workers
      <4>1. pc'[t] = "drain" /\ owned'[t].ib = 0 /\ owned'[t].w = owned[t].w
        BY <1>2, <1>28, <2>1, <3>1 DEF redirect, OwnsWidth
      <4> QED BY <1>15, <4>1 DEF Draining
    <3>2. CASE t \notin Workers
      <4>1. pc'[t] = "idle" /\ owned[t] = Nothing
        BY <1>2, <1>28, <2>1, <3>2 DEF redirect, OwnsWidth, Threads
      <4> QED BY <1>12, <4>1 DEF Nothing
    <3> QED BY <3>1, <3>2
  <2>5. Cardinality(Redirected)' = Cardinality(Redirected) - (-1)
    BY <1>2, <1>3, <2>1, <2>2, RedirectedMove
  <2>6. dq'.w - Reserved' = dq.w - Reserved + WidthOf(t)' - WidthOf(t) - (-1)
    BY SMTT(60), <1>1, <1>2, <1>3, <1>7, <1>28, <2>1, <2>3, <2>4 DEF Reserved, Bare
  <2> QED BY <2>5, <2>6 DEF WidthMove
<1>29. CASE Bare /\ finish(t)
  <2>1. dq' = dq /\ root' = root /\ pc[t] = "run" /\ cur' = cur
    BY <1>29 DEF finish
  <2>2. ItemOK(cur[t])
    BY <1>2, <2>1 DEF ThreadsAt, ClientAt, WorkerAt, Threads, InCallout
  <2>3. owned[t] = IF t \in Workers /\ Exclusive(cur[t]) THEN InBarrier ELSE Nothing
    BY <1>2, <2>1 DEF OwnsWidth
  <2>4. HeldAt(t) = IF Exclusive(cur[t]) THEN Width ELSE 1
    BY <1>16, <2>1, <2>3 DEF InCallout, Nothing
  <2>5. CASE pc'[t] = "handoff" /\ cur[t].sync /\ cur[t].barrier
    BY <1>8, <1>13, <1>29, <2>1, <2>4, <2>5 DEF Handing, Exclusive
  <2>6. CASE pc'[t] = "drain" /\ ~cur[t].sync /\ Exclusive(cur[t]) /\ owned' = owned
    <3>1. t \in Workers
      BY <1>2, <2>1, <2>6 DEF ThreadsAt, ClientAt, Threads, InCallout
    <3>2. owned'[t].ib = 1
      BY <2>3, <2>6, <3>1 DEF InBarrier
    <3> QED BY <1>8, <1>15, <1>29, <2>1, <2>4, <2>6, <3>2 DEF Draining
  <2>7. CASE pc'[t] = "complete" /\ ~Exclusive(cur[t])
    BY <1>8, <1>17, <1>29, <2>1, <2>4, <2>7
  <2> QED BY <1>2, <1>29, <2>5, <2>6, <2>7 DEF finish
<1>30. CASE Bare /\ non_barrier_complete(t)
  <2>1. root' = root /\ pc[t] = "complete" /\ HeldAt(t) = 1
    BY <1>17, <1>30 DEF non_barrier_complete
  <2>2. \/ TakesBarrier(t, 1) /\ pc'[t] = "handoff"
        \/ KeepsLock /\ dq'.w = dq.w - 1 /\ pc'[t] \in {"probe", Return(t)}
    BY <1>1, <1>30, <2>1, EffectComplete
  <2>3. CASE TakesBarrier(t, 1) /\ pc'[t] = "handoff"
    BY <1>20, <1>30, <2>1, <2>3
  <2>4. CASE KeepsLock /\ dq'.w = dq.w - 1 /\ pc'[t] \in {"probe", Return(t)}
    <3>1. HeldAt(t)' = 0
      BY <1>12, <1>19, <2>4 DEF Waiting
    <3> QED BY <1>1, <1>2, <1>9, <1>30, <2>1, <2>4, <3>1 DEF KeepsLock, Reserved
  <2> QED BY <2>2, <2>3, <2>4
<1>31. CASE Bare /\ wakeup_probe(t)
  <2>1. dq' = dq /\ root' = root /\ pc[t] = "probe"
    BY <1>31 DEF wakeup_probe
  <2>2. pc'[t] \in Still
    BY <1>2, <1>19, <1>31 DEF wakeup_probe, Waiting
  <2> QED BY <1>18, <1>31, <2>1, <2>2 DEF Waiting
<1>32. CASE Bare /\ class_wakeup(t)
  <2>1. root' = root /\ pc[t] = "wakeup"
    BY <1>32 DEF class_wakeup
  <2>2. \/ TakesBarrier(t, 0) /\ pc'[t] = "handoff"
        \/ KeepsLock /\ dq'.w = dq.w /\ pc'[t] \in {"enqueue", Return(t)}
    BY <1>1, <1>32, EffectWakeup
  <2>3. pc[t] \in Still
    BY <2>1 DEF Waiting
  <2>4. CASE TakesBarrier(t, 0) /\ pc'[t] = "handoff"
    BY <1>12, <1>20, <1>32, <2>1, <2>3, <2>4
  <2>5. CASE KeepsLock /\ dq'.w = dq.w /\ pc'[t] \in {"enqueue", Return(t)}
    <3>1. pc'[t] \in Still
      BY <1>19, <2>5 DEF Waiting
    <3> QED BY <1>18, <1>32, <2>1, <2>3, <2>5, <3>1 DEF KeepsLock
  <2> QED BY <2>2, <2>4, <2>5
<1>33. CASE Bare /\ wakeup_enqueue(t)
  <2>1. dq' = dq /\ root' = Append(root, DQ) /\ pc[t] = "enqueue" /\ pc'[t] \in {"wait", "idle"}
    BY <1>2, <1>19, <1>33 DEF wakeup_enqueue
  <2>2. HeldAt(t) = 0 /\ HeldAt(t)' = 0
    BY <1>12, <2>1 DEF Waiting
  <2>3. Cardinality(Redirected)' = Cardinality(Redirected) - 0
    BY <1>2, <1>3, <2>1, RedirectedMove
  <2>4. dq'.w - Reserved' = dq.w - Reserved + WidthOf(t)' - WidthOf(t) - 0
    BY <1>1, <1>2, <1>3, <1>7, <1>33, <2>1, <2>2 DEF Reserved, Bare
  <2> QED BY <2>3, <2>4 DEF WidthMove
<1>34. CASE Bare /\ (handoff(t) \/ handoff_pop(t))
  <2>1. dq' = dq /\ root' = root /\ pc[t] \in Handing
    BY <1>34 DEF handoff, handoff_pop, Handing
  <2>2. pc'[t] \in Handing
    BY <1>2, <1>34 DEF handoff, handoff_pop, Handing
  <2> QED BY <1>8, <1>13, <1>34, <2>1, <2>2
<1>35. ASSUME pc[t] \in Handing \union Leaving
       PROVE  dq.pb = 0 /\ owned[t].pb \in -1..0
              /\ (pc[t] # "transfer" => HeldAt(t) = KeptWidth(owned[t]))
  <2>1. HasLock(t)
    BY <1>35 DEF HasLock
  <2> QED BY <1>2, <1>35, <2>1
          DEF AtHand, OwnsWidth, HeldAt, InCallout, Draining, Leaving, Handing
<1>36. ASSUME Bare, root' = root, pc[t] \in Handing \union Leaving, pc[t] # "transfer",
              Unlocks(owned[t]), pc'[t] \in Still
       PROVE  WidthMove(t)
  BY <1>11, <1>12, <1>35, <1>36
<1>37. CASE Bare /\ unlock_wakeup(t)
  <2>1. root' = root /\ pc[t] = "unlock_wakeup"
    BY <1>37 DEF unlock_wakeup
  <2>2. Unlocks(owned[t]) /\ pc'[t] \in {"probe", Return(t)}
    BY <1>1, <1>37, EffectUnlockWakeup
  <2> QED BY <1>19, <1>36, <1>37, <2>1, <2>2 DEF Handing, Waiting
<1>38. CASE Bare /\ try_unlock(t, "release", "release_dirty")
  <2>1. root' = root /\ pc[t] = "release"
    BY <1>38 DEF try_unlock
  <2>2. \/ KeepsLock /\ dq'.w = dq.w /\ pc'[t] = "release_dirty"
        \/ Unlocks(owned[t]) /\ pc'[t] = Return(t)
    BY <1>1, <1>38, EffectTryUnlock
  <2>3. CASE KeepsLock /\ dq'.w = dq.w /\ pc'[t] = "release_dirty"
    BY <1>8, <1>13, <1>38, <2>1, <2>3 DEF KeepsLock, Handing
  <2>4. CASE Unlocks(owned[t]) /\ pc'[t] = Return(t)
    BY <1>19, <1>36, <1>38, <2>1, <2>4 DEF Handing, Waiting
  <2> QED BY <2>2, <2>3, <2>4
<1>39. CASE Bare /\ try_unlock(t, "unlock", "unlock_dirty")
  <2>1. root' = root /\ pc[t] = "unlock"
    BY <1>39 DEF try_unlock
  <2>2. \/ KeepsLock /\ dq'.w = dq.w /\ owned' = owned /\ pc'[t] = "unlock_dirty"
        \/ Unlocks(owned[t]) /\ pc'[t] = Return(t)
    BY <1>1, <1>39, EffectTryUnlock
  <2>3. CASE KeepsLock /\ dq'.w = dq.w /\ owned' = owned /\ pc'[t] = "unlock_dirty"
    BY <1>8, <1>14, <1>39, <2>1, <2>3 DEF KeepsLock, Leaving
  <2>4. CASE Unlocks(owned[t]) /\ pc'[t] = Return(t)
    BY <1>19, <1>36, <1>39, <2>1, <2>4 DEF Leaving, Waiting
  <2> QED BY <2>2, <2>3, <2>4
<1>40. CASE Bare /\ clear_dirty(t, "release_dirty", "handoff")
  <2>1. root' = root /\ pc[t] = "release_dirty" /\ pc'[t] = "handoff"
    BY <1>2, <1>40 DEF clear_dirty
  <2>2. KeepsLock /\ dq'.w = dq.w
    BY <1>1, <1>40, EffectClearDirty
  <2> QED BY <1>8, <1>13, <1>40, <2>1, <2>2 DEF KeepsLock, Handing
<1>41. CASE Bare /\ clear_dirty(t, "unlock_dirty", "drain")
  <2>1. /\ root' = root /\ pc[t] = "unlock_dirty" /\ pc'[t] = "drain"
        /\ owned'[t] = IF owned[t].ib = 1 THEN InBarrier ELSE owned[t]
    BY <1>2, <1>41 DEF clear_dirty
  <2>2. KeepsLock /\ dq'.w = dq.w
    BY <1>1, <1>41, EffectClearDirty
  <2>3. HeldAt(t) = IF owned[t].ib = 1 THEN Width ELSE owned[t].w
    BY <1>2, <1>14, <2>1 DEF OwnsWidth, Leaving, KeptWidth
  <2>4. HeldAt(t)' = IF owned[t].ib = 1 THEN Width ELSE owned[t].w
    BY <1>15, <2>1 DEF Draining, InBarrier
  <2> QED BY <1>8, <1>41, <2>1, <2>2, <2>3, <2>4 DEF KeepsLock
<1>42. CASE Bare /\ t \in Workers /\ root_pop(t)
  <2>1. /\ dq' = dq /\ root # <<>> /\ root' = Tail(root) /\ pc[t] = "idle" /\ owned' = owned
    BY <1>42 DEF root_pop
  <2>2. HeldAt(t) = 0 /\ owned[t].w = 0
    BY <1>12, <2>1 DEF Nothing
  <2>3. Cardinality(Redirected)' = Cardinality(Redirected) - (IF Head(root) # DQ THEN 1 ELSE 0)
    BY <1>2, <2>1, RedirectedMove
  <2>4. CASE Head(root) = DQ
    <3>1. pc'[t] = "lock"
      BY <1>2, <1>42, <2>4 DEF root_pop
    <3>2. HeldAt(t)' = 0
      BY <1>12, <3>1
    <3>3. Cardinality(Redirected)' = Cardinality(Redirected) - 0
      BY <2>3, <2>4
    <3>4. dq'.w - Reserved' = dq.w - Reserved + WidthOf(t)' - WidthOf(t) - 0
      BY <1>1, <1>2, <1>3, <1>7, <1>42, <2>1, <2>2, <3>2 DEF Reserved, Bare
    <3> QED BY <3>3, <3>4 DEF WidthMove
  <2>5. CASE Head(root) # DQ
    <3>1. pc'[t] = "run" /\ cur'[t] = Head(root)
      BY <1>2, <1>42, <2>5 DEF root_pop
    <3>2. ~Exclusive(cur'[t])
      <4>1. Head(root) = root[1] /\ 1 \in 1..Len(root)
        BY <1>2, <2>1, Ends DEF RootAt
      <4> QED BY <1>2, <2>5, <3>1, <4>1 DEF RootAt, Reader
    <3>3. HeldAt(t)' = 1
      BY <1>16, <2>1, <2>2, <3>1, <3>2 DEF InCallout
    <3>4. Cardinality(Redirected)' = Cardinality(Redirected) - 1
      BY <2>3, <2>5
    <3>5. dq'.w - Reserved' = dq.w - Reserved + WidthOf(t)' - WidthOf(t) - 1
      BY <1>1, <1>2, <1>3, <1>7, <1>42, <2>1, <2>2, <3>3 DEF Reserved, Bare
    <3> QED BY <3>4, <3>5 DEF WidthMove
  <2> QED BY <2>4, <2>5
<1>43. CASE Bare /\ drain_try_lock(t)
  <2>1. root' = root /\ pc[t] = "lock" /\ HeldAt(t) = 0
    BY <1>12, <1>43 DEF drain_try_lock
  <2>2. \/ /\ dq.w < Width /\ dq'.w = Width /\ dq'.pb = 0 /\ pc'[t] = "drain"
           /\ \/ BarrierFree(dq) /\ owned'[t] = InBarrier
              \/ ~BarrierFree(dq) /\ owned'[t] = JustWidth(Width - dq.w)
        \/ KeepsLock /\ dq'.w = dq.w /\ pc'[t] = "idle"
    BY <1>1, <1>43, EffectLock
  <2>3. CASE dq.w < Width /\ dq'.w = Width /\ dq'.pb = 0 /\ pc'[t] = "drain"
             /\ BarrierFree(dq) /\ owned'[t] = InBarrier
    <3>1. dq.w = Reserved /\ Reserved' = 0
      BY <1>1, <1>2, <2>3 DEF BarrierFree, Reserved
    <3>2. HeldAt(t)' = Width
      BY <1>15, <2>3 DEF Draining, InBarrier
    <3> QED BY <1>1, <1>2, <1>9, <1>43, <2>1, <2>3, <3>1, <3>2
  <2>4. CASE dq.w < Width /\ dq'.w = Width /\ dq'.pb = 0 /\ pc'[t] = "drain"
             /\ ~BarrierFree(dq) /\ owned'[t] = JustWidth(Width - dq.w)
    <3>1. Reserved = 0 /\ Reserved' = 0
      BY <2>4 DEF BarrierFree, Reserved
    <3>2. HeldAt(t)' = Width - dq.w
      BY <1>15, <2>4 DEF Draining, JustWidth
    <3> QED BY <1>1, <1>2, <1>9, <1>43, <2>1, <2>4, <3>1, <3>2
  <2>5. CASE KeepsLock /\ dq'.w = dq.w /\ pc'[t] = "idle"
    BY <1>18, <1>43, <2>1, <2>5 DEF KeepsLock
  <2> QED BY <2>2, <2>3, <2>4, <2>5
<1>44. CASE Bare /\ drain(t)
  <2>1. dq' = dq /\ root' = root /\ pc[t] = "drain"
    BY <1>44 DEF drain
  <2>2. HeldAt(t) = IF owned[t].ib = 1 THEN Width ELSE owned[t].w
    BY <1>15, <2>1 DEF Draining
  <2>3. \/ pc'[t] \in {"pop", "width"} /\ owned' = owned
        \/ /\ pc'[t] \in {"unlock", "reenqueue"}
           /\ KeptWidth(owned'[t]) = (IF owned[t].ib = 1 THEN Width ELSE owned[t].w)
    BY <1>1, <1>2, <1>44, EffectDrain
  <2>4. HeldAt(t)' = HeldAt(t)
    BY <1>14, <1>15, <2>2, <2>3 DEF Draining, Leaving
  <2> QED BY <1>8, <1>44, <2>1, <2>4
<1>45. CASE Bare /\ drain_width(t)
  <2>1. root' = root /\ pc[t] = "width"
    BY <1>45 DEF drain_width
  <2>2. HeldAt(t) = IF owned[t].ib = 1 THEN Width ELSE owned[t].w
    BY <1>15, <2>1 DEF Draining
  <2>3. /\ dq'.pb = dq.pb
        /\ \/ owned[t] = InBarrier /\ dq'.w = dq.w /\ owned'[t] = JustWidth(Width) /\ pc'[t] = "pop"
           \/ owned[t] = Nothing /\ dq'.w = dq.w + 1 /\ owned'[t] = JustWidth(1) /\ pc'[t] = "pop"
           \/ /\ dq'.w = dq.w /\ owned' = owned
              /\ \/ owned[t] = Nothing /\ pc'[t] = "unlock"
                 \/ pc'[t] = "pop"
    BY <1>1, <1>45, EffectWidth
  <2>4. CASE owned[t] = InBarrier /\ dq'.w = dq.w /\ owned'[t] = JustWidth(Width) /\ pc'[t] = "pop"
    <3>1. HeldAt(t) = Width /\ HeldAt(t)' = Width
      BY <1>15, <2>2, <2>4 DEF Draining, InBarrier, JustWidth
    <3> QED BY <1>8, <1>45, <2>1, <2>3, <2>4, <3>1
  <2>5. CASE owned[t] = Nothing /\ dq'.w = dq.w + 1 /\ owned'[t] = JustWidth(1) /\ pc'[t] = "pop"
    <3>1. HeldAt(t) = 0 /\ HeldAt(t)' = 1
      BY <1>15, <2>2, <2>5 DEF Draining, Nothing, JustWidth
    <3> QED BY <1>1, <1>2, <1>9, <1>45, <2>1, <2>3, <2>5, <3>1 DEF Reserved
  <2>6. CASE dq'.w = dq.w /\ owned' = owned /\ owned[t] = Nothing /\ pc'[t] = "unlock"
    <3>1. HeldAt(t) = 0 /\ HeldAt(t)' = 0
      BY <1>14, <2>2, <2>6 DEF Leaving, Nothing, KeptWidth
    <3> QED BY <1>8, <1>45, <2>1, <2>3, <2>6, <3>1
  <2>7. CASE dq'.w = dq.w /\ owned' = owned /\ pc'[t] = "pop"
    <3>1. HeldAt(t)' = HeldAt(t)
      BY <1>15, <2>2, <2>7 DEF Draining
    <3> QED BY <1>8, <1>45, <2>1, <2>3, <2>7, <3>1
  <2> QED BY <2>3, <2>4, <2>5, <2>6, <2>7
<1>46. CASE Bare /\ drain_pop(t)
  <2>1. dq' = dq /\ root' = root /\ pc[t] = "pop"
    BY <1>46 DEF drain_pop
  <2>2. IF Exclusive(Head(items)) THEN owned[t] = InBarrier ELSE owned[t].ib = 0
    BY <1>2, <2>1 DEF SeesHead
  <2>3. HeldAt(t) = IF Exclusive(Head(items)) THEN Width ELSE owned[t].w
    BY <1>15, <2>1, <2>2 DEF Draining, InBarrier
  <2>4. CASE Exclusive(Head(items)) /\ Head(items).sync
    <3>1. pc'[t] = "transfer"
      BY <1>2, <1>46, <2>4 DEF drain_pop
    <3> QED BY <1>8, <1>13, <1>46, <2>1, <2>3, <2>4, <3>1 DEF Handing
  <2>5. CASE Exclusive(Head(items)) /\ ~Head(items).sync
    <3>1. pc'[t] = "run" /\ cur'[t] = Head(items)
      BY <1>2, <1>46, <2>5 DEF drain_pop
    <3> QED BY <1>8, <1>16, <1>46, <2>1, <2>3, <2>5, <3>1 DEF InCallout
  <2>6. CASE ~Exclusive(Head(items)) /\ ~Head(items).sync
    <3>1. pc'[t] = "redirect" /\ owned'[t] = [owned[t] EXCEPT !.w = @ - 1]
      BY <1>2, <1>46, <2>6 DEF drain_pop
    <3>2. owned'[t].w = owned[t].w - 1
      BY <1>1, <3>1 DEF Parts
    <3>3. HeldAt(t)' = owned[t].w
      BY <1>1, <1>17, <3>1, <3>2
    <3> QED BY <1>8, <1>46, <2>1, <2>3, <2>6, <3>3
  <2> QED BY <2>1, <2>4, <2>5, <2>6 DEF PopsSyncReader
<1>47. CASE Bare /\ reenqueue(t)
  <2>1. root' = root /\ pc[t] = "reenqueue" /\ HeldAt(t) = KeptWidth(owned[t])
    BY <1>14, <1>47 DEF reenqueue, Leaving
  <2>2. \/ /\ owned[t].pb = -1 /\ dq'.w = dq.w - owned[t].w + 1 /\ dq'.pb = 0
           /\ owned'[t] = InBarrier /\ pc'[t] = "drain"
        \/ Unlocks(owned[t]) /\ pc'[t] \in {"idle", "enqueue"}
    BY <1>1, <1>47, <2>1, EffectReenqueue
  <2>3. CASE owned[t].pb = -1 /\ dq'.w = dq.w - owned[t].w + 1 /\ dq'.pb = 0
             /\ owned'[t] = InBarrier /\ pc'[t] = "drain"
    <3>1. HeldAt(t)' = Width
      BY <1>15, <2>3 DEF Draining, InBarrier
    <3>2. Reserved = 0 /\ Reserved' = 0
      BY <1>1, <2>1, <2>3 DEF Reserved
    <3> QED BY <1>1, <1>2, <1>9, <1>47, <2>1, <2>3, <3>1, <3>2 DEF KeptWidth
  <2>4. CASE Unlocks(owned[t]) /\ pc'[t] \in {"idle", "enqueue"}
    BY <1>36, <1>47, <2>1, <2>4 DEF Leaving, Waiting
  <2> QED BY <2>2, <2>3, <2>4
<1>48. CASE Bare /\ t \in Clients /\ sync_wait(t)
  BY <1>48 DEF sync_wait, Bare
<1>49. pc[t] # "transfer" => ~transfer(t)
  BY DEF transfer
<1> HIDE DEF Goto, SetItem, SetOwned, SetFlags, local, history, Still
<1>50. CASE Bare /\ t \in Clients /\ Call(t)
  BY <1>21, <1>22, <1>50 DEF Call
<1>51. CASE Bare /\ t \in Clients /\ ClientStep(t)
  BY <1>23, <1>24, <1>25, <1>26, <1>27, <1>48, <1>51 DEF ClientStep
<1>52. CASE Bare /\ SharedStep(t)
  BY <1>28, <1>29, <1>30, <1>31, <1>32, <1>33, <1>34, <1>37, <1>38, <1>40, <1>49, <1>52
     DEF SharedStep
<1>53. CASE Bare /\ t \in Workers /\ WorkerStep(t)
  BY <1>39, <1>41, <1>42, <1>43, <1>44, <1>45, <1>46, <1>47, <1>53 DEF WorkerStep
<1>54. Bare \/ t \in signaled
  BY DEF Bare
<1> HIDE DEF Goto, SetItem, SetOwned, SetFlags, local, history
<1> QED BY <1>6, <1>50, <1>51, <1>52, <1>53, <1>54 DEF Moves

\* One set of pairs for each function of threads: its count is their sum.
Columns(h) == {p \in Threads \X (1..(Width + 1)) : p[2] =< h[p[1]]}

(* The units taken are the columns of the threads' widths, before and after.   *)
LEMMA UnitsAre ==
  /\ \A f : (\A u \in Threads : Taken(u) = f[u]) => Units = Columns(f)
  /\ \A f : (\A u \in Threads : Taken(u)' = f[u]) => Units' = Columns(f)
<1>1. ASSUME NEW f, \A u \in Threads : Taken(u) = f[u] PROVE Units = Columns(f)
  BY <1>1 DEF Units, Columns
<1>2. ASSUME NEW f, \A u \in Threads : Taken(u)' = f[u] PROVE Units' = Columns(f)
  BY <1>2 DEF Units, Columns
<1> QED BY <1>1, <1>2

(* Their count follows one thread's width.                                    *)
LEMMA ColumnsFollow ==
  ASSUME NEW f \in [Threads -> 0..(Width + 1)], NEW g \in [Threads -> 0..(Width + 1)],
         NEW t \in Threads, \A u \in Threads \ {t} : g[u] = f[u]
  PROVE  /\ Cardinality(Columns(f)) \in Nat /\ Cardinality(Columns(g)) \in Nat
         /\ Cardinality(Columns(g)) = Cardinality(Columns(f)) + g[t] - f[t]
<1>1. Width + 1 \in Nat /\ IsFiniteSet(Threads)
  BY WidthAssumption, ThreadsFinite
<1> QED BY <1>1, ColumnsMove DEF Columns

(* A thread that is not in a call's callout, drains nothing and is owed nothing *)
(* has no width.                                                             *)
LEMMA Empty ==
  ASSUME NEW u \in Threads
  PROVE  /\ OwnsWidth(u) /\ pc[u] \in Waiting \union {"idle"} => HeldAt(u) = 0
         /\ OwnsWidth(u)' /\ pc'[u] \in Waiting \union {"idle"} => HeldAt(u)' = 0
<1>1. KeptWidth(Nothing) = 0
  BY DEF KeptWidth, Nothing
<1> QED BY <1>1 DEF OwnsWidth, HeldAt, InCallout, Draining, Waiting

(* A batch holds one item of each thread it wakes.                            *)
LEMMA BatchCount ==
  ASSUME QueueInv, NEW t \in Threads, transfer(t)
  PROVE  LET B == {batch[t][j].by : j \in 1..Len(batch[t])}
         IN  IsFiniteSet(B) /\ Cardinality(B) = Len(batch[t])
<1> DEFINE m == Len(batch[t])
           B == {batch[t][j].by : j \in 1..m}
           by == [j \in 1..m |-> batch[t][j].by]
<1>1. /\ m \in Nat /\ 1 \in 1..m
      /\ \A j \in 1..m : cur[batch[t][j].by] = batch[t][j]
  BY TransferFacts
<1>2. \A j \in 1..m : by[j] = batch[t][j].by /\ by[j] \in B
  OBVIOUS
<1>3. \A j, k \in 1..m : by[j] = by[k] => j = k
  <2> SUFFICES ASSUME NEW j \in 1..m, NEW k \in 1..m, by[j] = by[k] PROVE j = k
    OBVIOUS
  <2>1. batch[t][j] = batch[t][k]
    BY <1>1, <1>2
  <2> QED BY <2>1 DEF QueueInv, Batches
<1>4. by \in [1..m -> B] /\ \A u \in B : \E j \in 1..m : by[j] = u
  BY <1>2
<1> HIDE DEF by, B
<1>5. by \in Bijection(1..m, B)
  BY <1>3, <1>4 DEF Bijection, Injection, Surjection, IsInjective
<1>6. IsFiniteSet(1..m) /\ Cardinality(1..m) = m
  <2>1. m \in Int /\ 1 \in Int /\ m >= 1
    BY <1>1
  <2> HIDE DEF m
  <2>2. IsFiniteSet(1..m) /\ Cardinality(1..m) = IF 1 > m THEN 0 ELSE m - 1 + 1
    BY <2>1, FS_Interval
  <2> QED BY <2>1, <2>2
<1> HIDE DEF m
<1>7. IsFiniteSet(B) /\ Cardinality(B) = m
  BY <1>5, <1>6, FS_Bijection DEF ExistsBijection
<1> QED BY <1>7 DEF B, m

(* A transfer gives the whole width to the writer, or one unit to each reader.  *)
LEMMA TransferWidth ==
  ASSUME QueueInv, NEW t \in Threads, transfer(t), Moves(t),
         \A u \in Threads : Taken(u)' = WidthOf(u)' /\ WidthOf(u)' \in 0..(Width + 1)
  PROVE  dq'.w = Cardinality(Units') /\ Cardinality(Redirected)' = 0 /\ dq'.pb = 0
<1> DEFINE B == {batch[t][j].by : j \in 1..Len(batch[t])}
           g == [u \in Threads |-> WidthOf(u)']
<1>1. /\ HasLock(t) /\ dq.owner = t /\ dq.ib = 1 /\ t \notin signaled
      /\ 1 \in 1..Len(batch[t]) /\ Len(batch[t]) \in Nat
      /\ pc'[t] \in {"wait", "idle"} /\ cur' = cur
      /\ signaled' = signaled \union B
  BY TransferFacts
<1>2. \A j \in 1..Len(batch[t]) :
        /\ batch[t][j].by \in Threads /\ batch[t][j].by \in signaled'
        /\ cur[batch[t][j].by] = batch[t][j]
  BY TransferFacts DEF Threads
<1>3. \A u \in Threads \ {t} : Taken(u) = 0
  BY <1>1, Alone DEF QueueInv
<1>4. Cardinality(Redirected)' = 0
  <2>1. Cardinality(Redirected) = 0 /\ RootAt
    BY <1>1, Alone DEF QueueInv, At
  <2>2. root' = root
    BY DEF transfer
  <2> QED BY <2>1, <2>2, RedirectedMove
<1>5. \A u \in Threads : WidthOf(u)' = IF u \in B THEN IF Exclusive(cur[u]) THEN Width ELSE 1 ELSE 0
  <2> SUFFICES ASSUME NEW u \in Threads
               PROVE  WidthOf(u)' = IF u \in B THEN IF Exclusive(cur[u]) THEN Width ELSE 1 ELSE 0
    OBVIOUS
  <2> HIDE DEF B
  <2>1. CASE u \in B
    <3>1. u \in signaled' /\ cur'[u] = cur[u]
      BY <1>1, <2>1
    <3> QED BY <2>1, <3>1 DEF WidthOf
  <2>2. CASE u \notin B /\ u = t
    <3>1. OwnsWidth(t)' /\ t \notin signaled'
      BY <1>1, <2>2, OwnsStep DEF Owns
    <3>2. HeldAt(t)' = 0
      BY <1>1, <3>1, Empty DEF Waiting
    <3> QED BY <2>2, <3>1, <3>2 DEF WidthOf
  <2>3. CASE u \notin B /\ u # t
    <3>1. (u \in signaled' <=> u \in signaled) /\ cur'[u] = cur[u]
      BY <1>1, <2>3
    <3>2. pc'[u] = pc[u] /\ owned'[u] = owned[u]
      BY <2>3, OneThread DEF AloneMoves, QueueInv
    <3>3. WidthOf(u)' = WidthOf(u)
      BY Zenon, <3>1, <3>2 DEF WidthOf, HeldAt
    <3>4. Taken(u) = WidthOf(u)
      BY WidthOfIs DEF WidthReads, QueueInv, At
    <3> QED BY <1>3, <2>3, <3>3, <3>4
  <2> QED BY <2>1, <2>2, <2>3
<1>6. Units' = Columns(g) /\ g \in [Threads -> 0..(Width + 1)]
  BY UnitsAre
<1>7. \A u \in Threads : g[u] = IF u \in B THEN IF Exclusive(cur[u]) THEN Width ELSE 1 ELSE 0
  BY <1>5
<1> HIDE DEF g
<1>8. PICK v : v = batch[t][1].by
  OBVIOUS
<1>9. /\ dq'.pb = 0
      /\ \/ Exclusive(cur[v]) /\ Len(batch[t]) = 1 /\ dq'.w = Width
         \/ (\A j \in 1..Len(batch[t]) : ~Exclusive(batch[t][j])) /\ dq'.w = Len(batch[t])
  BY <1>8, TransferMove
<1>10. CASE Exclusive(cur[v]) /\ Len(batch[t]) = 1 /\ dq'.w = Width
  <2>1. B = {v} /\ v \in Threads
    BY <1>2, <1>8, <1>10
  <2> DEFINE z == [u \in Threads |-> 0]
  <2>2. /\ z \in [Threads -> 0..(Width + 1)] /\ \A u \in Threads : z[u] = 0
    BY WidthAssumption
  <2>3. Columns(z) = {}
    BY <2>2 DEF Columns
  <2>4. \A u \in Threads \ {v} : g[u] = z[u]
    BY <1>7, <2>1, <2>2
  <2>5. g[v] = Width /\ z[v] = 0
    BY <1>7, <1>10, <2>1, <2>2
  <2> HIDE DEF z, B
  <2>6. Cardinality(Columns(g)) = Cardinality(Columns(z)) + g[v] - z[v]
    BY <1>6, <2>1, <2>2, <2>4, ColumnsFollow
  <2>7. Cardinality({}) = 0
    BY FS_EmptySet
  <2>8. Cardinality(Columns(g)) = Width
    BY <2>3, <2>5, <2>6, <2>7, WidthAssumption
  <2> QED BY <1>4, <1>6, <1>9, <1>10, <2>8
<1>11. CASE (\A j \in 1..Len(batch[t]) : ~Exclusive(batch[t][j])) /\ dq'.w = Len(batch[t])
  <2> DEFINE P == {<<u, 1>> : u \in B}
  <2>1. \A u \in B : u \in Threads /\ ~Exclusive(cur[u])
    BY <1>2, <1>11
  <2>2. Columns(g) = P
    <3>1. \A u \in Threads : g[u] = IF u \in B THEN 1 ELSE 0
      BY <1>7, <2>1
    <3>2. B \subseteq Threads
      BY <2>1
    <3> HIDE DEF B
    <3>3. ASSUME NEW p \in Columns(g) PROVE p \in P
      <4>1. PICK u \in Threads, k \in 1..(Width + 1) : p = <<u, k>>
        BY <3>3 DEF Columns
      <4>2. k =< g[u]
        BY <3>3, <4>1 DEF Columns
      <4>3. k = 1 /\ u \in B
        BY <3>1, <4>2
      <4> QED BY <4>1, <4>3
    <3>4. ASSUME NEW p \in P PROVE p \in Columns(g)
      <4>1. PICK u \in B : p = <<u, 1>>
        BY <3>4
      <4>2. u \in Threads /\ g[u] = 1 /\ 1 \in 1..(Width + 1)
        BY <3>1, <3>2, WidthAssumption
      <4> QED BY <4>1, <4>2 DEF Columns
    <3> HIDE DEF P
    <3> QED BY <3>3, <3>4
  <2>3. Cardinality(P) = Len(batch[t])
    <3>1. IsFiniteSet(B) /\ Cardinality(B) = Len(batch[t])
      BY BatchCount
    <3>2. P = B \X {1}
      OBVIOUS
    <3> HIDE DEF B, P
    <3>3. IsFiniteSet({1}) /\ Cardinality({1}) = 1
      BY FS_Singleton
    <3>4. Cardinality(B \X {1}) = Cardinality(B) * Cardinality({1})
      BY <3>1, <3>3, FS_Product
    <3>5. Cardinality(B) * 1 = Cardinality(B)
      BY <1>1, <3>1
    <3> QED BY <3>1, <3>2, <3>3, <3>4, <3>5
  <2> QED BY <1>4, <1>6, <1>9, <1>11, <2>2, <2>3
<1> QED BY <1>9, <1>10, <1>11

(* A slow reader at the head gets one unit of its drainer's width.             *)
LEMMA PopWidth ==
  ASSUME QueueInv, NEW t \in Threads, PopsSyncReader(t), Moves(t), NEW v, v = Head(items).by
  PROVE  /\ dq' = dq /\ root' = root /\ t \in Workers /\ v \in Clients /\ v # t
         /\ t \notin signaled /\ t \notin signaled' /\ pc'[t] = "drain"
         /\ WidthOf(t)' = WidthOf(t) - 1 /\ WidthOf(t) \in Int
         /\ v \in signaled' /\ v \notin signaled /\ pc'[v] \in Waiting /\ pc[v] \in Waiting
         /\ WidthOf(v) = 0 /\ WidthOf(v)' = 1
         /\ \A u \in Threads \ {t, v} : WidthOf(u)' = WidthOf(u)
<1>1. pc[t] = "pop" /\ Head(items).sync /\ ~Exclusive(Head(items)) /\ Word
  BY DEF PopsSyncReader, QueueInv
<1>2. /\ t \notin signaled /\ v \in Clients /\ v # t /\ v \notin signaled
      /\ cur[v] = Head(items) /\ pc[v] \in Waiting
  BY <1>1, PopFacts
<1>3. drain_pop(t) /\ t \in Workers
  BY <1>1, ListMoves DEF ListMove, queue_push, handoff_pop, transfer
<1>4. /\ dq' = dq /\ root' = root /\ cur' = cur
      /\ signaled' = signaled \union {v}
      /\ pc'[t] = "drain" /\ owned'[t] = [owned[t] EXCEPT !.w = @ - 1]
  BY <1>1, <1>3 DEF drain_pop, Goto, SetOwned, history, Word
<1>5. OwnsWidth(t) /\ OwnsWidth(v) /\ owned[t].ib = 0
  BY <1>1, <1>2 DEF QueueInv, Owns, SeesHead, Threads
<1>6. owned'[t].w = owned[t].w - 1 /\ owned'[t].ib = 0 /\ owned[t].w \in Int
  <2>1. owned[t] \in [ib : 0..1, w : Int, pb : -1..0]
    BY <1>5 DEF OwnsWidth
  <2> QED BY <1>4, <1>5, <2>1
<1>7. t \notin signaled' /\ v \in signaled' /\ v \in Threads
  BY <1>2, <1>4 DEF Threads
<1>8. pc'[v] \in Waiting
  BY <1>2, <1>7, OneThread DEF AloneMoves, QueueInv
<1>9. WidthOf(t) = owned[t].w /\ WidthOf(t)' = owned[t].w - 1
  BY <1>1, <1>2, <1>4, <1>5, <1>6, <1>7 DEF WidthOf, HeldAt, InCallout, Draining
<1>10. WidthOf(v) = 0
  BY <1>2, <1>5, <1>7, Empty DEF WidthOf
<1>11. WidthOf(v)' = 1
  BY <1>1, <1>2, <1>4, <1>7 DEF WidthOf
<1>12. ASSUME NEW u \in Threads \ {t, v} PROVE WidthOf(u)' = WidthOf(u)
  <2>1. pc'[u] = pc[u] /\ owned'[u] = owned[u] /\ cur'[u] = cur[u]
    BY OneThread DEF AloneMoves, QueueInv
  <2>2. u \in signaled' <=> u \in signaled
    BY <1>4
  <2> QED BY <2>1, <2>2 DEF WidthOf, HeldAt
<1> QED BY <1>2, <1>3, <1>4, <1>6, <1>7, <1>8, <1>9, <1>10, <1>11, <1>12

(* Every step keeps the account of the width.                                *)
LEMMA AccountingStep ==
  ASSUME QueueInv, NEW t \in Threads, Moves(t)
  PROVE  WidthAccounting'
<1> DEFINE f == [u \in Threads |-> WidthOf(u)]
           g == [u \in Threads |-> WidthOf(u)']
<1>1. /\ \A u \in Threads : Taken(u) = WidthOf(u) /\ WidthOf(u) \in 0..(Width + 1)
      /\ \A u \in Threads : Taken(u)' = WidthOf(u)' /\ WidthOf(u)' \in 0..(Width + 1)
  <2>1. WidthReads /\ WidthReads'
    BY WidthOfIs, PTL
  <2>2. ThreadsAt /\ Owns /\ Events /\ ThreadsAt' /\ Owns' /\ Events'
    BY ThreadsAtStep, OwnsStep, EventsStep DEF QueueInv, At
  <2> QED BY <2>1, <2>2 DEF WidthReads
<1>2. f \in [Threads -> 0..(Width + 1)] /\ g \in [Threads -> 0..(Width + 1)]
  BY <1>1
<1>3. Units = Columns(f) /\ Units' = Columns(g)
  BY <1>1, UnitsAre
<1>4. /\ Cardinality(Units) \in Nat /\ Cardinality(Redirected) \in Nat
      /\ dq.w = Cardinality(Units) + Cardinality(Redirected) + Reserved /\ Reserved \in Nat
  BY TakenBound, QueueFacts DEF QueueInv, At
<1>5. SUFFICES dq'.w = Cardinality(Units') + Cardinality(Redirected)' + Reserved'
  BY <1>1 DEF WidthAccounting
<1>6. \A u \in Threads : f[u] = WidthOf(u) /\ g[u] = WidthOf(u)'
  OBVIOUS
<1> HIDE DEF f, g
<1>7. CASE transfer(t)
  <2>1. dq'.w = Cardinality(Units') /\ Cardinality(Redirected)' = 0 /\ dq'.pb = 0
    BY <1>1, <1>7, TransferWidth
  <2>2. dq'.w \in Int
    BY <1>7, TransferMove, StateFields
  <2> QED BY <2>1, <2>2 DEF Reserved
<1>8. CASE PopsSyncReader(t)
  <2> DEFINE h == [f EXCEPT ![t] = g[t]]
  <2> PICK v : v = Head(items).by
    OBVIOUS
  <2>1. /\ dq' = dq /\ root' = root /\ v \in Threads /\ v # t
        /\ WidthOf(t)' = WidthOf(t) - 1 /\ WidthOf(t) \in Int
        /\ WidthOf(v) = 0 /\ WidthOf(v)' = 1
        /\ \A u \in Threads \ {t, v} : WidthOf(u)' = WidthOf(u)
    BY <1>8, PopWidth DEF Threads
  <2>2. /\ h \in [Threads -> 0..(Width + 1)] /\ h[t] = g[t]
        /\ \A u \in Threads \ {t} : h[u] = f[u]
    BY <1>2
  <2>3. \A u \in Threads \ {v} : g[u] = h[u]
    BY <1>6, <2>1, <2>2
  <2>4. g[t] = f[t] - 1 /\ h[v] = 0 /\ g[v] = 1 /\ f[t] \in Int
    BY <1>6, <2>1, <2>2
  <2> HIDE DEF h
  <2>5. /\ Cardinality(Columns(h)) \in Nat
        /\ Cardinality(Columns(h)) = Cardinality(Columns(f)) + h[t] - f[t]
    BY <1>2, <2>2, ColumnsFollow
  <2>6. Cardinality(Columns(g)) = Cardinality(Columns(h)) + g[v] - h[v]
    BY <1>2, <2>1, <2>2, <2>3, ColumnsFollow
  <2>7. Cardinality(Columns(g)) = Cardinality(Columns(f))
    BY <1>3, <1>4, <2>2, <2>4, <2>5, <2>6
  <2>8. Cardinality(Redirected)' = Cardinality(Redirected) /\ Reserved' = Reserved
    BY <2>1 DEF Redirected, Reserved
  <2> QED BY <1>3, <1>4, <2>1, <2>7, <2>8
<1>9. CASE ~transfer(t) /\ ~PopsSyncReader(t)
  <2>1. pc[t] # "transfer"
    BY <1>9, SignalStep, ListMoves DEF QueueInv, ListMove, queue_push, drain_pop, handoff_pop
  <2>2. WidthMove(t)
    BY <1>9, <2>1, WidthStep
  <2>3. PICK n \in Int : /\ Cardinality(Redirected)' = Cardinality(Redirected) - n
                         /\ dq'.w - Reserved' = dq.w - Reserved + WidthOf(t)' - WidthOf(t) - n
    BY <2>2 DEF WidthMove
  <2>4. ASSUME NEW u \in Threads \ {t} PROVE WidthOf(u)' = WidthOf(u)
    <3>1. pc'[u] = pc[u] /\ owned'[u] = owned[u] /\ cur'[u] = cur[u]
      BY OneThread DEF AloneMoves, QueueInv
    <3>2. SignalMove(t)
      BY SignalStep DEF QueueInv
    <3>3. u \in signaled' <=> u \in signaled
      BY <1>9, <3>2 DEF SignalMove, PopsSyncReader
    <3> QED BY <3>1, <3>3 DEF WidthOf, HeldAt
  <2>5. \A u \in Threads \ {t} : g[u] = f[u]
    BY <1>6, <2>4
  <2>6. /\ Cardinality(Columns(g)) \in Nat
        /\ Cardinality(Columns(g)) = Cardinality(Columns(f)) + g[t] - f[t]
    BY <1>2, <2>5, ColumnsFollow
  <2>7. Cardinality(Units') = Cardinality(Units) + WidthOf(t)' - WidthOf(t)
    BY <1>3, <1>6, <2>6
  <2>8. dq'.w \in Int /\ Reserved' \in Int
    BY DataStep, StateFields, WidthAssumption DEF Reserved
  <2>9. WidthOf(t)' \in Int /\ WidthOf(t) \in Int
    BY <1>1
  <2> QED BY <1>4, <2>3, <2>7, <2>8, <2>9
<1> QED BY <1>7, <1>8, <1>9

-----------------------------------------------------------------------------
(* Who exceeds the width                                                     *)

\* Where asynchronous readers are counted: on their way, in the drainer that
\* has width for them, in their callouts.
AsyncAt(t) == \/ t \in Workers /\ pc[t] \in Draining \union Leaving \union {"run", "redirect"}
              \/ t \in Clients /\ pc[t] = "redirect"
AsyncReads ==
  ThreadsAt /\ Owns /\ Events =>
    \A t \in Threads :
      /\ AsyncTaken(t) \in 0..(Width + 1) /\ AsyncTaken(t) =< WidthOf(t)
      /\ AsyncAt(t) => t \notin signaled
      /\ AsyncAt(t) /\ ~PopsSyncReader(t) => AsyncTaken(t) = WidthOf(t)
      /\ PopsSyncReader(t) => AsyncAt(t) /\ AsyncTaken(t) = WidthOf(t) - 1
      /\ ~AsyncAt(t) => AsyncTaken(t) = 0

(* The width that asynchronous readers take is part of what is taken.          *)
LEMMA AsyncIs == AsyncReads
<1> SUFFICES ASSUME ThreadsAt, Owns, Events, NEW t \in Threads
             PROVE  /\ AsyncTaken(t) \in 0..(Width + 1) /\ AsyncTaken(t) =< WidthOf(t)
                    /\ AsyncAt(t) => t \notin signaled
                    /\ AsyncAt(t) /\ ~PopsSyncReader(t) => AsyncTaken(t) = WidthOf(t)
                    /\ PopsSyncReader(t) => AsyncAt(t) /\ AsyncTaken(t) = WidthOf(t) - 1
                    /\ ~AsyncAt(t) => AsyncTaken(t) = 0
  BY DEF AsyncReads
<1>1. /\ WidthOf(t) \in 0..(Width + 1) /\ Held(t) = HeldAt(t) /\ HeldAt(t) \in 0..(Width + 1)
      /\ OwnsWidth(t) /\ SeesHead(t) /\ (t \notin signaled => WidthOf(t) = HeldAt(t))
  BY WidthOfIs DEF WidthReads, Owns, WidthOf
<1>2. Clients \cap Workers = {}
  BY NamesAssumption
<1>3. AsyncAt(t) => t \notin signaled
  BY <1>2 DEF AsyncAt, Events, Waiting
<1>4. PopsSyncReader(t) => t \in Workers /\ pc[t] = "pop" /\ HeldAt(t) > 0 /\ AsyncAt(t)
  <2>1. SUFFICES ASSUME PopsSyncReader(t) PROVE t \in Workers /\ pc[t] = "pop" /\ HeldAt(t) > 0 /\ AsyncAt(t)
    OBVIOUS
  <2>2. pc[t] = "pop" /\ ~Exclusive(Head(items))
    BY <2>1 DEF PopsSyncReader
  <2>3. t \in Workers
    BY <2>2 DEF ThreadsAt, ClientAt, Threads, Asking, Waiting, Handing, InCallout
  <2>4. HeldAt(t) = owned[t].w /\ owned[t].w > 0
    BY <1>1, <2>2 DEF SeesHead, HeldAt, InCallout, Draining
  <2> QED BY <2>2, <2>3, <2>4 DEF AsyncAt, Draining
<1>5. CASE PopsSyncReader(t)
  BY <1>1, <1>3, <1>4, <1>5, WidthAssumption DEF AsyncTaken
<1>6. CASE ~PopsSyncReader(t) /\ t \in Workers
  BY <1>1, <1>2, <1>3, <1>6, WidthAssumption DEF AsyncTaken, AsyncAt
<1>7. CASE ~PopsSyncReader(t) /\ t \in Clients
  <2>1. pc[t] = "redirect" => HeldAt(t) = 1
    BY <1>1, <1>7 DEF OwnsWidth, Nothing, HeldAt, InCallout
  <2> QED BY <1>1, <1>2, <1>3, <1>7, <2>1, WidthAssumption DEF AsyncTaken, AsyncAt
<1> QED BY <1>5, <1>6, <1>7 DEF Threads

(* What a step leaves to the other threads: their width, and their place.       *)
LEMMA OthersStay ==
  ASSUME QueueInv, NEW t \in Threads, Moves(t), NEW u \in Threads \ {t}
  PROVE  /\ PopsSyncReader(u)' <=> PopsSyncReader(u)
         /\ AsyncTaken(u)' = AsyncTaken(u)
<1>1. /\ pc'[u] = pc[u] /\ owned'[u] = owned[u] /\ cur'[u] = cur[u]
  BY OneThread DEF AloneMoves, QueueInv
<1>2. PopsSyncReader(u)' <=> PopsSyncReader(u)
  BY <1>1, HeadStays DEF PopsSyncReader
<1>3. /\ AsyncReads /\ AsyncReads'
  BY AsyncIs, PTL
<1>4. ThreadsAt /\ Owns /\ Events /\ ThreadsAt' /\ Owns' /\ Events'
  BY ThreadsAtStep, OwnsStep, EventsStep DEF QueueInv, At
<1>5. AsyncAt(u)' <=> AsyncAt(u)
  BY <1>1 DEF AsyncAt
<1>6. CASE AsyncAt(u)
  <2>1. u \notin signaled /\ u \notin signaled'
    BY <1>3, <1>4, <1>5, <1>6 DEF AsyncReads
  <2>2. WidthOf(u)' = WidthOf(u)
    BY <1>1, <2>1 DEF WidthOf, HeldAt
  <2> QED BY <1>2, <1>3, <1>4, <1>5, <1>6, <2>2 DEF AsyncReads
<1>7. CASE ~AsyncAt(u)
  BY <1>2, <1>3, <1>4, <1>5, <1>7 DEF AsyncReads
<1> QED BY <1>2, <1>6, <1>7

\* Asynchronous readers take no more than before, or fit.
Fits == dq'.w =< Width + Reserved'
AsyncMove(t) ==
  \/ Fits
  \/ AsyncTaken(t)' + Cardinality(Redirected)' =< AsyncTaken(t) + Cardinality(Redirected)

(* The whole width fits.                                                      *)
LEMMA WidthFits == Reserved' \in Nat /\ dq'.w = Width => Fits
<1>1. ASSUME NEW r \in Nat, NEW w, w = Width PROVE w =< Width + r
  BY <1>1, WidthAssumption
<1> QED BY <1>1 DEF Fits

(* Only the four steps that look at the width first give them more.            *)
LEMMA AsyncStep ==
  ASSUME QueueInv, NEW t \in Threads, Moves(t)
  PROVE  AsyncMove(t)
<1>1. /\ ThreadsAt /\ Owns /\ Events /\ ThreadsAt' /\ Owns' /\ Events' /\ DrainLock' /\ RootAt
      /\ OwnsWidth(t) /\ SeesHead(t) /\ SeesHead(t)' /\ DOMAIN pc = Threads /\ DOMAIN owned = Threads
  BY ThreadsAtStep, OwnsStep, EventsStep, DrainLockStep DEF QueueInv, At, Owns, Word
<1>2. /\ Word /\ dq.w >= Reserved /\ dq.w \in Nat /\ owned[t] \in Parts /\ owned[t].w \in Int
      /\ pc[t] = "complete" => dq.ib = 0
      /\ pc[t] = "reenqueue" => dq.ib = owned[t].ib /\ dq.pb = 0 /\ owned[t].pb \in -1..0
  BY ReadyIs
<1>3. AsyncReads /\ AsyncReads' /\ WidthReads /\ WidthReads'
  BY AsyncIs, WidthOfIs, PTL
<1>4. /\ AsyncTaken(t) \in Nat /\ AsyncTaken(t)' \in Nat
      /\ AsyncTaken(t)' =< WidthOf(t)' /\ WidthOf(t) \in Int /\ WidthOf(t)' \in Int
      /\ AsyncAt(t) /\ ~PopsSyncReader(t) => AsyncTaken(t) = WidthOf(t)
      /\ PopsSyncReader(t) => AsyncTaken(t) = WidthOf(t) - 1
      /\ PopsSyncReader(t)' => AsyncTaken(t)' = WidthOf(t)' - 1
      /\ ~AsyncAt(t)' => AsyncTaken(t)' = 0
  BY <1>1, <1>3 DEF AsyncReads, WidthReads
<1>5. /\ Cardinality(Redirected) \in Nat
      /\ root' \in {root, Append(root, DQ)} => Cardinality(Redirected)' = Cardinality(Redirected)
  BY <1>1, RedirectedMove
<1>6. Width \in Nat /\ Width > 0 /\ Reserved \in Nat /\ Reserved' \in Nat /\ dq'.w \in Int
  BY DataStep, StateFields, WidthAssumption DEF Reserved
<1>7. ASSUME ~AsyncAt(t)', root' \in {root, Append(root, DQ)}
      PROVE  AsyncMove(t)
  BY <1>4, <1>5, <1>7 DEF AsyncMove
<1>8. ASSUME dq'.w = dq.w, dq'.pb = dq.pb, pc[t] # "transfer", ~PopsSyncReader(t),
             AsyncAt(t) \/ WidthOf(t) = 0
      PROVE  AsyncMove(t)
  <2>1. PICK n \in Int : /\ Cardinality(Redirected)' = Cardinality(Redirected) - n
                         /\ dq'.w - Reserved' = dq.w - Reserved + WidthOf(t)' - WidthOf(t) - n
    BY <1>8, WidthStep DEF WidthMove
  <2>2. Reserved' = Reserved
    BY <1>8 DEF Reserved
  <2>3. WidthOf(t)' = WidthOf(t) + n
    BY <1>2, <1>4, <1>6, <1>8, <2>1, <2>2
  <2>4. WidthOf(t) =< AsyncTaken(t)
    BY <1>4, <1>8
  <2> QED BY SMTT(60), <1>4, <1>5, <2>1, <2>3, <2>4 DEF AsyncMove
<1>9. ASSUME Fits PROVE AsyncMove(t)
  BY <1>9 DEF AsyncMove
<1> USE DEF Goto, SetItem, SetOwned, SetFlags, local, history
<1>10. CASE t \in Clients /\ acquire_async(t)
  <2>1. pc[t] = "acquire_async" /\ root' = root
    BY <1>10 DEF acquire_async
  <2>2. \/ KeepsLock /\ dq'.w = dq.w + 1 /\ dq.w < Width
        \/ pc'[t] = "push"
    BY <1>2, <1>10, <2>1, EffectReserve
  <2>3. CASE dq'.w = dq.w + 1 /\ dq.w < Width
    BY <1>2, <1>6, <1>9, <2>3 DEF Fits
  <2>4. CASE pc'[t] = "push"
    BY <1>1, <1>7, <1>10, <2>1, <2>4 DEF AsyncAt, Draining, Leaving, ThreadsAt, WorkerAt, Handing
  <2> QED BY <2>2, <2>3, <2>4
<1>11. CASE redirect(t)
  <2>1. dq' = dq /\ pc[t] = "redirect"
    BY <1>11 DEF redirect
  <2> QED BY <1>8, <2>1 DEF AsyncAt, Threads, PopsSyncReader
<1>12. CASE t \in Clients /\ Call(t)
  <2>1. root' = root
    BY <1>12 DEF Call, queue_suspend, dispatch_call
  <2>2. pc'[t] # "redirect"
    BY <1>1, <1>12 DEF Call, queue_suspend, dispatch_call, FirstStep
  <2> QED BY <1>7, <1>12, <2>1, <2>2, NamesAssumption DEF AsyncAt
<1>13. CASE t \in Clients /\ ClientStep(t) /\ ~acquire_async(t)
  <2>1. root' = root
    BY <1>13 DEF ClientStep, async_f2, sync_f2, reserve_sync, barrier_sync,
        queue_push, sync_wait, apply_reserve, apply_relinquish, queue_resume
  <2>2. pc'[t] # "redirect"
    BY <1>1, <1>13
       DEF ClientStep, async_f2, sync_f2, reserve_sync, barrier_sync, RunLabel, Return,
        queue_push, sync_wait, apply_reserve, apply_relinquish, queue_resume
  <2> QED BY <1>7, <1>13, <2>1, <2>2, NamesAssumption DEF AsyncAt
<1>14. CASE finish(t)
  <2>1. dq' = dq /\ pc[t] = "run" /\ root' = root
    BY <1>14 DEF finish
  <2>2. CASE t \in Workers
    BY <1>8, <2>1, <2>2 DEF AsyncAt, PopsSyncReader
  <2>3. CASE t \notin Workers
    <3>1. pc'[t] # "redirect"
      BY <1>1, <1>14 DEF finish
    <3> QED BY <1>7, <2>1, <2>3, <3>1 DEF AsyncAt
  <2> QED BY <2>2, <2>3
<1>15. CASE SharedStep(t) /\ ~redirect(t) /\ ~finish(t)
  <2>1. root' \in {root, Append(root, DQ)}
    BY <1>15 DEF SharedStep, non_barrier_complete, wakeup_probe, class_wakeup,
        wakeup_enqueue, handoff, handoff_pop, transfer, unlock_wakeup, try_unlock, clear_dirty
  <2>2. pc'[t] \in {"handoff", "probe", "wait", "idle", "wakeup", "enqueue", "release", "handoff_pop",
                    "unlock_wakeup", "transfer", "release_dirty"}
    BY <1>1, <1>15 DEF SharedStep, non_barrier_complete, wakeup_probe, class_wakeup, Return,
        wakeup_enqueue, handoff, handoff_pop, transfer, unlock_wakeup, try_unlock, clear_dirty
  <2> QED BY <1>7, <2>1, <2>2 DEF AsyncAt, Draining, Leaving
<1>16. CASE t \in Workers /\ root_pop(t)
  <2>1. dq' = dq /\ pc[t] = "idle"
    BY <1>16 DEF root_pop
  <2>2. t \notin signaled
    BY <1>1, <1>16, NamesAssumption DEF Events
  <2>3. WidthOf(t) = 0
    BY <1>1, <2>1, <2>2, Empty DEF WidthOf
  <2> QED BY <1>8, <2>1, <2>3 DEF PopsSyncReader
<1>17. CASE drain_try_lock(t)
  <2>1. root' = root
    BY <1>17 DEF drain_try_lock
  <2>2. dq'.w = Width \/ pc'[t] = "idle"
    BY <1>2, <1>17, EffectLock
  <2>3. CASE dq'.w = Width
    <3>1. Fits
      BY <1>6, <2>3, WidthFits
    <3> QED BY <1>9, <3>1
  <2>4. CASE pc'[t] = "idle"
    BY <1>7, <2>1, <2>4 DEF AsyncAt, Draining, Leaving
  <2> QED BY <2>2, <2>3, <2>4
<1>18. CASE t \in Workers /\ drain(t)
  <2>1. dq' = dq /\ pc[t] = "drain"
    BY <1>18 DEF drain
  <2> QED BY <1>8, <1>18, <2>1 DEF AsyncAt, Draining, PopsSyncReader
<1>19. CASE t \in Workers /\ drain_width(t)
  <2>1. root' = root /\ items' = items /\ pc[t] = "width"
    BY <1>19 DEF drain_width
  <2>2. /\ dq'.pb = dq.pb
        /\ \/ /\ owned[t] = Nothing /\ (Head(items).sync \/ dq.w < Width) /\ dq'.w = dq.w + 1
              /\ owned'[t] = JustWidth(1) /\ pc'[t] = "pop"
           \/ dq'.w = dq.w
    BY <1>2, <1>19, EffectWidth
  <2>3. CASE dq'.w = dq.w
    BY <1>8, <1>19, <2>1, <2>2, <2>3 DEF AsyncAt, Draining, PopsSyncReader
  <2>4. CASE dq.w < Width /\ dq'.w = dq.w + 1
    BY <1>2, <1>6, <1>9, <2>4 DEF Fits
  <2>5. CASE Head(items).sync /\ owned'[t] = JustWidth(1) /\ pc'[t] = "pop"
    <3>1. PopsSyncReader(t)'
      BY <1>1, <2>1, <2>5 DEF PopsSyncReader, SeesHead
    <3>2. t \notin signaled'
      BY <1>1, <1>19, NamesAssumption DEF Events
    <3>3. WidthOf(t)' = 1
      BY <2>5, <3>2 DEF WidthOf, HeldAt, InCallout, Draining, JustWidth
    <3> QED BY <1>4, <1>5, <2>1, <3>1, <3>3 DEF AsyncMove
  <2> QED BY <2>2, <2>3, <2>4, <2>5
<1>20. CASE t \in Workers /\ drain_pop(t)
  <2>1. dq' = dq /\ root' = root /\ pc[t] = "pop"
    BY <1>20 DEF drain_pop
  <2>2. CASE PopsSyncReader(t)
    <3>1. WidthOf(t)' = WidthOf(t) - 1
      BY <2>2, PopWidth
    <3> QED BY <1>4, <1>5, <2>1, <2>2, <3>1 DEF AsyncMove
  <2>3. CASE ~PopsSyncReader(t)
    BY <1>8, <1>20, <2>1, <2>3 DEF AsyncAt, Draining
  <2> QED BY <2>2, <2>3
<1>21. CASE t \in Workers /\ reenqueue(t)
  <2>1. root' = root /\ pc[t] = "reenqueue"
    BY <1>21 DEF reenqueue
  <2>2. dq'.ib = 1 \/ pc'[t] \in {"idle", "enqueue"}
    BY <1>2, <1>21, <2>1, EffectReenqueue
  <2>3. CASE dq'.ib = 1
    BY <1>1, <1>6, <1>9, <2>3 DEF DrainLock, Fits
  <2>4. CASE pc'[t] \in {"idle", "enqueue"}
    BY <1>7, <2>1, <2>4 DEF AsyncAt, Draining, Leaving
  <2> QED BY <2>2, <2>3, <2>4
<1>22. CASE t \in Workers /\ try_unlock(t, "unlock", "unlock_dirty")
  <2>1. root' = root /\ pc[t] = "unlock"
    BY <1>22 DEF try_unlock
  <2>2. \/ KeepsLock /\ dq'.w = dq.w
        \/ pc'[t] \in {"wait", "idle"}
    BY <1>2, <1>22, EffectTryUnlock DEF Return
  <2>3. CASE KeepsLock /\ dq'.w = dq.w
    BY <1>8, <1>22, <2>1, <2>3 DEF AsyncAt, Leaving, PopsSyncReader, KeepsLock
  <2>4. CASE pc'[t] \in {"wait", "idle"}
    BY <1>7, <2>1, <2>4 DEF AsyncAt, Draining, Leaving
  <2> QED BY <2>2, <2>3, <2>4
<1>23. CASE t \in Workers /\ clear_dirty(t, "unlock_dirty", "drain")
  <2>1. pc[t] = "unlock_dirty"
    BY <1>23 DEF clear_dirty
  <2>2. KeepsLock /\ dq'.w = dq.w
    BY <1>2, <1>23, EffectClearDirty
  <2> QED BY <1>8, <1>23, <2>1, <2>2 DEF AsyncAt, Leaving, PopsSyncReader, KeepsLock
<1> HIDE DEF Goto, SetItem, SetOwned, SetFlags, local, history
<1>24. CASE t \in Workers /\ WorkerStep(t)
  BY <1>16, <1>17, <1>18, <1>19, <1>20, <1>21, <1>22, <1>23, <1>24 DEF WorkerStep
<1> HIDE DEF Goto, SetItem, SetOwned, SetFlags, local, history
<1> QED BY <1>10, <1>11, <1>12, <1>13, <1>14, <1>15, <1>24 DEF Moves

(* The root queue is finite.                                                  *)
LEMMA RedirectedCount == RootAt => Cardinality(Redirected) \in Nat
BY RedirectedMove

(* Asynchronous readers stay within the width.                               *)
LEMMA AsyncRoomStep ==
  ASSUME QueueInv, NEW t \in Threads, Moves(t)
  PROVE  AsyncRoom'
<1> DEFINE f == [u \in Threads |-> AsyncTaken(u)]
           g == [u \in Threads |-> AsyncTaken(u)']
           w == [u \in Threads |-> WidthOf(u)']
<1>1. /\ ThreadsAt /\ Owns /\ Events /\ ThreadsAt' /\ Owns' /\ Events' /\ RootAt /\ RootAt'
      /\ WidthAccounting' /\ AsyncRoom /\ dq'.w \in Int
  BY ThreadsAtStep, RootAtStep, OwnsStep, EventsStep, AccountingStep, DataStep, StateFields
     DEF QueueInv, At
<1>2. AsyncReads /\ AsyncReads' /\ WidthReads'
  BY AsyncIs, WidthOfIs, PTL
<1>3. /\ \A u \in Threads : AsyncTaken(u) \in 0..(Width + 1)
      /\ \A u \in Threads : AsyncTaken(u)' \in 0..(Width + 1) /\ AsyncTaken(u)' =< WidthOf(u)'
      /\ \A u \in Threads : WidthOf(u)' \in 0..(Width + 1) /\ Taken(u)' = WidthOf(u)'
  BY <1>1, <1>2 DEF AsyncReads, WidthReads
<1>4. /\ f \in [Threads -> 0..(Width + 1)] /\ g \in [Threads -> 0..(Width + 1)]
      /\ w \in [Threads -> 0..(Width + 1)]
      /\ \A u \in Threads : f[u] = AsyncTaken(u) /\ g[u] = AsyncTaken(u)' /\ w[u] = WidthOf(u)'
  BY <1>3
<1>5. AsyncUnits = Columns(f) /\ AsyncUnits' = Columns(g)
  BY <1>4 DEF AsyncUnits, Columns
<1>6. Units' = Columns(w)
  BY <1>3, UnitsAre
<1>7. Cardinality(Redirected) \in Nat /\ Cardinality(Redirected)' \in Nat
  <2>1. (RootAt => Cardinality(Redirected) \in Nat) /\ (RootAt => Cardinality(Redirected) \in Nat)'
    BY RedirectedCount, PTL
  <2> QED BY <1>1, <2>1
<1> HIDE DEF f, g, w
<1>8. \A u \in Threads \ {t} : g[u] = f[u]
  BY <1>4, OthersStay
<1>9. /\ Cardinality(AsyncUnits) \in Nat /\ Cardinality(AsyncUnits') \in Nat
      /\ Cardinality(AsyncUnits') = Cardinality(AsyncUnits) + AsyncTaken(t)' - AsyncTaken(t)
  BY <1>4, <1>5, <1>8, ColumnsFollow
<1>10. CASE Fits
  <2>1. \A u \in Threads : g[u] =< w[u]
    BY <1>3, <1>4
  <2>2. Width + 1 \in Nat /\ IsFiniteSet(Threads)
    BY WidthAssumption, ThreadsFinite
  <2>3. Cardinality(Columns(g)) =< Cardinality(Columns(w))
    BY SMTT(60), <1>4, <2>1, <2>2, ColumnsOrdered DEF Columns
  <2>4. dq'.w = Cardinality(Units') + Cardinality(Redirected)' + Reserved'
    BY <1>1 DEF WidthAccounting
  <2>5. Cardinality(Units') \in Nat /\ Reserved' \in Nat
    BY SMTT(60), <1>4, <1>6, ColumnsFollow, WidthAssumption DEF Reserved
  <2> QED
    BY <1>1, <1>5, <1>6, <1>7, <1>9, <1>10, <2>3, <2>4, <2>5, WidthAssumption
       DEF Fits, AsyncRoom
<1>11. CASE AsyncTaken(t)' + Cardinality(Redirected)' =< AsyncTaken(t) + Cardinality(Redirected)
  <2>1. Cardinality(AsyncUnits) + Cardinality(Redirected) =< Width
    BY <1>1 DEF AsyncRoom
  <2>2. AsyncTaken(t) \in Nat /\ AsyncTaken(t)' \in Nat
    BY <1>3
  <2> QED BY <1>7, <1>9, <1>11, <2>1, <2>2, WidthAssumption DEF AsyncRoom
<1> QED BY <1>10, <1>11, AsyncStep DEF AsyncMove


\* The width in use exceeds the queue's by no more readers than before, or fits.
GrowMove(t) ==
  \/ Fits
  \/ dq'.w - Reserved' =< dq.w - Reserved /\ (SyncReader(t) => SyncReader(t)')
  \/ dq'.w - Reserved' = dq.w - Reserved + 1 /\ ~SyncReader(t) /\ SyncReader(t)'
  \/ dq'.w - Reserved' = dq.w - Reserved - 1

(* Only a reader of dispatch_sync takes width without a look at what is free.  *)
LEMMA GrowStep ==
  ASSUME QueueInv, NEW t \in Threads, Moves(t), pc[t] # "transfer", ~PopsSyncReader(t)
  PROVE  GrowMove(t)
<1>1. /\ ThreadsAt /\ Owns /\ Events /\ DrainLock /\ ThreadsAt' /\ Events' /\ DrainLock'
      /\ OwnsWidth(t) /\ OwnsWidth(t)' /\ SeesHead(t) /\ SeesHead(t)' /\ RootAt /\ AtHand(t)
      /\ DOMAIN pc = Threads /\ DOMAIN owned = Threads
  BY ThreadsAtStep, OwnsStep, EventsStep, DrainLockStep, AtHandIs DEF QueueInv, At, Owns, Word
<1>2. /\ Word /\ dq.w >= Reserved /\ dq.w \in Nat /\ owned[t] \in Parts /\ owned[t].w \in Int
      /\ pc[t] = "complete" => dq.ib = 0
      /\ pc[t] = "reenqueue" => dq.ib = owned[t].ib /\ dq.pb = 0 /\ owned[t].pb \in -1..0
  BY ReadyIs
<1>3. /\ Width \in Nat /\ Width > 0 /\ Reserved \in Nat /\ Reserved' \in Nat /\ dq'.w \in Int
  BY DataStep, StateFields, WidthAssumption DEF Reserved
<1>4. /\ pc[t] \notin Waiting \union InCallout \union {"complete"} => ~SyncReader(t)
      /\ t \in Workers => ~SyncReader(t) /\ t \notin signaled'
  BY <1>1, NamesAssumption DEF SyncReader, Events
<1>5. ASSUME Fits PROVE GrowMove(t)
  BY <1>5 DEF GrowMove
<1>6. ASSUME dq'.w = dq.w, dq'.pb = dq.pb, SyncReader(t) => SyncReader(t)' PROVE GrowMove(t)
  BY <1>2, <1>3, <1>6 DEF GrowMove, Reserved
<1>7. ASSUME root' \in {root, Append(root, DQ)}, WidthOf(t)' =< WidthOf(t),
             SyncReader(t) => SyncReader(t)'
      PROVE  GrowMove(t)
  <2>1. PICK n \in Int : /\ Cardinality(Redirected)' = Cardinality(Redirected) - n
                         /\ dq'.w - Reserved' = dq.w - Reserved + WidthOf(t)' - WidthOf(t) - n
    BY WidthStep DEF WidthMove
  <2>2. /\ Cardinality(Redirected) \in Nat /\ Cardinality(Redirected)' = Cardinality(Redirected)
    BY <1>1, <1>7, RedirectedMove
  <2>3. n = 0
    BY <2>1, <2>2
  <2>4. WidthOf(t) \in Int /\ WidthOf(t)' \in Int
    <3>1. WidthReads /\ WidthReads'
      BY WidthOfIs, PTL
    <3>2. Owns'
      BY OwnsStep
    <3>3. WidthOf(t) \in 0..(Width + 1) /\ WidthOf(t)' \in 0..(Width + 1)
      BY <1>1, <3>1, <3>2 DEF WidthReads
    <3> QED BY <1>3, <3>3
  <2> QED BY SMTT(60), <1>2, <1>3, <1>7, <2>1, <2>3, <2>4 DEF GrowMove
<1>8. ASSUME NEW k, TakesBarrier(t, k) PROVE GrowMove(t)
  <2>1. dq'.w = Width
    BY <1>8 DEF TakesBarrier
  <2> QED BY <1>3, <1>5, <2>1, WidthFits
<1>9. ASSUME KeepsLock, dq'.w = dq.w, SyncReader(t) => SyncReader(t)' PROVE GrowMove(t)
  BY <1>6, <1>9 DEF KeepsLock
<1>10. ASSUME pc'[t] \in Waiting \union {"idle"}, root' = root, ~SyncReader(t), t \notin signaled'
       PROVE  GrowMove(t)
  <2>1. WidthOf(t)' = 0
    BY <1>1, <1>10, Empty DEF WidthOf
  <2>2. WidthOf(t) >= 0
    <3>1. WidthOf(t) \in 0..(Width + 1)
      BY <1>1, WidthOfIs DEF WidthReads
    <3> QED BY <1>3, <3>1
  <2> QED BY <1>7, <1>10, <2>1, <2>2
<1> USE DEF Goto, SetItem, SetOwned, SetFlags, local, history
<1>11. CASE t \in Clients /\ Call(t)
  <2>1. pc[t] = "idle" /\ (dq' = dq \/ queue_suspend(t))
    BY <1>11 DEF Call, queue_suspend, dispatch_call
  <2>2. ~SyncReader(t)
    BY <1>4, <2>1 DEF Waiting, InCallout
  <2>3. dq'.w = dq.w /\ dq'.pb = dq.pb
    BY <1>2, <2>1, EffectSuspend DEF KeepsLock
  <2> QED BY <1>6, <2>2, <2>3
<1>12. CASE t \in Clients /\ (async_f2(t) \/ sync_f2(t) \/ queue_push(t))
  <2>1. dq' = dq /\ pc[t] \in Asking
    BY <1>12 DEF async_f2, sync_f2, queue_push, Asking
  <2>2. ~SyncReader(t)
    BY <1>4, <2>1 DEF Asking, Waiting, InCallout
  <2> QED BY <1>6, <2>1, <2>2
<1>13. CASE t \in Clients /\ (acquire_async(t) \/ reserve_sync(t))
  <2>1. pc[t] \in {"acquire_async", "reserve_sync"} /\ (pc[t] = "acquire_async" <=> acquire_async(t))
    BY <1>13 DEF acquire_async, reserve_sync
  <2>2. ~SyncReader(t)
    BY <1>4, <2>1 DEF Waiting, InCallout
  <2>3. /\ KeepsLock
        /\ \/ /\ dq'.w = dq.w + 1 /\ (pc[t] = "acquire_async" => dq.w < Width)
              /\ pc[t] # "acquire_async" => pc'[t] = RunLabel(cur[t])
           \/ dq'.w = dq.w
    BY <1>2, <1>13, EffectReserve
  <2>4. CASE dq'.w = dq.w + 1 /\ dq.w < Width
    BY <1>2, <1>3, <1>5, <2>4 DEF Fits
  <2>5. CASE dq'.w = dq.w + 1 /\ pc'[t] = RunLabel(cur[t])
    <3>1. SyncReader(t)'
      BY <1>13, <2>5 DEF SyncReader, RunLabel, InCallout
    <3>2. Reserved' = Reserved
      BY <2>3 DEF Reserved, KeepsLock
    <3> QED BY <1>2, <1>3, <2>2, <2>5, <3>1, <3>2 DEF GrowMove
  <2>6. CASE dq'.w = dq.w
    BY <1>9, <2>2, <2>3, <2>6
  <2> QED BY <2>3, <2>4, <2>5, <2>6
<1>14. CASE t \in Clients /\ barrier_sync(t)
  <2>1. ~SyncReader(t)
    BY <1>4, <1>14 DEF barrier_sync, Waiting, InCallout
  <2> QED BY <1>2, <1>8, <1>9, <1>14, <2>1, EffectBarrierSync
<1>15. CASE t \in Clients /\ sync_wait(t)
  <2>1. dq' = dq /\ SyncReader(t)'
    BY <1>1, <1>15 DEF sync_wait, SyncReader, RunLabel, InCallout
  <2> QED BY <1>6, <2>1
<1>16. CASE t \in Clients /\ apply_reserve(t)
  <2>1. pc[t] = "apply"
    BY <1>16 DEF apply_reserve
  <2>2. /\ KeepsLock /\ pc'[t] = "apply_run" /\ owned'[t].w \in 0..Width
        /\ dq'.w = dq.w + owned'[t].w /\ (owned'[t].w > 0 => dq'.w =< Width)
    BY <1>2, <1>16, <2>1, EffectApply
  <2>3. SyncReader(t)'
    BY <1>16, <2>2 DEF SyncReader, InCallout
  <2>4. CASE owned'[t].w > 0
    <3>1. dq'.w =< Width
      BY <2>2, <2>4
    <3> QED BY <1>3, <1>5, <3>1 DEF Fits
  <2>5. CASE owned'[t].w = 0
    <3>1. dq'.w = dq.w
      BY <1>2, <2>2, <2>5
    <3> QED BY <1>9, <2>2, <2>3, <3>1
  <2> QED BY <1>3, <2>2, <2>4, <2>5
<1>17. CASE t \in Clients /\ apply_relinquish(t)
  <2>1. pc[t] = "apply_run"
    BY <1>17 DEF apply_relinquish
  <2>2. KeepsLock /\ pc'[t] = "run" /\ dq'.w = dq.w - owned[t].w
    BY <1>2, <1>17, <2>1, EffectApply
  <2>3. SyncReader(t)'
    BY <1>17, <2>2 DEF SyncReader, InCallout
  <2>4. owned[t].w \in 0..Width /\ Reserved' = Reserved
    BY <1>1, <2>1, <2>2 DEF OwnsWidth, Reserved, KeepsLock
  <2> QED BY <1>2, <1>3, <2>2, <2>3, <2>4 DEF GrowMove
<1>18. CASE t \in Clients /\ queue_resume(t)
  <2>1. ~SyncReader(t)
    BY <1>4, <1>18 DEF queue_resume, Waiting, InCallout
  <2> QED BY <1>2, <1>8, <1>9, <1>18, <2>1, EffectResume
<1>19. CASE t \in Clients /\ ClientStep(t)
  BY <1>12, <1>13, <1>14, <1>15, <1>16, <1>17, <1>18, <1>19 DEF ClientStep
<1>20. CASE redirect(t) \/ handoff(t) \/ handoff_pop(t)
  <2>1. dq' = dq /\ pc[t] \in {"redirect", "handoff", "handoff_pop"}
    BY <1>20 DEF redirect, handoff, handoff_pop
  <2>2. ~SyncReader(t)
    BY <1>4, <2>1 DEF Waiting, InCallout
  <2> QED BY <1>6, <2>1, <2>2
<1>21. CASE finish(t)
  <2>1. dq' = dq /\ pc[t] = "run"
    BY <1>21 DEF finish
  <2>2. CASE t \in Workers
    BY <1>4, <1>6, <2>1, <2>2
  <2>3. CASE t \in Clients /\ Exclusive(cur[t])
    <3>1. HasLock(t) /\ Barred(t)
      BY <2>1, <2>3 DEF HasLock, Barred, Whole, InCallout, Draining, Leaving
    <3>2. dq.ib = 1
      BY <1>1, <3>1 DEF AtHand
    <3>3. dq'.w = Width
      BY <1>1, <2>1, <3>2 DEF DrainLock
    <3> QED BY <1>3, <1>5, <3>3, WidthFits
  <2>4. CASE t \in Clients /\ ~Exclusive(cur[t])
    <3>1. pc'[t] = "complete"
      BY <1>1, <1>21, <2>1, <2>4 DEF finish, ThreadsAt, ClientAt, InCallout, Exclusive
    <3>2. SyncReader(t)'
      BY <2>4, <3>1 DEF SyncReader
    <3> QED BY <1>6, <2>1, <3>2
  <2> QED BY <2>2, <2>3, <2>4 DEF Threads
<1>22. CASE non_barrier_complete(t)
  <2>1. pc[t] = "complete"
    BY <1>22 DEF non_barrier_complete
  <2>2. TakesBarrier(t, 1) \/ (KeepsLock /\ dq'.w = dq.w - 1)
    BY <1>2, <1>22, <2>1, EffectComplete
  <2>3. CASE KeepsLock /\ dq'.w = dq.w - 1
    <3>1. Reserved' = Reserved
      BY <2>3 DEF Reserved, KeepsLock
    <3> QED BY <1>2, <1>3, <2>3, <3>1 DEF GrowMove
  <2> QED BY <1>8, <2>2, <2>3
<1>23. CASE wakeup_probe(t) \/ class_wakeup(t) \/ wakeup_enqueue(t)
  <2>1. pc[t] \in Waiting /\ signaled' = signaled
    BY <1>23 DEF wakeup_probe, class_wakeup, wakeup_enqueue, Waiting
  <2>2. SyncReader(t) => SyncReader(t)'
    BY <2>1 DEF SyncReader, Waiting, InCallout, PopsSyncReader
  <2>3. dq' = dq \/ class_wakeup(t)
    BY <1>23 DEF wakeup_probe, wakeup_enqueue
  <2> QED BY <1>2, <1>6, <1>8, <1>9, <2>2, <2>3, EffectWakeup
<1>24. CASE unlock_wakeup(t)
  <2>1. pc[t] = "unlock_wakeup" /\ root' = root /\ signaled' = signaled
    BY <1>24 DEF unlock_wakeup
  <2>2. pc'[t] \in Waiting \union {"idle"}
    BY <1>2, <1>24, EffectUnlockWakeup DEF Return, Waiting
  <2>3. ~SyncReader(t) /\ t \notin signaled'
    BY <1>1, <1>4, <2>1 DEF Events, Waiting, InCallout
  <2> QED BY <1>10, <2>1, <2>2, <2>3
<1>25. ASSUME NEW from \in {"release", "unlock"}, NEW clear, try_unlock(t, from, clear)
       PROVE  GrowMove(t)
  <2>1. pc[t] \in {"release", "unlock"} /\ root' = root /\ signaled' = signaled
    BY <1>25 DEF try_unlock
  <2>2. ~SyncReader(t) /\ t \notin signaled'
    BY <1>1, <1>4, <2>1 DEF Events, Waiting, InCallout
  <2>3. \/ KeepsLock /\ dq'.w = dq.w
        \/ pc'[t] \in Waiting \union {"idle"}
    BY <1>2, <1>25, EffectTryUnlock DEF Return, Waiting
  <2> QED BY <1>9, <1>10, <2>1, <2>2, <2>3
<1>26. ASSUME NEW from \in {"release_dirty", "unlock_dirty"}, NEW retry, clear_dirty(t, from, retry)
       PROVE  GrowMove(t)
  <2>1. pc[t] \in {"release_dirty", "unlock_dirty"}
    BY <1>26 DEF clear_dirty
  <2>2. ~SyncReader(t)
    BY <1>4, <2>1 DEF Waiting, InCallout
  <2> QED BY <1>2, <1>9, <1>26, <2>2, EffectClearDirty
<1>27. CASE SharedStep(t)
  <2>1. ~transfer(t)
    BY DEF transfer
  <2> QED BY <1>20, <1>21, <1>22, <1>23, <1>24, <1>25, <1>26, <1>27, <2>1 DEF SharedStep
<1>28. CASE t \in Workers /\ (root_pop(t) \/ drain(t) \/ drain_pop(t))
  <2>1. dq' = dq
    BY <1>28 DEF root_pop, drain, drain_pop
  <2> QED BY <1>4, <1>6, <1>28, <2>1
<1>29. CASE t \in Workers /\ drain_try_lock(t)
  <2>1. dq'.w = Width \/ (KeepsLock /\ dq'.w = dq.w)
    BY <1>2, <1>29, EffectLock
  <2>2. CASE dq'.w = Width
    BY <1>3, <1>5, <2>2, WidthFits
  <2> QED BY <1>4, <1>9, <1>29, <2>1, <2>2
<1>30. CASE t \in Workers /\ drain_width(t)
  <2>1. pc[t] = "width" /\ items' = items
    BY <1>30 DEF drain_width
  <2>2. /\ dq'.pb = dq.pb
        /\ \/ (Head(items).sync \/ dq.w < Width) /\ dq'.w = dq.w + 1 /\ pc'[t] = "pop"
           \/ dq'.w = dq.w
    BY <1>2, <1>30, EffectWidth
  <2>3. CASE dq'.w = dq.w
    BY <1>4, <1>6, <1>30, <2>2, <2>3
  <2>4. CASE dq.w < Width /\ dq'.w = dq.w + 1
    BY <1>2, <1>3, <1>5, <2>4 DEF Fits
  <2>5. CASE Head(items).sync /\ dq'.w = dq.w + 1 /\ pc'[t] = "pop"
    <3>1. SyncReader(t)'
      BY <1>1, <2>1, <2>5 DEF SyncReader, PopsSyncReader, SeesHead
    <3>2. Reserved' = Reserved
      BY <2>2 DEF Reserved
    <3> QED BY <1>2, <1>3, <1>4, <1>30, <2>5, <3>1, <3>2 DEF GrowMove
  <2> QED BY <2>2, <2>3, <2>4, <2>5
<1>31. CASE t \in Workers /\ reenqueue(t)
  <2>1. pc[t] = "reenqueue" /\ root' = root
    BY <1>31 DEF reenqueue
  <2>2. CASE dq'.ib = 1
    BY <1>1, <1>3, <1>5, <2>2 DEF DrainLock, Fits
  <2>3. CASE pc'[t] \in {"idle", "enqueue"}
    BY <1>4, <1>10, <1>31, <2>1, <2>3 DEF Waiting
  <2> QED BY <1>2, <1>31, <2>1, <2>2, <2>3, EffectReenqueue
<1> HIDE DEF Goto, SetItem, SetOwned, SetFlags, local, history
<1>32. CASE t \in Workers /\ WorkerStep(t)
  BY <1>25, <1>26, <1>28, <1>29, <1>30, <1>31, <1>32 DEF WorkerStep
<1> HIDE DEF Goto, SetItem, SetOwned, SetFlags, local, history
<1> QED BY <1>11, <1>19, <1>27, <1>32 DEF Moves

(* What a step that transfers nothing leaves to the other readers.             *)
LEMMA OthersRead ==
  ASSUME QueueInv, NEW t \in Threads, Moves(t), pc[t] # "transfer", NEW u \in Threads \ {t}
  PROVE  SyncReader(u)' <=> SyncReader(u) \/ (PopsSyncReader(t) /\ u = Head(items).by)
<1>1. pc'[u] = pc[u] /\ (PopsSyncReader(u)' <=> PopsSyncReader(u))
  BY OneThread, OthersStay DEF AloneMoves, QueueInv
<1>2. u \in signaled' <=> u \in signaled \/ (PopsSyncReader(t) /\ u = Head(items).by)
  <2>1. SignalMove(t)
    BY SignalStep DEF QueueInv
  <2>2. CASE PopsSyncReader(t)
    <3>1. pc[t] = "pop" /\ Head(items).by \in signaled' /\ Head(items).by \notin signaled
      BY <2>2, PopWidth DEF PopsSyncReader
    <3>2. signaled' = signaled \union {Head(items).by}
      BY <2>1, <3>1 DEF SignalMove, transfer
    <3> QED BY <2>2, <3>2
  <2>3. CASE ~PopsSyncReader(t)
    BY <2>1, <2>3 DEF SignalMove, PopsSyncReader, transfer
  <2> QED BY <2>2, <2>3
<1> QED BY <1>1, <1>2 DEF SyncReader

(* What exceeds the width are readers of dispatch_sync.                       *)
LEMMA SyncExcessStep ==
  ASSUME QueueInv, NEW t \in Threads, Moves(t)
  PROVE  SyncExcess'
<1>1. /\ dq.w =< Width + Reserved + Cardinality(SyncReaders) /\ Width \in Nat /\ Width > 0
      /\ dq.w \in Int /\ Reserved \in Nat /\ dq'.w \in Int /\ Reserved' \in Nat
  BY DataStep, QueueFacts, StateFields, WidthAssumption DEF QueueInv, SyncExcess, Reserved
<1>2. IsFiniteSet(SyncReaders) /\ IsFiniteSet(SyncReaders')
  BY ThreadsFinite, FS_Subset DEF SyncReaders
<1>3. Cardinality(SyncReaders) \in Nat /\ Cardinality(SyncReaders') \in Nat
  BY <1>2, FS_CardinalityType
<1>4. ASSUME dq'.w =< Width + Reserved' + Cardinality(SyncReaders') PROVE SyncExcess'
  BY <1>4 DEF SyncExcess
<1>5. CASE Fits
  BY <1>1, <1>3, <1>4, <1>5 DEF Fits
<1>6. CASE transfer(t)
  <2> DEFINE B == {batch[t][j].by : j \in 1..Len(batch[t])}
  <2>1. dq'.w = Width \/ dq'.w = Len(batch[t])
    BY <1>6, TransferMove
  <2>2. CASE dq'.w = Width
    BY <1>1, <1>5, <2>2, WidthFits
  <2>3. CASE dq'.w = Len(batch[t])
    <3>1. Cardinality(B) = Len(batch[t])
      BY <1>6, BatchCount
    <3>2. B \subseteq SyncReaders'
      BY <1>6, TransferFacts DEF SyncReaders, SyncReader, Threads
    <3> HIDE DEF B
    <3>3. Cardinality(B) =< Cardinality(SyncReaders')
      BY <1>2, <3>2, FS_Subset
    <3> QED BY <1>1, <1>3, <1>4, <2>3, <3>1, <3>3
  <2> QED BY <2>1, <2>2, <2>3
<1>7. CASE PopsSyncReader(t)
  <2> DEFINE Q == SyncReaders \ {t}
  <2>1. PICK v : v = Head(items).by
    OBVIOUS
  <2>2. /\ dq' = dq /\ t \in Workers /\ v \in Clients /\ v # t /\ t \notin signaled' /\ pc'[t] = "drain"
        /\ v \in signaled' /\ v \notin signaled /\ pc[v] \in Waiting
    BY <1>7, <2>1, PopWidth
  <2>3. t \in SyncReaders /\ t \notin SyncReaders'
    BY <1>7, <2>2, NamesAssumption DEF SyncReaders, SyncReader, PopsSyncReader
  <2>4. v \notin SyncReaders /\ v \in SyncReaders' /\ pc[t] # "transfer"
    BY <1>7, <2>2 DEF SyncReaders, SyncReader, PopsSyncReader, Waiting, InCallout, Threads
  <2>5. \A u \in Threads \ {t, v} : u \in SyncReaders' <=> u \in SyncReaders
    BY <1>7, <2>1, <2>4, OthersRead DEF SyncReaders
  <2>6. SyncReaders' \ {v} = Q
    BY <2>2, <2>3, <2>4, <2>5 DEF SyncReaders
  <2>7. /\ Cardinality(Q) \in Nat /\ Cardinality(Q) = Cardinality(SyncReaders) - 1
        /\ IsFiniteSet(Q)
    BY <1>2, <2>3, FS_RemoveElement, FS_CardinalityType
  <2>8. Cardinality(SyncReaders' \ {v}) = Cardinality(SyncReaders') - 1
    BY <1>2, <2>4, FS_RemoveElement
  <2>9. Cardinality(SyncReaders') = Cardinality(SyncReaders)
    BY <1>3, <2>6, <2>7, <2>8
  <2>10. dq'.w = dq.w /\ Reserved' = Reserved
    BY <2>2 DEF Reserved
  <2> QED BY <1>1, <1>4, <2>9, <2>10
<1>8. CASE ~transfer(t) /\ ~PopsSyncReader(t)
  <2>1. pc[t] # "transfer"
    BY <1>8, ListMoves DEF QueueInv, ListMove, queue_push, drain_pop, handoff_pop
  <2>2. GrowMove(t)
    BY <1>8, <2>1, GrowStep
  <2>3. \A u \in Threads \ {t} : u \in SyncReaders' <=> u \in SyncReaders
    BY <1>8, <2>1, OthersRead DEF SyncReaders
  <2>4. SyncReaders \ {t} = SyncReaders' \ {t}
    BY <2>3 DEF SyncReaders
  <2>5. Cardinality(SyncReaders') =
          Cardinality(SyncReaders) + (IF t \in SyncReaders' THEN 1 ELSE 0)
                                   - (IF t \in SyncReaders THEN 1 ELSE 0)
    BY <1>2, <2>4, CountMoves
  <2>6. (t \in SyncReaders' <=> SyncReader(t)') /\ (t \in SyncReaders <=> SyncReader(t))
    BY DEF SyncReaders
  <2>7. CASE dq'.w - Reserved' =< dq.w - Reserved /\ (SyncReader(t) => SyncReader(t)')
    BY <1>1, <1>3, <1>4, <2>5, <2>6, <2>7
  <2>8. CASE dq'.w - Reserved' = dq.w - Reserved + 1 /\ ~SyncReader(t) /\ SyncReader(t)'
    BY <1>1, <1>3, <1>4, <2>5, <2>6, <2>8
  <2>9. CASE dq'.w - Reserved' = dq.w - Reserved - 1
    BY <1>1, <1>3, <1>4, <2>5, <2>6, <2>9
  <2> QED BY <1>5, <2>2, <2>7, <2>8, <2>9 DEF GrowMove
<1> QED BY <1>6, <1>7, <1>8


-----------------------------------------------------------------------------
(* The theorem                                                               *)

(* Nobody has anything of an idle queue.                                      *)
LEMMA InitAt == Init => Word /\ Suspensions /\ At /\ Owns /\ DrainLock /\ Lists /\ Batches /\ Events
<1> SUFFICES ASSUME Init
             PROVE  Word /\ Suspensions /\ At /\ Owns /\ DrainLock /\ Lists /\ Batches /\ Events
  OBVIOUS
<1> USE WidthAssumption, NamesAssumption DEF Init
<1>1. /\ dq.sc = 0 /\ dq.ib = 0 /\ dq.w = 0 /\ dq.pb = 0 /\ dq.enq = FALSE /\ dq.owner = None
      /\ dq \in States
  BY DEF Idle, States
<1>2. Word
  BY <1>1 DEF Word
<1>3. Suspensions
  <2>1. {c \in Clients : pc[c] = "suspended"} = {}
    BY DEF Threads
  <2> QED BY <1>1, <2>1, FS_EmptySet DEF Suspensions
<1>4. At
  BY DEF At, ThreadsAt, RootAt, ClientAt, WorkerAt, Asking, InCallout, Waiting, Handing, Draining,
         Leaving, Threads
<1>5. Owns
  BY
     DEF Owns, OwnsWidth, SeesHead, Nothing, Asking, InCallout, Waiting, Handing, Draining,
         Leaving
<1>6. DrainLock
  BY <1>1 DEF DrainLock, HasLock, InCallout, Handing, Draining, Leaving
<1>7. Lists /\ Batches /\ Events
  BY DEF Lists, Batches, Events
<1> QED BY <1>2, <1>3, <1>4, <1>5, <1>6, <1>7

(* The counts of an idle queue.                                              *)
LEMMA InitCounts == Init => WidthAccounting /\ EnqueuedOnce /\ AsyncRoom /\ SyncExcess
<1> SUFFICES ASSUME Init PROVE WidthAccounting /\ EnqueuedOnce /\ AsyncRoom /\ SyncExcess
  OBVIOUS
<1>1. /\ ThreadsAt /\ Owns /\ Events /\ Width \in Nat /\ Width > 0 /\ Cardinality({}) = 0
      /\ root = <<>> /\ dq.w = 0 /\ dq.pb = 0 /\ dq.enq = FALSE /\ signaled = {}
      /\ \A t \in Threads : pc[t] = "idle"
  BY InitAt, WidthAssumption, FS_EmptySet DEF At, Init, Idle
<1>2. Cardinality(Redirected) = 0 /\ Reserved = 0
  <2>1. Redirected = {}
    BY <1>1 DEF Redirected
  <2> QED BY <1>1, <2>1 DEF Reserved
<1>3. \A t \in Threads : Taken(t) = 0
  <2> SUFFICES ASSUME NEW t \in Threads PROVE Taken(t) = 0
    OBVIOUS
  <2>1. OwnsWidth(t) /\ t \notin signaled
    BY <1>1 DEF Owns
  <2> QED BY <1>1, <2>1, Empty, WidthOfIs DEF WidthReads, WidthOf
<1>4. WidthAccounting
  <2>1. Units = {}
    BY <1>1, <1>3 DEF Units
  <2> QED BY <1>1, <1>2, <1>3, <2>1 DEF WidthAccounting
<1>5. EnqueuedOnce
  <2>1. {j \in 1..Len(root) : root[j] = DQ} = {} /\ {t \in Threads : pc[t] \in {"enqueue", "lock"}} = {}
    BY <1>1
  <2>2. /\ Cardinality({j \in 1..Len(root) : root[j] = DQ}) = 0
        /\ Cardinality({t \in Threads : pc[t] \in {"enqueue", "lock"}}) = 0
    BY <1>1, <2>1
  <2> QED BY <1>1, <2>2 DEF EnqueuedOnce
<1>6. AsyncRoom
  <2>1. \A t \in Threads : ~AsyncAt(t) /\ ~PopsSyncReader(t)
    BY <1>1 DEF AsyncAt, PopsSyncReader, Draining, Leaving
  <2>2. \A t \in Threads : AsyncTaken(t) = 0
    BY <1>1, <2>1, AsyncIs DEF AsyncReads
  <2>3. AsyncUnits = {}
    BY <1>1, <2>2 DEF AsyncUnits
  <2> QED BY <1>1, <1>2, <2>3 DEF AsyncRoom
<1>7. SyncExcess
  <2>1. IsFiniteSet(SyncReaders)
    BY ThreadsFinite, FS_Subset DEF SyncReaders
  <2>2. Cardinality(SyncReaders) \in Nat
    BY <2>1, FS_CardinalityType
  <2> QED BY <1>1, <1>2, <2>2 DEF SyncExcess
<1> QED BY <1>4, <1>5, <1>6, <1>7

(* A step that changes nothing.                                              *)
LEMMA QueueStutters == QueueInv /\ UNCHANGED vars => QueueInv'
<1> SUFFICES ASSUME QueueInv, UNCHANGED vars PROVE QueueInv'
  OBVIOUS
<1> USE DEF QueueInv, vars
<1>1. Word' /\ Suspensions' /\ Reserved' = Reserved
  BY DEF Word, Suspensions, Reserved
<1>2. At'
  BY DEF At, ThreadsAt, RootAt, ClientAt, WorkerAt
<1>3. Owns'
  BY DEF Owns, OwnsWidth, SeesHead
<1>4. \A t \in Threads : (HasLock(t)' <=> HasLock(t)) /\ (Whole(t)' <=> Whole(t))
  BY DEF HasLock, Whole
<1>5. DrainLock'
  BY <1>4 DEF DrainLock
<1>6. \A i : Placed(i)' <=> Placed(i)
  BY DEF Placed
<1>7. Lists' /\ Batches' /\ Events'
  BY <1>6 DEF Lists, Batches, Events
<1>8. \A t \in Threads : Taken(t)' = Taken(t) /\ AsyncTaken(t)' = AsyncTaken(t)
  BY DEF Taken, Held, Granted, AsyncTaken, PopsSyncReader
<1>9. Units' = Units /\ AsyncUnits' = AsyncUnits /\ Redirected' = Redirected
  BY <1>8 DEF Units, AsyncUnits, Redirected
<1>10. WidthAccounting' /\ AsyncRoom'
  BY <1>1, <1>8, <1>9 DEF WidthAccounting, AsyncRoom
<1>11. EnqueuedOnce'
  BY DEF EnqueuedOnce
<1>12. SyncReaders' = SyncReaders
  BY DEF SyncReaders, SyncReader, PopsSyncReader
<1>13. SyncExcess'
  BY <1>1, <1>12 DEF SyncExcess
<1> QED BY <1>1, <1>2, <1>3, <1>5, <1>7, <1>10, <1>11, <1>13

(* The invariant holds of every reachable state.                             *)
THEOREM QueueInvariant == Spec => []QueueInv
<1>1. Init => QueueInv
  BY InitAt, InitCounts DEF QueueInv
<1>2. QueueInv /\ [Next]_vars => QueueInv'
  <2>1. ASSUME QueueInv, NEW t \in Threads, Moves(t) PROVE QueueInv'
    <3>1. Word' /\ Suspensions' /\ Owns' /\ DrainLock' /\ Lists' /\ Batches' /\ Events'
      BY <2>1, WordStep, SuspensionsStep, OwnsStep, DrainLockStep, ListsStep, EventsStep
    <3>2. At'
      BY <2>1, ThreadsAtStep, RootAtStep DEF At
    <3>3. WidthAccounting' /\ EnqueuedOnce' /\ AsyncRoom' /\ SyncExcess'
      BY <2>1, AccountingStep, EnqueuedOnceStep, AsyncRoomStep, SyncExcessStep
    <3> QED BY <3>1, <3>2, <3>3 DEF QueueInv
  <2>2. ASSUME Next PROVE \E t \in Threads : Moves(t)
    BY <2>2 DEF Next, Moves, Threads
  <2> QED BY <2>1, <2>2, QueueStutters
<1> QED BY <1>1, <1>2, PTL DEF Spec

(* What the fields of the state word, the lists and the items in hand are: the *)
(* bound of the used width is what the readers of dispatch_sync may exceed it  *)
(* by while a barrier is pending.                                            *)
LEMMA InvTypes == QueueInv => TypeOK
<1> SUFFICES ASSUME QueueInv PROVE TypeOK
  OBVIOUS
<1>1. Word /\ Suspensions /\ ThreadsAt /\ RootAt /\ Lists /\ Events /\ SyncExcess
  BY DEF QueueInv, At
<1>2. dq.sc \in 0..Cardinality(Clients)
  <2>1. IsFiniteSet(Clients) /\ {c \in Clients : pc[c] = "suspended"} \subseteq Clients
    BY NamesAssumption
  <2>2. /\ Cardinality({c \in Clients : pc[c] = "suspended"}) =< Cardinality(Clients)
        /\ Cardinality({c \in Clients : pc[c] = "suspended"}) \in Nat
        /\ Cardinality(Clients) \in Nat
    BY <2>1, FS_Subset, FS_CardinalityType
  <2> QED BY <1>1, <2>2 DEF Suspensions
<1>3. dq.w \in 0..(2 * Width + Cardinality(Threads))
  <2>1. IsFiniteSet(Threads) /\ SyncReaders \subseteq Threads
    BY ThreadsFinite DEF SyncReaders
  <2>2. /\ Cardinality(SyncReaders) =< Cardinality(Threads) /\ Cardinality(SyncReaders) \in Nat
        /\ Cardinality(Threads) \in Nat
    BY <2>1, FS_Subset, FS_CardinalityType
  <2>3. Reserved \in Nat /\ Reserved =< Width /\ dq.w \in Nat /\ Width \in Nat
    BY QueueFacts, WidthAssumption DEF Reserved
  <2>4. dq.w =< Width + Reserved + Cardinality(SyncReaders)
    BY <1>1 DEF SyncExcess
  <2> QED BY <2>2, <2>3, <2>4
<1>4. dq \in [sc : 0..Cardinality(Clients), ib : 0..1, w : 0..(2 * Width + Cardinality(Threads)),
              pb : 0..1, dirty : BOOLEAN, enq : BOOLEAN, owner : Threads \union {None}]
  BY <1>1, <1>2, <1>3 DEF Word, States
<1>5. \A j \in 1..Len(root) : root[j] = DQ \/ root[j] \in Items
  BY <1>1 DEF RootAt
<1>6. \A t \in Threads : cur[t] \in Items \union {None}
  BY <1>1 DEF ThreadsAt, ClientAt, WorkerAt, ItemOK, Threads
<1> QED BY <1>1, <1>4, <1>5, <1>6 DEF TypeOK, Word, Lists, Events

(* Every asynchronous reader that is on its way or in its callout has a unit.  *)
LEMMA InvAsync == QueueInv => AsyncWithinWidth
<1> SUFFICES ASSUME QueueInv PROVE AsyncWithinWidth
  OBVIOUS
<1> DEFINE A == {t \in Threads : \/ pc[t] = "redirect"
                                 \/ pc[t] = "run" /\ ~cur[t].sync /\ ~Exclusive(cur[t])}
<1>1. ThreadsAt /\ Owns /\ Events /\ RootAt /\ AsyncRoom /\ Width \in Nat /\ Width > 0
  BY WidthAssumption DEF QueueInv, At
<1>2. ASSUME NEW t \in A PROVE t \in Threads /\ AsyncTaken(t) >= 1
  <2>1. t \in Threads /\ OwnsWidth(t) /\ pc[t] \in {"redirect", "run"}
    BY <1>1 DEF Owns
  <2>2. AsyncAt(t) /\ ~PopsSyncReader(t)
    BY <1>1, <1>2, <2>1 DEF AsyncAt, PopsSyncReader, ThreadsAt, ClientAt, InCallout, Threads
  <2>3. AsyncTaken(t) = WidthOf(t) /\ t \notin signaled
    BY <1>1, <2>1, <2>2, AsyncIs DEF AsyncReads
  <2>4. WidthOf(t) = 1 + owned[t].w /\ owned[t].w >= 0 /\ owned[t].w \in Int
    BY <1>2, <2>1, <2>3 DEF WidthOf, HeldAt, InCallout, OwnsWidth, Nothing
  <2> QED BY <2>1, <2>3, <2>4
<1> HIDE DEF A
<1>3. A \subseteq Threads /\ IsFiniteSet(A)
  <2>1. A \subseteq Threads
    BY DEF A
  <2> QED BY <2>1, ThreadsFinite, FS_Subset
<1>4. A \X {1} \subseteq AsyncUnits
  BY <1>1, <1>2 DEF AsyncUnits
<1>5. IsFiniteSet(AsyncUnits)
  <2>1. IsFiniteSet(1..(Width + 1))
    BY <1>1, FS_Interval
  <2>2. IsFiniteSet(Threads \X (1..(Width + 1)))
    BY <2>1, ThreadsFinite, FS_Product
  <2> QED BY <2>2, FS_Subset DEF AsyncUnits
<1>6. Cardinality(A) =< Cardinality(AsyncUnits)
  <2>1. IsFiniteSet({1}) /\ Cardinality({1}) = 1
    BY FS_Singleton
  <2>2. Cardinality(A \X {1}) = Cardinality(A) * Cardinality({1})
    BY <1>3, <2>1, FS_Product
  <2>3. Cardinality(A) * 1 = Cardinality(A) /\ Cardinality(A) \in Nat
    BY <1>3, FS_CardinalityType
  <2>4. Cardinality(A \X {1}) =< Cardinality(AsyncUnits)
    BY <1>4, <1>5, FS_Subset
  <2> QED BY <2>1, <2>2, <2>3, <2>4
<1>7. Cardinality(Redirected) \in Nat /\ Cardinality(A) \in Nat /\ Cardinality(AsyncUnits) \in Nat
  BY <1>1, <1>3, <1>5, RedirectedCount, FS_CardinalityType
<1> QED BY <1>1, <1>6, <1>7 DEF AsyncWithinWidth, AsyncRoom, A

(* dq_state tells the truth, for every width, every set of clients and of root *)
(* queue threads, and all calls: no field borrows from its neighbour, the used *)
(* width is the sum of what was taken, asynchronous readers stay within the    *)
(* width, and ENQUEUED is where the queue is.                                *)
THEOREM QueueStateWord == Spec => []StateWordTruthful
<1>1. QueueInv => StateWordTruthful
  BY InvTypes, InvAsync DEF QueueInv, StateWordTruthful
<1> QED BY <1>1, QueueInvariant, PTL

-----------------------------------------------------------------------------
(* Nothing is left behind *)

\* A thread that will look at the queue for what is in its list, and one that
\* will set DIRTY if it finds the queue locked.
Wakes(t) == pc[t] \in {"probe", "wakeup"}
Announces(t) == Wakes(t) /\ flags[t] \in {"flush", "slow"}

\* Somebody has the drain lock, ENQUEUED is set, or there is width out that will
\* come back: whoever comes last looks at the list again.
InCharge == dq.owner # None \/ dq.enq \/ dq.w > Reserved

\* Nobody is needed for an empty list; DIRTY is for somebody to read.
Watched == /\ dq.dirty => InCharge
           /\ items # <<>> => InCharge \/ \E t \in Threads : Wakes(t)

\* A thread that is about to unlock a queue with items in it will find DIRTY set,
\* or leaves it to the readers that have the whole width.
Told(t) == pc[t] \in {"unlock", "release"} /\ items # <<>> =>
             \/ dq.dirty
             \/ \E u \in Threads : Announces(u)
             \/ pc[t] = "unlock" /\ owned[t] = Nothing /\ dq.w >= Width

\* Width is reserved for a barrier that is in the list.
Claimed == /\ dq.pb = 1 => items # <<>>
           /\ \A t \in Threads : pc[t] \in {"reenqueue", "unlock_wakeup"} => items # <<>>

\* A client that waits, or helps while it waits, has its item in the list or in
\* the hands of a thread that will signal it.
Awaits(c) == /\ cur[c] # None /\ cur[c].sync /\ cur[c] \in outstanding /\ c \notin signaled
             /\ pc[c] \in Waiting \union Handing
Kept(i) == \/ \E j \in 1..Len(items) : items[j] = i
           \/ \E t \in Threads : \E j \in 1..Len(batch[t]) : batch[t][j] = i
Queued == \A c \in Clients : /\ Awaits(c) => Kept(cur[c])
                             /\ pc[c] = "complete" => cur[c] \notin outstanding
                             /\ pc[c] = "suspended" => cur[c] = None

\* Without suspensions and dispatch_apply, no client is ever in either.
Simple == \A c \in Clients : /\ pc[c] \notin {"suspended", "apply", "apply_run"}
                             /\ cur[c] # None => ~cur[c].apply

RestInv == /\ Claimed /\ Queued
           /\ Plain => Simple /\ Watched /\ \A t \in Threads : Told(t)

(* A queue that nobody suspends is not suspended.                            *)
LEMMA NeverSuspended == Simple /\ Suspensions => dq.sc = 0
<1>1. Simple => {c \in Clients : pc[c] = "suspended"} = {}
  BY DEF Simple
<1> QED BY <1>1, FS_EmptySet DEF Suspensions

(* The calls that are left neither suspend the queue nor take more width.    *)
LEMMA SimpleStep ==
  ASSUME QueueInv, Plain, Simple, NEW t \in Threads, Moves(t)
  PROVE  Simple'
<1>1. Word /\ ThreadsAt /\ AloneMoves(t)
  BY OneThread DEF QueueInv, At
<1> DEFINE OK(c) == pc'[c] \notin {"suspended", "apply", "apply_run"}
                    /\ (cur'[c] # None => ~cur'[c].apply)
<1>2. ASSUME NEW c \in Clients, c # t PROVE OK(c)
  BY <1>1, <1>2 DEF AloneMoves, Simple, Threads
<1>3. ASSUME t \in Clients PROVE OK(t)
  <2>1. /\ pc[t] \notin {"suspended", "apply", "apply_run"} /\ (cur[t] # None => ~cur[t].apply)
        /\ t \notin Workers /\ Plain' /\ uses' = uses
        /\ pc[t] \in {"reserve_sync", "barrier_sync", "wait"} => cur[t] # None
    BY <1>1, <1>3, NamesAssumption DEF Simple, Moves, Plain, ThreadsAt, ClientAt, Asking
  <2>2. Return(t) \in {"wait", "idle"}
    BY DEF Return
  <2>3. ASSUME NEW k \in uses \cap Kinds, dispatch_call(t, k) PROVE OK(t)
    <3>1. cur'[t] = Item(t, ops[t] + 1, k) /\ pc'[t] = FirstStep(Item(t, ops[t] + 1, k))
      BY <1>1, <2>3 DEF dispatch_call, SetItem, Goto, Word
    <3>2. ~Item(t, ops[t] + 1, k).apply
      BY DEF Item, Plain
    <3> QED BY <3>1, <3>2 DEF FirstStep
  <2>4. ~queue_suspend(t)
    BY DEF queue_suspend, Plain
  <2>5. CASE ClientStep(t)
    BY SMTT(60), <1>1, <1>3, <2>1, <2>2, <2>5 DEF ClientStep, async_f2, acquire_async, sync_f2, reserve_sync,
       barrier_sync, queue_push, sync_wait, apply_reserve, apply_relinquish, queue_resume, Goto,
       local, Word, RunLabel
  <2>6. CASE SharedStep(t)
    <3>1. cur'[t] = cur[t] \/ cur'[t] = None
      BY <1>1, <1>3, <2>1, <2>6 DEF SharedStep, redirect, finish, non_barrier_complete,
         wakeup_probe, class_wakeup, wakeup_enqueue, handoff, handoff_pop, transfer, unlock_wakeup,
         try_unlock, clear_dirty, SetItem, local, Word
    <3>2. pc'[t] \notin {"suspended", "apply", "apply_run"}
      BY <1>1, <2>2, <2>6 DEF SharedStep, redirect, finish, non_barrier_complete,
         wakeup_probe, class_wakeup, wakeup_enqueue, handoff, handoff_pop, transfer, unlock_wakeup,
         try_unlock, clear_dirty, Goto, Word
    <3> QED BY <2>1, <3>1, <3>2
  <2> QED BY <1>3, <2>1, <2>3, <2>4, <2>5, <2>6 DEF Moves, Call
<1> HIDE DEF OK
<1>4. \A c \in Clients : OK(c)
  BY <1>2, <1>3
<1> QED BY <1>4 DEF Simple, OK

\* What a step does to the state word.
WordMove(t) ==
  \/ dq' = dq /\ pc[t] # "wakeup"
  \/ acquire_async(t) \/ reserve_sync(t) \/ barrier_sync(t)
  \/ t \in Clients /\ (apply_reserve(t) \/ apply_relinquish(t) \/ queue_suspend(t) \/ queue_resume(t))
  \/ non_barrier_complete(t) \/ class_wakeup(t) \/ transfer(t) \/ unlock_wakeup(t)
  \/ drain_try_lock(t) \/ drain_width(t) \/ reenqueue(t)
  \/ try_unlock(t, "release", "release_dirty") \/ try_unlock(t, "unlock", "unlock_dirty")
  \/ clear_dirty(t, "release_dirty", "handoff") \/ clear_dirty(t, "unlock_dirty", "drain")

(* The steps that change the state word.                                     *)
LEMMA WordMoves ==
  ASSUME NEW t \in Threads, Moves(t)
  PROVE  WordMove(t)
<1> USE DEF WordMove
<1>1. CASE t \in Clients /\ Call(t)
  BY <1>1 DEF Call, dispatch_call
<1>2. CASE t \in Clients /\ ClientStep(t)
  BY <1>2 DEF ClientStep, async_f2, sync_f2, queue_push, sync_wait
<1>3. CASE SharedStep(t)
  BY <1>3 DEF SharedStep, redirect, finish, wakeup_probe, wakeup_enqueue, handoff, handoff_pop
<1>4. CASE WorkerStep(t)
  BY <1>4 DEF WorkerStep, root_pop, drain, drain_pop
<1> HIDE DEF WordMove
<1> QED BY <1>1, <1>2, <1>3, <1>4 DEF Moves

(* The steps that end at the two labels where a reservation is made.         *)
LEMMA Reserving ==
  ASSUME NEW t \in Threads, Word, Moves(t), pc'[t] \in {"reenqueue", "unlock_wakeup"}
  PROVE  items # <<>> /\ items' = items
<1> USE DEF Goto, Word
<1>1. Return(t) \in {"wait", "idle"}
  BY DEF Return
<1>2. CASE t \in Clients /\ Call(t)
  BY <1>2 DEF Call, dispatch_call, queue_suspend, FirstStep
<1>3. CASE t \in Clients /\ ClientStep(t)
  BY <1>1, <1>3 DEF ClientStep, async_f2, acquire_async, sync_f2, reserve_sync, barrier_sync,
     queue_push, sync_wait, apply_reserve, apply_relinquish, queue_resume, RunLabel
<1>4. CASE SharedStep(t)
  BY <1>1, <1>4 DEF SharedStep, redirect, finish, non_barrier_complete, wakeup_probe, class_wakeup,
     wakeup_enqueue, handoff, handoff_pop, transfer, unlock_wakeup, try_unlock, clear_dirty
<1>5. CASE WorkerStep(t)
  BY <1>1, <1>5 DEF WorkerStep, root_pop, drain_try_lock, drain, DrainOut, drain_width, drain_pop,
     reenqueue, try_unlock, clear_dirty
<1> QED BY <1>2, <1>3, <1>4, <1>5 DEF Moves

(* A reservation is made for an item of the list, and only who has the lock takes *)
(* items out of it.                                                          *)
LEMMA ClaimedStep ==
  ASSUME QueueInv, Claimed, NEW t \in Threads, Moves(t)
  PROVE  Claimed'
<1>1. /\ Word /\ ThreadsAt /\ Owns /\ DrainLock /\ AloneMoves(t) /\ OwnsWidth(t)
      /\ items \in Seq(Items)
  BY OneThread DEF QueueInv, At, Lists, Owns
<1>2. pc[t] \in {"pop", "handoff_pop"} \/ items' = items \/ items' = Append(items, cur[t])
  BY <1>1, ItemsStep
<1>3. pc[t] \notin {"pop", "handoff_pop"} => (items # <<>> => items' # <<>>)
  BY <1>1, <1>2
<1>4. ASSUME NEW u \in Threads, pc'[u] \in {"reenqueue", "unlock_wakeup"}
      PROVE  items' # <<>>
  <2>1. CASE u = t
    BY <1>1, <1>4, <2>1, Reserving
  <2>2. CASE u # t
    <3>1. pc[u] = pc'[u] /\ HasLock(u)
      BY <1>1, <1>4, <2>2 DEF AloneMoves, HasLock, Leaving, Handing
    <3>2. ~HasLock(t)
      BY <2>2, <3>1, QueueFacts
    <3> QED BY <1>3, <1>4, <3>1, <3>2 DEF Claimed, HasLock, Draining, Handing
  <2> QED BY <2>1, <2>2
<1>5. dq'.pb = dq.pb \/ dq'.pb = 0 \/ pc[t] \in {"reenqueue", "unlock_wakeup"}
  <2>1. /\ dq.w >= Reserved /\ dq.w \in Nat /\ owned[t] \in Parts /\ owned[t].w \in Int
        /\ pc[t] = "complete" => dq.ib = 0
    BY ReadyIs
  <2>2. pc[t] \notin {"reenqueue", "unlock_wakeup"} => owned[t].pb = 0
    BY <1>1 DEF OwnsWidth
  <2>3. CASE acquire_async(t) \/ reserve_sync(t)
    BY <1>1, <2>3, EffectReserve DEF KeepsLock
  <2>4. CASE barrier_sync(t)
    BY <1>1, <2>4, EffectBarrierSync DEF KeepsLock, TakesBarrier
  <2>5. CASE apply_reserve(t) \/ apply_relinquish(t)
    BY <1>1, <2>1, <2>5, EffectApply DEF KeepsLock
  <2>6. CASE queue_suspend(t)
    BY <1>1, <2>6, EffectSuspend DEF KeepsLock
  <2>7. CASE queue_resume(t)
    BY <1>1, <2>7, EffectResume DEF KeepsLock, TakesBarrier
  <2>8. CASE non_barrier_complete(t)
    <3>1. pc[t] = "complete"
      BY <2>8 DEF non_barrier_complete
    <3> QED BY <1>1, <2>1, <2>8, <3>1, EffectComplete DEF KeepsLock, TakesBarrier
  <2>9. CASE class_wakeup(t)
    BY <1>1, <2>1, <2>9, EffectWakeup DEF KeepsLock, TakesBarrier
  <2>10. CASE transfer(t)
    <3>1. pc[t] = "transfer" /\ HasLock(t)
      BY <2>10 DEF transfer, HasLock, Handing
    <3>2. batch[t][1].by \in Threads
      BY <2>10, TransferFacts DEF Threads
    <3>3. dq'.pb = dq.pb - owned[t].pb
      BY <1>1, <2>1, <2>10, <3>2, EffectTransfer
    <3> QED BY <1>1, <2>2, <3>1, <3>3 DEF DrainLock
  <2>11. CASE unlock_wakeup(t) \/ reenqueue(t)
    BY <2>11 DEF unlock_wakeup, reenqueue
  <2>12. CASE drain_try_lock(t)
    BY <1>1, <2>12, EffectLock DEF KeepsLock
  <2>13. CASE drain_width(t)
    BY <1>1, <2>13, EffectWidth
  <2>14. ASSUME NEW from, NEW clear, from \in {"unlock", "release"}, try_unlock(t, from, clear)
         PROVE  dq'.pb = dq.pb \/ dq'.pb = 0
    <3>1. pc[t] \in {"unlock", "release"}
      BY <2>14 DEF try_unlock
    <3>2. HasLock(t)
      BY <3>1 DEF HasLock, Leaving, Handing
    <3>3. KeepsLock \/ Unlocks(owned[t])
      BY <1>1, <2>1, <2>14, EffectTryUnlock
    <3> QED BY <1>1, <2>2, <3>1, <3>2, <3>3 DEF KeepsLock, Unlocks, DrainLock
  <2>15. ASSUME NEW from, NEW retry, clear_dirty(t, from, retry) PROVE dq'.pb = dq.pb
    BY <1>1, <2>15, EffectClearDirty DEF KeepsLock
  <2>16. CASE dq' = dq
    BY <2>16
  <2> QED BY SMTT(60), WordMoves, <2>3, <2>4, <2>5, <2>6, <2>7, <2>8, <2>9, <2>10, <2>11, <2>12, <2>13, <2>14,
             <2>15, <2>16 DEF WordMove
<1>6. ASSUME dq'.pb = 1 PROVE items' # <<>>
  <2>1. items # <<>>
    BY <1>5, <1>6 DEF Claimed
  <2>2. pc[t] \in {"pop", "handoff_pop"} => dq.pb = 0 /\ HasLock(t)
    BY <1>1 DEF HasLock, Draining, Handing, DrainLock
  <2> QED BY <1>3, <1>5, <1>6, <2>1, <2>2
<1> QED BY <1>4, <1>6 DEF Claimed

(* What leaves the list goes into a batch, and what leaves a batch is signaled. *)
LEMMA KeptStays ==
  ASSUME QueueInv, NEW t \in Threads, Moves(t), NEW i \in Items, i.sync, Kept(i), i.by \notin signaled'
  PROVE  Kept(i)'
<1>1. /\ Word /\ ThreadsAt /\ Lists /\ Batches /\ SeesHead(t) /\ AloneMoves(t) /\ ListMove(t)
      /\ items \in Seq(Items)
  BY OneThread, ListMoves DEF QueueInv, At, Owns, Lists
<1> DEFINE InItems == \E j \in 1..Len(items) : items[j] = i
           InBatch(u) == \E j \in 1..Len(batch[u]) : batch[u][j] = i
<1>2. InItems \/ \E u \in Threads : InBatch(u)
  BY DEF Kept
<1>3. ASSUME NEW u \in Threads, InBatch(u), u # t PROVE Kept(i)'
  BY <1>1, <1>3 DEF AloneMoves, Kept
<1>4. InBatch(t) => pc[t] = "transfer"
  <2>1. batch[t] = <<>> => Len(batch[t]) = 0
    OBVIOUS
  <2> QED BY <1>1, <2>1 DEF Batches
<1>5. CASE items' = items /\ batch' = batch
  BY <1>5 DEF Kept
<1>6. CASE queue_push(t)
  <2>1. items' = Append(items, cur[t]) /\ pc[t] = "push"
    BY <1>6 DEF queue_push
  <2>2. InItems => \E j \in 1..Len(items') : items'[j] = i
    BY <1>1, <2>1, Ends
  <2> QED BY <1>2, <1>3, <1>4, <2>1, <2>2 DEF Kept
<1>7. CASE drain_pop(t)
  <2>1. pc[t] = "pop" /\ items # <<>> /\ items' = Tail(items)
    BY <1>1, <1>7 DEF drain_pop, SeesHead
  <2>2. /\ Head(items) = items[1] /\ Len(items') = Len(items) - 1 /\ Len(items) \in Nat
        /\ \A j \in 1..Len(items') : items'[j] = items[j + 1]
    BY <1>1, <2>1, Ends
  <2>3. ASSUME i = Head(items) PROVE Kept(i)'
    <3>1. batch'[t] = <<i>>
      BY <1>1, <1>7, <2>3 DEF drain_pop, Word
    <3>2. Len(batch'[t]) = 1 /\ batch'[t][1] = i
      BY <3>1
    <3> QED BY <3>2 DEF Kept
  <2>4. ASSUME InItems, i # Head(items) PROVE Kept(i)'
    <3>1. PICK j \in 1..Len(items) : items[j] = i
      BY <2>4
    <3>2. j - 1 \in 1..Len(items') /\ items'[j - 1] = items[j]
      BY <2>2, <2>4, <3>1
    <3> QED BY <3>1, <3>2 DEF Kept
  <2> QED BY SMTT(60), <1>2, <1>3, <1>4, <2>1, <2>3, <2>4
<1>8. CASE handoff_pop(t)
  <2>1. PICK n \in 1..Len(items) :
           /\ Len(batch'[t]) = n /\ \A j \in 1..n : batch'[t][j] = items[j]
           /\ Len(items') = Len(items) - n /\ \A j \in 1..Len(items') : items'[j] = items[j + n]
    BY SMTT(60), <1>8, HandoffPopIs
  <2>2. pc[t] = "handoff_pop" /\ Len(items) \in Nat
    BY <1>1, <1>8, Ends DEF handoff_pop
  <2>3. ASSUME NEW j \in 1..Len(items), items[j] = i PROVE Kept(i)'
    <3>1. CASE j =< n
      <4>1. j \in 1..Len(batch'[t]) /\ batch'[t][j] = i
        BY <2>1, <2>3, <3>1
      <4> QED BY <4>1 DEF Kept
    <3>2. CASE j > n
      <4>1. j - n \in 1..Len(items') /\ items'[j - n] = i
        BY <2>1, <2>2, <2>3, <3>2
      <4> QED BY <4>1 DEF Kept
    <3> QED BY <2>1, <2>2, <3>1, <3>2
  <2> QED BY <1>2, <1>3, <1>4, <2>2, <2>3
<1>9. CASE transfer(t)
  <2>1. \A j \in 1..Len(batch[t]) : batch[t][j].by \in signaled'
    BY <1>9, TransferFacts
  <2>2. items' = items /\ ~InBatch(t)
    BY <1>9, <2>1 DEF transfer
  <2> QED BY <1>2, <1>3, <2>2 DEF Kept
<1> HIDE DEF InItems, InBatch
<1> QED BY <1>1, <1>5, <1>6, <1>7, <1>8, <1>9 DEF ListMove

(* How a client comes to wait, or to help.                                   *)
Entering(t) ==
  \/ queue_push(t) \/ finish(t) \/ non_barrier_complete(t) \/ queue_resume(t)
  \/ pc[t] \in Waiting \union Handing /\ pc[t] # "wait" /\ cur' = cur /\ outstanding' = outstanding

(* The steps that end at a label of a client that waits or helps.            *)
LEMMA EnteringMoves ==
  ASSUME NEW t \in Clients, Word, Moves(t), pc'[t] \in Waiting \union Handing
  PROVE  Entering(t)
<1>1. t \in Threads /\ t \notin Workers
  BY NamesAssumption DEF Threads
<1> USE <1>1 DEF Entering, Waiting, Handing, Goto, Word, local, history
<1>2. CASE Call(t)
  BY <1>2 DEF Call, dispatch_call, queue_suspend, FirstStep
<1>3. CASE ClientStep(t)
  BY <1>3 DEF ClientStep, async_f2, acquire_async, sync_f2, reserve_sync, barrier_sync,
     sync_wait, apply_reserve, apply_relinquish, RunLabel
<1>4. CASE SharedStep(t)
  BY <1>4 DEF SharedStep, redirect, wakeup_probe, class_wakeup,
     wakeup_enqueue, handoff, handoff_pop, transfer, unlock_wakeup, try_unlock, clear_dirty
<1> QED BY <1>2, <1>3, <1>4 DEF Moves

(* What is new among the items in flight is what its client submits.         *)
LEMMA OutstandingMove ==
  ASSUME NEW t \in Threads, Word, Moves(t), NEW i \in outstanding'
  PROVE  i \in outstanding \/ (t \in Clients /\ i.by = t /\ pc'[t] \in Asking)
<1>1. ASSUME t \in Clients, NEW k \in uses \cap Kinds, dispatch_call(t, k), i \notin outstanding
      PROVE  i.by = t /\ pc'[t] \in Asking
  BY <1>1 DEF dispatch_call, Item, Goto, FirstStep, Asking, Word
<1>2. CASE t \in Clients /\ queue_suspend(t)
  BY <1>2 DEF queue_suspend
<1>3. CASE t \in Clients /\ ClientStep(t)
  BY <1>3 DEF ClientStep, async_f2, acquire_async, sync_f2, reserve_sync, barrier_sync, queue_push,
     sync_wait, apply_reserve, apply_relinquish, queue_resume, history
<1>4. CASE SharedStep(t)
  BY <1>4 DEF SharedStep, redirect, finish, non_barrier_complete, wakeup_probe, class_wakeup,
     wakeup_enqueue, handoff, handoff_pop, transfer, unlock_wakeup, try_unlock, clear_dirty, history
<1>5. CASE WorkerStep(t)
  BY <1>5 DEF WorkerStep, root_pop, drain_try_lock, drain, drain_width, drain_pop, reenqueue,
     try_unlock, clear_dirty, history
<1> QED BY <1>1, <1>2, <1>3, <1>4, <1>5 DEF Moves, Call

(* The steps that end at the labels of a reader that ends, and of a suspension. *)
LEMMA CompletingMoves ==
  ASSUME NEW t \in Clients, Word, Moves(t)
  PROVE  /\ pc'[t] = "complete" => finish(t)
         /\ pc'[t] = "suspended" => queue_suspend(t)
<1>1. t \in Threads /\ t \notin Workers
  BY NamesAssumption DEF Threads
<1> USE <1>1 DEF Goto, Word
<1>2. Return(t) \in {"wait", "idle"}
  BY DEF Return
<1>3. CASE Call(t)
  <2>1. queue_suspend(t) => pc'[t] = "suspended"
    BY DEF queue_suspend
  <2> QED BY <1>3, <2>1 DEF Call, dispatch_call, FirstStep
<1>4. CASE ClientStep(t)
  BY <1>2, <1>4 DEF ClientStep, async_f2, acquire_async, sync_f2, reserve_sync, barrier_sync,
     queue_push, sync_wait, apply_reserve, apply_relinquish, queue_resume, RunLabel
<1>5. CASE SharedStep(t)
  <2>1. finish(t) => pc'[t] # "suspended"
    BY DEF finish
  <2> QED
    BY <1>2, <1>5, <2>1 DEF SharedStep, redirect, non_barrier_complete, wakeup_probe, class_wakeup,
       wakeup_enqueue, handoff, handoff_pop, transfer, unlock_wakeup, try_unlock, clear_dirty
<1> QED BY <1>3, <1>4, <1>5 DEF Moves

(* The item of a thread that waits is where somebody will find it.           *)
LEMMA QueuedStep ==
  ASSUME QueueInv, Queued, NEW t \in Threads, Moves(t)
  PROVE  Queued'
<1>1. /\ Word /\ ThreadsAt /\ Events /\ AloneMoves(t) /\ SignalMove(t)
      /\ Word'
  BY OneThread, SignalStep, WordStep DEF QueueInv, At
<1>2. \A c \in Clients : c \in Threads /\ (c \in signaled => c = t \/ c \in signaled')
  <2>1. CASE transfer(t)
    BY <2>1, TransferFacts DEF Threads
  <2> QED BY <1>1, <2>1 DEF SignalMove, Threads
<1>3. ASSUME NEW c \in Clients, Awaits(c), cur'[c] = cur[c], c \notin signaled' PROVE Kept(cur[c])'
  <2>1. cur[c] \in Items /\ cur[c].sync /\ cur[c].by = c /\ Kept(cur[c])
    BY <1>1, <1>3 DEF Awaits, Queued, ThreadsAt, ClientAt, ItemOK
  <2>2. PICK i : i = cur[c]
    OBVIOUS
  <2>3. i \in Items /\ i.sync /\ Kept(i) /\ i.by \notin signaled'
    BY <1>3, <2>1, <2>2
  <2>4. Kept(i)'
    BY <2>3, KeptStays
  <2>5. i = cur'[c]
    BY <1>3, <2>2
  <2> QED BY <2>4, <2>5 DEF Kept
<1> DEFINE OK(c) == /\ Awaits(c)' => Kept(cur[c])'
                    /\ pc'[c] = "complete" => cur'[c] \notin outstanding'
                    /\ pc'[c] = "suspended" => cur'[c] = None
<1>4. ASSUME NEW c \in Clients, c # t PROVE OK(c)
  <2>1. cur'[c] = cur[c] /\ pc'[c] = pc[c]
    BY <1>1, <1>2, <1>4 DEF AloneMoves
  <2>2. pc[c] \in Waiting \union Handing \union {"complete"} /\ cur[c] # None /\ cur[c] \in outstanding'
        => cur[c] \in outstanding
    BY <1>1, <1>4, OutstandingMove DEF ThreadsAt, ClientAt
  <2>3. Awaits(c)' => Awaits(c) /\ c \notin signaled'
    BY <1>2, <1>4, <2>1, <2>2 DEF Awaits
  <2>4. pc[c] = "complete" => cur[c] # None
    BY <1>1 DEF ThreadsAt, ClientAt
  <2> QED BY <1>3, <2>1, <2>2, <2>3, <2>4 DEF Queued
<1>5. ASSUME t \in Clients PROVE OK(t)
  <2>1. CASE finish(t)
    <3>1. cur'[t] = cur[t] /\ outstanding' = outstanding \ {cur[t]} /\ pc'[t] # "suspended"
      BY <1>1, <2>1 DEF finish, Goto, Word
    <3> QED BY <3>1 DEF Awaits
  <2>2. ASSUME ~finish(t), pc'[t] = "suspended" PROVE cur'[t] = None
    BY <1>1, <1>5, <2>2, CompletingMoves DEF queue_suspend, SetItem, Word
  <2>3. ASSUME ~finish(t), Awaits(t)' PROVE Kept(cur[t])'
    <3>1. /\ pc'[t] \in Waiting \union Handing /\ t \notin signaled' /\ cur'[t] # None /\ cur'[t].sync
          /\ cur'[t] \in outstanding'
      BY <2>3 DEF Awaits
    <3>2. Entering(t)
      BY <1>1, <1>5, <3>1, EnteringMoves
    <3>3. CASE queue_push(t)
      <4>1. /\ items' = Append(items, cur[t]) /\ cur' = cur /\ Len(items) \in Nat
            /\ items \in Seq(Items) /\ pc[t] = "push"
        BY <3>3 DEF queue_push, QueueInv, Lists
      <4>2. Len(items') = Len(items) + 1 /\ items'[Len(items) + 1] = cur[t]
        BY <4>1
      <4>3. Len(items) + 1 \in 1..Len(items')
        BY <4>1, <4>2
      <4> QED BY <4>1, <4>2, <4>3 DEF Kept
    <3>4. CASE non_barrier_complete(t)
      <4>1. pc[t] = "complete" /\ cur' = cur /\ outstanding' = outstanding
        BY <3>4 DEF non_barrier_complete, history
      <4> QED BY <1>5, <3>1, <4>1 DEF Queued
    <3>5. CASE queue_resume(t)
      <4>1. pc[t] = "suspended" /\ cur' = cur
        BY <3>5 DEF queue_resume
      <4> QED BY <1>5, <3>1, <4>1 DEF Queued
    <3>6. CASE pc[t] \in Waiting \union Handing /\ pc[t] # "wait" /\ cur' = cur /\ outstanding' = outstanding
      <4>1. t \notin signaled
        <5>1. CASE transfer(t)
          BY <5>1, TransferFacts
        <5> QED BY <1>1, <3>1, <3>6, <5>1 DEF SignalMove
      <4> QED BY <1>3, <1>5, <3>1, <3>6, <4>1 DEF Awaits
    <3> QED BY <2>3, <3>2, <3>3, <3>4, <3>5, <3>6 DEF Entering
  <2>4. pc'[t] = "complete" => finish(t)
    BY <1>1, <1>5, CompletingMoves
  <2> QED BY <2>1, <2>2, <2>3, <2>4
<1> HIDE DEF OK
<1>6. \A c \in Clients : OK(c)
  BY <1>4, <1>5
<1> QED BY <1>6 DEF Queued, OK

-----------------------------------------------------------------------------
\* What a step leaves of a locked word: the owner, DIRTY, and a full width unless
\* DIRTY says that it is not full any more.
LeavesDirty == /\ dq'.owner = dq.owner /\ (dq.dirty => dq'.dirty)
               /\ dq.ib = 0 /\ dq.w >= Width => dq'.dirty \/ dq'.w >= Width

(* The width that a reservation leaves is below the full width.              *)
LEMMA ReservedBound ==
  ASSUME Word
  PROVE  Reserved \in Nat /\ Reserved < Width /\ dq.w \in Int /\ Width \in Nat
BY WidthAssumption, StateFields DEF Word, Reserved

(* Width that is out, an owner or ENQUEUED put somebody in charge.           *)
LEMMA Charged ==
  ASSUME Word', dq'.owner # None \/ dq'.enq \/ dq'.w >= Width \/ dq'.w > Reserved'
  PROVE  InCharge'
<1>1. Reserved' < Width /\ Reserved' \in Nat /\ dq'.w \in Int /\ Width \in Nat
  BY WidthAssumption DEF Word, Reserved, States
<1> QED BY <1>1 DEF InCharge

(* A wakeup finds somebody in charge, or puts somebody in charge.            *)
LEMMA WakeupCares ==
  ASSUME QueueInv, Word', dq.sc = 0, NEW t \in Threads, class_wakeup(t)
  PROVE  /\ InCharge'
         /\ dq.owner # None => LeavesDirty /\ (flags[t] \in {"flush", "slow"} => dq'.dirty)
<1>1. /\ Word /\ dq \in States /\ dq.w >= Reserved /\ dq.w \in Nat
      /\ dq.owner = None => dq.ib = 0
  BY ReadyIs DEF QueueInv, DrainLock, Word
<1>2. PICK n : n = [dq EXCEPT !.dirty = TRUE]
  OBVIOUS
<1>3. n \in States /\ SameWidth(n, dq) /\ n.enq = dq.enq /\ n.owner = dq.owner /\ n.sc = dq.sc /\ n.dirty
  BY <1>1, <1>2 DEF States, SameWidth
<1>4. Runnable(n) <=> Runnable(dq)
  BY <1>3 DEF Runnable, Suspended, SameWidth
<1>5. dq.owner = None /\ ~Runnable(dq) => dq.w >= Width
  BY <1>1, WidthAssumption DEF Runnable, Suspended
<1>6. CASE flags[t] = "slow"
  <2>1. dq' = IF Locked(n) \/ ~Runnable(n) THEN n
              ELSE IF BarrierFree(n) THEN LockedFor(n, t) ELSE [n EXCEPT !.enq = TRUE]
    BY <1>2, <1>6 DEF class_wakeup, WakeupSlow
  <2>2. CASE dq' = n /\ (Locked(n) \/ ~Runnable(n))
    BY <1>3, <1>4, <1>5, <2>2, Charged DEF Locked, LeavesDirty, SameWidth
  <2>3. CASE dq' = LockedFor(n, t) /\ ~Locked(n)
    <3>1. dq'.owner = t /\ t # None
      BY <1>3, <2>3, LockedForIs, NamesAssumption
    <3> QED BY <1>3, <2>3, <3>1, Charged DEF Locked
  <2>4. CASE dq' = [n EXCEPT !.enq = TRUE] /\ ~Locked(n)
    <3>1. dq'.enq
      BY <1>3, <2>4 DEF States
    <3> QED BY <1>3, <2>4, <3>1, Charged DEF Locked
  <2> QED BY <2>1, <2>2, <2>3, <2>4
<1>7. CASE flags[t] # "slow"
  <2>1. PICK d \in BOOLEAN, e \in BOOLEAN :
          d = (dq.dirty \/ flags[t] = "flush") /\ e = (dq.enq \/ ShouldWakeup(dq))
    BY <1>1, StateFields
  <2>2. dq' = [dq EXCEPT !.dirty = d, !.enq = e]
    BY <1>7, <2>1 DEF class_wakeup, WakeupPlain
  <2>3. SameWidth(dq', dq) /\ dq'.owner = dq.owner /\ dq'.enq = e /\ dq'.dirty = d
    BY <1>1, <2>1, <2>2 DEF States, SameWidth
  <2>4. dq.owner # None \/ e \/ dq.w >= Width
    BY <1>5, <2>1 DEF ShouldWakeup, Locked
  <2>5. InCharge'
    BY <2>3, <2>4, Charged DEF SameWidth
  <2> QED BY <1>7, <2>1, <2>3, <2>5 DEF LeavesDirty, SameWidth
<1> QED BY <1>6, <1>7

(* The last reader of a queue without an owner becomes its owner; a reader that *)
(* makes a full queue runnable again sets DIRTY.                             *)
LEMMA CompleteCares ==
  ASSUME QueueInv, Word', dq'.w >= Reserved', dq.sc = 0, NEW t \in Threads, non_barrier_complete(t)
  PROVE  InCharge' /\ (dq.owner # None => LeavesDirty)
<1>1. Word /\ dq \in States /\ dq.ib = 0 /\ dq.w \in Nat /\ pc[t] = "complete" /\ dq.pb \in 0..1
  BY ReadyIs DEF non_barrier_complete, QueueInv, Word
<1>2. PICK n : n = [dq EXCEPT !.w = @ - 1]
  OBVIOUS
<1>3. /\ n \in States /\ SetWidth(n, dq.ib, dq.w - 1, dq.pb) /\ SameFlags(n, dq)
      /\ n.owner = dq.owner /\ n.sc = dq.sc
  BY <1>1, <1>2 DEF States, SetWidth, SameFlags
<1>4. PICK d : d = (n.dirty \/ (Runnable(n) /\ ~Runnable(dq))) /\ d \in BOOLEAN
  BY <1>3, StateFields
<1>5. NonBarrierDone(dq, t) = IF CanUpgrade(n) THEN Upgrade(n, t) ELSE [n EXCEPT !.dirty = d]
  BY <1>2, <1>4 DEF NonBarrierDone
<1>6. CASE CanUpgrade(n)
  <2>1. dq' = Upgrade(n, t) /\ n.pb \in 0..1
    BY <1>1, <1>3, <1>5, <1>6 DEF non_barrier_complete, SetWidth
  <2>2. n.owner = None /\ dq'.owner = t
    BY <1>3, <1>6, <2>1, UpgradeTakes
  <2> QED BY <1>3, <2>2, Charged, NamesAssumption
<1>7. CASE ~CanUpgrade(n)
  <2>1. dq' = [n EXCEPT !.dirty = d]
    BY <1>5, <1>7 DEF non_barrier_complete
  <2>2. /\ SameWidth(dq', n) /\ dq'.enq = n.enq /\ dq'.owner = n.owner /\ dq'.sc = n.sc /\ dq'.dirty = d
    BY <1>3, <1>4, <2>1 DEF States, SameWidth
  <2>3. dq'.w = dq.w - 1 /\ dq'.pb = dq.pb /\ Reserved' = Reserved
    BY <1>3, <2>2 DEF SameWidth, SetWidth, Reserved
  <2>4. ASSUME dq.owner = None PROVE dq'.w >= Width \/ dq'.w > Reserved'
    <3>1. SUFFICES ASSUME dq.w - 1 < Width, dq.w - 1 = Reserved PROVE FALSE
      BY <1>1, <2>3, ReservedBound
    <3>2. Runnable(n) /\ ~Locked(n)
      BY <1>1, <1>3, <2>4, <3>1 DEF Runnable, Suspended, Locked, SetWidth
    <3>3. FullWidth(n).w = Width
      <4>1. CASE n.pb = 1
        <5>1. FullWidth(n).w = n.w + 1 /\ n.w = Width - 1
          BY <1>3, <3>1, <4>1 DEF FullWidth, States, SetWidth, Reserved
        <5> QED BY <5>1, WidthAssumption
      <4>2. CASE n.pb = 0
        <5>1. FullWidth(n).w = n.w + Width /\ n.w = 0
          BY <1>3, <3>1, <4>2 DEF FullWidth, States, SetWidth, Reserved
        <5> QED BY <5>1, WidthAssumption
      <4> QED BY <1>1, <1>3, <4>1, <4>2 DEF SetWidth
    <3> QED BY <1>7, <3>2, <3>3 DEF CanUpgrade
  <2>5. InCharge'
    BY <1>3, <2>2, <2>4, Charged
  <2>6. dq.w >= Width => dq'.dirty \/ dq'.w >= Width
    <3>1. dq.w >= Width => ~Runnable(dq)
      BY <1>1, WidthAssumption DEF Runnable
    <3>2. dq.w - 1 < Width => Runnable(n)
      BY <1>1, <1>3 DEF Runnable, Suspended, SetWidth
    <3>3. dq'.w >= Width \/ dq.w - 1 < Width
      BY <1>1, <2>3, WidthAssumption
    <3>4. Runnable(n) /\ ~Runnable(dq) => dq'.dirty
      BY <1>4, <2>2
    <3> QED BY <3>1, <3>2, <3>3, <3>4
  <2> QED BY <1>3, <1>4, <2>2, <2>5, <2>6 DEF LeavesDirty, SameFlags
<1> QED BY <1>6, <1>7

(* Who hands the lock back without a wakeup has left it enqueued, or full.   *)
LEMMA UnlockCares ==
  ASSUME QueueInv, Word', dq.sc = 0, NEW t \in Threads, unlock_wakeup(t)
  PROVE  ~dq'.dirty /\ (InCharge' \/ pc'[t] = "probe")
<1>1. /\ Word /\ dq \in States /\ owned[t] \in Parts /\ owned[t].ib = 1 /\ dq.ib = 1
  <2>1. HasLock(t) /\ Whole(t) /\ pc[t] = "unlock_wakeup"
    BY DEF unlock_wakeup, HasLock, Handing, Draining, Leaving, Whole
  <2> QED BY <2>1, ReadyIs DEF QueueInv, Owns, OwnsWidth, DrainLock, Word
<1>2. PICK n : n = Unlock(Minus(dq, owned[t]))
  OBVIOUS
<1>3. n \in States /\ n.ib = 0 /\ n.sc = 0
  BY <1>1, <1>2, ReleaseIs
<1>4. dq' = [n EXCEPT !.dirty = FALSE]
  BY <1>2 DEF unlock_wakeup
<1>5. dq' \in States /\ SameWidth(dq', n) /\ dq'.sc = n.sc /\ dq'.enq = n.enq
  BY <1>3, <1>4, ClearDirty
<1>6. ~dq'.dirty
  BY <1>3, <1>4 DEF States
<1>7. CASE ShouldWakeup(dq')
  BY <1>1, <1>6, <1>7 DEF unlock_wakeup, Goto, Word
<1>8. CASE ~ShouldWakeup(dq')
  <2>1. dq'.enq \/ dq'.owner # None \/ dq'.w >= Width
    BY <1>3, <1>5, <1>8, WidthAssumption DEF ShouldWakeup, Runnable, Suspended, Locked, SameWidth, States
  <2> QED BY <1>6, <2>1, Charged
<1> QED BY <1>7, <1>8

(* An unlock succeeds when nobody has set DIRTY.                             *)
LEMMA TryUnlockCares ==
  ASSUME QueueInv, dq.sc = 0, NEW t \in Threads, NEW from, NEW clear, try_unlock(t, from, clear)
  PROVE  dq' = dq \/ (~dq.dirty /\ ~dq'.dirty /\ Unlocks(owned[t]))
<1>1. Word /\ dq \in States /\ owned[t] \in Parts
  BY ReadyIs DEF Word
<1>2. CASE ~MustRetry(dq)
  <2>1. ~dq.dirty
    BY <1>2 DEF MustRetry, Suspended
  <2>2. PICK n : n = Unlock(Minus(dq, owned[t]))
    OBVIOUS
  <2>3. /\ n \in States /\ n.ib = dq.ib - owned[t].ib /\ n.w = dq.w - owned[t].w
        /\ n.pb = dq.pb - owned[t].pb /\ SameFlags(n, dq) /\ n.owner = None
    BY <1>1, <2>2, ReleaseIs
  <2>4. dq' = n \/ dq' = [n EXCEPT !.dirty = FALSE]
    BY <1>2, <2>2 DEF try_unlock, TryUnlock
  <2>5. SameWidth(dq', n) /\ dq'.owner = n.owner
    BY <2>3, <2>4, ClearDirty DEF SameWidth
  <2>6. ~dq'.dirty
    BY <2>1, <2>3, <2>4 DEF States, SameFlags
  <2> QED BY <2>1, <2>3, <2>5, <2>6 DEF Unlocks, SameWidth
<1>3. CASE MustRetry(dq)
  BY <1>3 DEF try_unlock
<1> QED BY <1>2, <1>3

(* A drainer that leaves keeps the lock, enqueues the queue, or leaves it full. *)
LEMMA ReenqueueCares ==
  ASSUME QueueInv, Word', dq.sc = 0, NEW t \in Threads, reenqueue(t)
  PROVE  InCharge'
<1>1. /\ Word /\ dq \in States /\ owned[t] \in Parts /\ dq.ib = owned[t].ib /\ pc[t] = "reenqueue"
      /\ HasLock(t)
  BY ReadyIs DEF reenqueue, HasLock, Leaving, Word
<1>2. dq.owner = t /\ t # None
  BY <1>1, NamesAssumption DEF QueueInv, DrainLock
<1>3. PICK n : n = Minus(dq, owned[t])
  OBVIOUS
<1>4. /\ n \in States /\ n.ib = 0 /\ n.sc = 0 /\ n.owner = dq.owner
  <2>1. dq.ib - owned[t].ib = 0
    BY <1>1, StateFields
  <2> QED BY <1>1, <1>3, <2>1, MinusIs
<1>5. CASE UpgradesToBarrier(n)
  <2>1. dq' = [n EXCEPT !.ib = @ + 1, !.w = @ + 1, !.pb = @ - 1]
    BY <1>3, <1>5 DEF reenqueue, Interrupted
  <2>2. dq'.owner = t
    BY <1>2, <1>4, <2>1 DEF States
  <2> QED BY <1>2, <2>2, Charged
<1>6. CASE ~UpgradesToBarrier(n)
  <2>1. PICK u : u = Unlock(n)
    OBVIOUS
  <2>2. u \in States /\ SameWidth(u, n) /\ u.sc = n.sc /\ u.owner = None
    BY <1>4, <2>1, UnlockIs
  <2>3. dq' = IF ShouldWakeup(u) THEN [u EXCEPT !.enq = TRUE, !.dirty = TRUE] ELSE u
    BY <1>3, <1>6, <2>1 DEF reenqueue, Interrupted
  <2>4. CASE ShouldWakeup(u)
    <3>1. dq'.enq
      BY <2>2, <2>3, <2>4 DEF States
    <3> QED BY <3>1, Charged
  <2>5. CASE ~ShouldWakeup(u)
    <3>1. u.enq \/ u.w >= Width
      BY <1>4, <2>2, <2>5, WidthAssumption DEF ShouldWakeup, Runnable, Suspended, Locked, SameWidth, States
    <3> QED BY <2>3, <2>5, <3>1, Charged
  <2> QED BY <2>4, <2>5
<1> QED BY <1>5, <1>6

(* A drainer that cannot lock the queue leaves it to its owner or its readers. *)
LEMMA LockCares ==
  ASSUME QueueInv, Word', dq.sc = 0, NEW t \in Threads, drain_try_lock(t)
  PROVE  InCharge' /\ (dq.owner # None => LeavesDirty)
<1>1. Word /\ dq \in States /\ (dq.owner = None => dq.ib = 0)
  BY DEF QueueInv, DrainLock, Word
<1>2. PICK e \in BOOLEAN : e = ~dq.enq
  BY <1>1, StateFields
<1>3. PICK n : n = [dq EXCEPT !.enq = e]
  OBVIOUS
<1>4. n \in States /\ SameWidth(n, dq) /\ n.owner = dq.owner /\ n.dirty = dq.dirty
  BY <1>1, <1>2, <1>3 DEF States, SameWidth
<1>5. n = [dq EXCEPT !.enq = ~@]
  BY <1>2, <1>3
<1>6. CASE Runnable(dq) /\ ~Locked(dq)
  <2>1. dq' = LockedFor(n, t)
    BY <1>5, <1>6 DEF drain_try_lock
  <2>2. dq'.owner = t /\ t # None
    BY <1>4, <2>1, LockedForIs, NamesAssumption
  <2> QED BY <1>6, <2>2, Charged DEF Locked
<1>7. CASE ~(Runnable(dq) /\ ~Locked(dq))
  <2>1. dq' = n
    BY <1>5, <1>7 DEF drain_try_lock
  <2>2. dq.owner # None \/ dq.w >= Width
    BY <1>1, <1>7, StateFields, WidthAssumption DEF Runnable, Suspended, Locked
  <2>3. InCharge'
    BY <1>4, <2>1, <2>2, Charged DEF SameWidth
  <2> QED BY <1>4, <2>1, <2>3 DEF LeavesDirty, SameWidth
<1> QED BY <1>6, <1>7

(* A transfer leaves the lock to a writer, or the width to readers.          *)
LEMMA TransferCares ==
  ASSUME QueueInv, Word', NEW t \in Threads, transfer(t)
  PROVE  InCharge'
<1>1. /\ Word /\ OwnsWidth(t) /\ owned[t] \in Parts /\ pc[t] = "transfer" /\ dq.pb = 0 /\ dq.w = Width
      /\ batch[t] \in Seq(Items) /\ 1 \in 1..Len(batch[t]) /\ Len(batch[t]) \in Nat
      /\ batch[t][1].by \in Clients /\ batch[t][1].sync
  BY TransferFacts, ReadyIs DEF QueueInv, Owns, transfer, Batches
<1>2. /\ dq'.w = dq.w - owned[t].w /\ dq'.pb = dq.pb - owned[t].pb
      /\ dq'.owner = IF batch[t][1].barrier THEN batch[t][1].by ELSE None
  <2>1. batch[t][1].by \in Threads
    BY <1>1 DEF Threads
  <2> QED BY <1>1, <2>1, EffectTransfer
<1>3. ItemOK(batch[t][1])
  BY <1>1, ItemFacts
<1>4. CASE Exclusive(batch[t][1])
  <2>1. dq'.owner = batch[t][1].by /\ batch[t][1].by # None
    BY <1>1, <1>2, <1>3, <1>4, NamesAssumption DEF ItemOK, Threads
  <2> QED BY <2>1, Charged
<1>5. CASE ~Exclusive(batch[t][1])
  <2>1. owned[t] = [BarrierWidth EXCEPT !.w = @ - Len(batch[t])]
    BY <1>1, <1>5 DEF OwnsWidth
  <2>2. owned[t].w = Width - Len(batch[t]) /\ owned[t].pb = 0
    BY <2>1 DEF BarrierWidth
  <2>3. dq'.w = Len(batch[t]) /\ dq'.pb = 0
    BY <1>1, <1>2, <2>2, WidthAssumption
  <2>4. dq'.w > Reserved'
    BY <1>1, <2>3 DEF Reserved
  <2> QED BY <2>4, Charged
<1> QED BY SMTT(60), <1>4, <1>5

\* What a step leaves of a queue with items in it: the state word as it was,
\* somebody in charge, a wakeup, or a queue unlocked by who was told.
WatchMove(t) ==
  \/ dq' = dq /\ pc[t] # "wakeup"
  \/ InCharge'
  \/ unlock_wakeup(t) /\ pc'[t] = "probe" /\ ~dq'.dirty
  \/ pc[t] \in {"unlock", "release"} /\ ~dq.dirty /\ ~dq'.dirty /\ Unlocks(owned[t])

(* The simple calls.                                                         *)
LEMMA SimpleMoves ==
  ASSUME Plain, Simple, NEW t \in Clients
  PROVE  ~apply_reserve(t) /\ ~apply_relinquish(t) /\ ~queue_suspend(t) /\ ~queue_resume(t)
BY DEF Simple, Plain, apply_reserve, apply_relinquish, queue_suspend, queue_resume

(* Every step leaves the queue to somebody.                                  *)
LEMMA WatchMoves ==
  ASSUME QueueInv, Word', dq'.w >= Reserved', Plain, Simple, NEW t \in Threads, Moves(t)
  PROVE  WatchMove(t)
<1>1. /\ Word /\ dq.w >= Reserved /\ dq.w \in Nat /\ dq.sc = 0 /\ DrainLock
      /\ HasLock(t) => dq.owner # None
  BY ReadyIs, NeverSuspended, NamesAssumption DEF QueueInv, DrainLock
<1>2. CASE acquire_async(t) \/ reserve_sync(t)
  <2>1. (dq' = [dq EXCEPT !.w = @ + 1] \/ dq' = dq) /\ pc[t] # "wakeup"
    BY <1>2 DEF acquire_async, reserve_sync
  <2>2. dq' = [dq EXCEPT !.w = @ + 1] => dq'.w > Reserved'
    <3>1. dq' = [dq EXCEPT !.w = @ + 1] => dq'.w = dq.w + 1 /\ dq'.pb = dq.pb
      BY <1>1 DEF Word, States
    <3>2. dq'.w = dq.w + 1 /\ dq'.pb = dq.pb => dq'.w > Reserved'
      BY <1>1, ReservedBound DEF Reserved
    <3> QED BY <3>1, <3>2
  <2> QED BY <2>1, <2>2, Charged DEF WatchMove
<1>3. CASE barrier_sync(t)
  <2>1. CASE BarrierIdle(dq)
    <3>1. dq' = [dq EXCEPT !.ib = 1, !.w = Width, !.owner = t]
      BY <1>3, <2>1 DEF barrier_sync
    <3>2. dq'.owner = t /\ t # None
      BY <1>1, <3>1, NamesAssumption DEF Word, States
    <3> QED BY <3>2, Charged DEF WatchMove
  <2>2. CASE ~BarrierIdle(dq)
    BY <1>3, <2>2 DEF barrier_sync, WatchMove
  <2> QED BY <2>1, <2>2
<1>4. CASE non_barrier_complete(t)
  BY <1>1, <1>4, CompleteCares DEF WatchMove
<1>5. CASE class_wakeup(t)
  BY <1>1, <1>5, WakeupCares DEF WatchMove
<1>6. CASE transfer(t)
  BY <1>6, TransferCares DEF WatchMove
<1>7. CASE unlock_wakeup(t)
  BY <1>1, <1>7, UnlockCares DEF WatchMove
<1>8. CASE drain_try_lock(t)
  BY <1>1, <1>8, LockCares DEF WatchMove
<1>9. CASE drain_width(t)
  <2>1. dq'.owner = dq.owner /\ pc[t] = "width"
    BY <1>1, <1>9, EffectWidth DEF drain_width
  <2> QED BY <1>1, <2>1, Charged DEF WatchMove, HasLock, Draining
<1>10. CASE reenqueue(t)
  BY <1>1, <1>10, ReenqueueCares DEF WatchMove
<1>11. ASSUME NEW from \in {"unlock", "release"}, NEW clear, try_unlock(t, from, clear)
       PROVE  WatchMove(t)
  <2>1. pc[t] = from
    BY <1>11 DEF try_unlock
  <2> QED BY <1>1, <1>11, <2>1, TryUnlockCares DEF WatchMove
<1>12. ASSUME NEW from \in {"unlock_dirty", "release_dirty"}, NEW retry, clear_dirty(t, from, retry)
       PROVE  WatchMove(t)
  <2>1. pc[t] = from /\ dq'.owner = dq.owner
    BY <1>1, <1>12, EffectClearDirty DEF clear_dirty, KeepsLock
  <2> QED BY <1>1, <2>1, Charged DEF WatchMove, HasLock, Leaving, Handing
<1>13. CASE dq' = dq /\ pc[t] # "wakeup"
  BY <1>13 DEF WatchMove
<1> QED
  BY SMTT(60), WordMoves, SimpleMoves, <1>2, <1>3, <1>4, <1>5, <1>6, <1>7, <1>8, <1>9, <1>10, <1>11, <1>12, <1>13
     DEF WordMove

(* A wakeup that has begun looks at the list, and at the state word next.    *)
LEMMA ProbeMoves ==
  ASSUME NEW t \in Threads, Word, Moves(t), pc[t] = "probe", items # <<>>
  PROVE  pc'[t] = "wakeup" /\ flags' = flags
<1>1. WaitingStep(t)
  BY WaitingMoves DEF Waiting
<1> QED BY <1>1 DEF WaitingStep, wakeup_probe, class_wakeup, wakeup_enqueue, sync_wait, Goto, Word, local

(* The first item of a list is announced.                                    *)
LEMMA FirstPush ==
  ASSUME QueueInv, NEW t \in Threads, Moves(t), items = <<>>, items' # <<>>
  PROVE  Announces(t)' /\ pc[t] = "push"
<1>1. Word /\ SeesHead(t)
  BY DEF QueueInv, Owns
<1>2. pc[t] \notin {"pop", "handoff_pop"}
  BY <1>1 DEF SeesHead
<1>3. queue_push(t)
  BY <1>1, <1>2, ListMoves DEF ListMove, drain_pop, handoff_pop, transfer
<1> QED BY <1>1, <1>3 DEF queue_push, SetFlags, Goto, Word, Announces, Wakes

(* Whoever drops the last claim on a queue with items in it has seen a wakeup on *)
(* its way.                                                                  *)
LEMMA WatchedStep ==
  ASSUME QueueInv, Word', dq'.w >= Reserved', Plain, Simple, Watched, NEW t \in Threads, Told(t), Moves(t)
  PROVE  Watched'
<1>1. Word /\ AloneMoves(t) /\ WatchMove(t) /\ dq.w \in Nat
  BY OneThread, WatchMoves, ReadyIs DEF QueueInv
<1>2. ASSUME NEW u \in Threads, Wakes(u), u # t PROVE Wakes(u)'
  BY <1>1, <1>2 DEF AloneMoves, Wakes
<1>3. CASE dq' = dq /\ pc[t] # "wakeup"
  <2>1. InCharge' <=> InCharge
    BY <1>3 DEF InCharge, Reserved
  <2>2. ASSUME items' # <<>> PROVE InCharge' \/ \E u \in Threads : Wakes(u)'
    <3>1. CASE items = <<>>
      BY <2>2, <3>1, FirstPush DEF Announces, Wakes
    <3>2. CASE items # <<>>
      <4>1. Wakes(t) => Wakes(t)'
        BY <1>1, <1>3, <3>2, ProbeMoves DEF Wakes
      <4> QED BY <1>2, <2>1, <3>2, <4>1 DEF Watched
    <3> QED BY <3>1, <3>2
  <2> QED BY <1>3, <2>1, <2>2 DEF Watched
<1>4. CASE InCharge'
  BY <1>4 DEF Watched
<1>5. CASE unlock_wakeup(t) /\ pc'[t] = "probe" /\ ~dq'.dirty
  BY <1>5 DEF Watched, Wakes
<1>6. CASE pc[t] \in {"unlock", "release"} /\ ~dq.dirty /\ ~dq'.dirty /\ Unlocks(owned[t])
  <2>1. items' = items
    BY <1>1, <1>6, ItemsStep
  <2>2. ASSUME items # <<>> PROVE InCharge' \/ \E u \in Threads : Wakes(u)'
    <3>1. CASE \E u \in Threads : Announces(u)
      BY <1>2, <1>6, <3>1 DEF Announces, Wakes
    <3>2. CASE owned[t] = Nothing /\ dq.w >= Width
      <4>1. dq'.w >= Width
        BY <1>1, <1>6, <3>2 DEF Unlocks, Nothing
      <4> QED BY <4>1, Charged
    <3> QED BY <1>6, <2>2, <3>1, <3>2 DEF Told
  <2> QED BY <1>6, <2>1, <2>2 DEF Watched
<1> QED BY <1>1, <1>3, <1>4, <1>5, <1>6 DEF WatchMove

(* A step moves one thread's flags.                                          *)
LEMMA FlagsMove ==
  ASSUME NEW t \in Threads, Word, Moves(t)
  PROVE  \A u \in Threads \ {t} : flags'[u] = flags[u]
<1> USE DEF Word, SetFlags, local
<1>1. CASE Call(t)
  BY <1>1 DEF Call, dispatch_call, queue_suspend
<1>2. CASE ClientStep(t)
  BY <1>2 DEF ClientStep, async_f2, acquire_async, sync_f2, reserve_sync, barrier_sync, queue_push,
     sync_wait, apply_reserve, apply_relinquish, queue_resume
<1>3. CASE SharedStep(t)
  BY <1>3 DEF SharedStep, redirect, finish, non_barrier_complete, wakeup_probe, class_wakeup,
     wakeup_enqueue, handoff, handoff_pop, transfer, unlock_wakeup, try_unlock, clear_dirty
<1>4. CASE WorkerStep(t)
  BY <1>4 DEF WorkerStep, root_pop, drain_try_lock, drain, drain_width, drain_pop, reenqueue,
     try_unlock, clear_dirty
<1> QED BY <1>1, <1>2, <1>3, <1>4 DEF Moves

(* What other threads leave of a locked word.                                *)
LEMMA LockedMoves ==
  ASSUME QueueInv, Word', dq'.w >= Reserved', Plain, Simple, NEW t \in Threads, Moves(t),
         dq.owner # None, ~HasLock(t)
  PROVE  LeavesDirty
<1>1. /\ Word /\ dq.w >= Reserved /\ dq.w \in Nat /\ dq.sc = 0 /\ Width \in Nat
  BY ReadyIs, NeverSuspended, WidthAssumption DEF QueueInv
<1>2. CASE acquire_async(t) \/ reserve_sync(t)
  <2>1. dq' = [dq EXCEPT !.w = @ + 1] \/ dq' = dq
    BY <1>2 DEF acquire_async, reserve_sync
  <2>2. dq'.owner = dq.owner /\ dq'.dirty = dq.dirty /\ (dq'.w = dq.w + 1 \/ dq'.w = dq.w)
    BY <1>1, <2>1 DEF Word, States
  <2> QED BY <1>1, <2>2 DEF LeavesDirty
<1>3. CASE barrier_sync(t)
  <2>1. ~BarrierIdle(dq)
    BY DEF BarrierIdle, Idle
  <2> QED BY <1>3, <2>1 DEF barrier_sync, LeavesDirty
<1>4. CASE non_barrier_complete(t)
  BY <1>1, <1>4, CompleteCares
<1>5. CASE class_wakeup(t)
  BY <1>1, <1>5, WakeupCares
<1>6. CASE drain_try_lock(t)
  BY <1>1, <1>6, LockCares
<1>7. ~transfer(t) /\ ~unlock_wakeup(t) /\ ~drain_width(t) /\ ~reenqueue(t)
  BY DEF HasLock, Handing, Leaving, Draining, transfer, unlock_wakeup, drain_width, reenqueue
<1>8. /\ ~try_unlock(t, "release", "release_dirty") /\ ~try_unlock(t, "unlock", "unlock_dirty")
      /\ ~clear_dirty(t, "release_dirty", "handoff") /\ ~clear_dirty(t, "unlock_dirty", "drain")
  BY DEF HasLock, Handing, Leaving, try_unlock, clear_dirty
<1>9. CASE dq' = dq
  BY <1>9 DEF LeavesDirty
<1> QED BY WordMoves, SimpleMoves, <1>2, <1>3, <1>4, <1>5, <1>6, <1>7, <1>8, <1>9 DEF WordMove

(* The steps that lead to an unlock: the list is empty, or the drainer has no width *)
(* for a reader at its head.                                                 *)
LEMMA UnlockingMoves ==
  ASSUME QueueInv, dq.sc = 0, NEW t \in Threads, Moves(t), pc'[t] \in {"unlock", "release"},
         items' # <<>>
  PROVE  /\ pc'[t] = "unlock" /\ owned'[t] = Nothing /\ dq' = dq
         /\ dq.w >= Width \/ dq.dirty
<1>1. /\ Word /\ SeesHead(t) /\ OwnsWidth(t) /\ DrainLock /\ items \in Seq(Items) /\ dq.ib \in 0..1
  BY DEF QueueInv, Owns, Lists, Word
<1>2. Return(t) \in {"wait", "idle"}
  BY DEF Return
<1>3. handoff(t) \/ drain(t) \/ drain_width(t)
  <2> USE <1>1, <1>2 DEF Goto, Word
  <2>1. CASE Call(t)
    BY <2>1 DEF Call, dispatch_call, queue_suspend, FirstStep
  <2>2. CASE ClientStep(t)
    BY <2>2 DEF ClientStep, async_f2, acquire_async, sync_f2, reserve_sync, barrier_sync,
       queue_push, sync_wait, apply_reserve, apply_relinquish, queue_resume, RunLabel
  <2>3. CASE SharedStep(t)
    BY <2>3 DEF SharedStep, redirect, finish, non_barrier_complete, wakeup_probe, class_wakeup,
       wakeup_enqueue, handoff_pop, transfer, unlock_wakeup, try_unlock, clear_dirty
  <2>4. CASE WorkerStep(t)
    BY <2>4 DEF WorkerStep, root_pop, drain_try_lock, drain_pop, reenqueue, try_unlock, clear_dirty
  <2> QED BY <2>1, <2>2, <2>3, <2>4 DEF Moves
<1>4. CASE handoff(t)
  <2>1. items' = items /\ ~Suspended(dq)
    BY <1>4 DEF handoff, Suspended
  <2> QED BY <1>1, <1>4, <2>1 DEF handoff, Goto, Word
<1>5. CASE drain(t)
  <2>1. items' = items /\ Head(items) # None
    <3>1. items' = items
      BY <1>5 DEF drain
    <3>2. Head(items) \in Items
      BY <1>1, <3>1, Ends
    <3> QED BY <3>1, <3>2, NamesAssumption
  <2>2. pc'[t] # "release"
    BY <1>1, <1>5 DEF drain, DrainOut, Goto, Word
  <2>3. pc'[t] # "unlock"
    BY <1>1, <1>5, <2>1 DEF drain, DrainOut, Goto, Word
  <2> QED BY <2>2, <2>3
<1>6. CASE drain_width(t)
  <2>1. pc[t] = "width" /\ HasLock(t)
    BY <1>6 DEF drain_width, HasLock, Draining
  <2>2. pc'[t] = "unlock" /\ owned[t] = Nothing /\ ~AcquireAsync(dq) /\ UNCHANGED <<dq, owned>>
    BY <1>1, <1>6 DEF drain_width, Goto, Word
  <2>3. dq.pb = 0 /\ dq.ib = 0
    <3>1. ~Whole(t)
      BY <2>1, <2>2 DEF Whole, Draining, Nothing
    <3> QED BY <1>1, <2>1, <3>1 DEF DrainLock
  <2>4. dq.w >= Width \/ dq.dirty
    BY <1>1, <2>2, <2>3, StateFields, WidthAssumption DEF AcquireAsync, Runnable, Suspended, Word
  <2> QED BY <2>2, <2>4
<1> QED BY <1>3, <1>4, <1>5, <1>6

(* What a thread that will unlock was told is not taken back.                *)
LEMMA ToldStep ==
  ASSUME QueueInv, Word', dq'.w >= Reserved', Plain, Simple, \A u \in Threads : Told(u),
         NEW t \in Threads, Moves(t)
  PROVE  \A u \in Threads : Told(u)'
<1>1. Word /\ AloneMoves(t) /\ dq.sc = 0 /\ DrainLock /\ dq.ib \in 0..1 /\ OwnsWidth(t)
  BY OneThread, NeverSuspended DEF QueueInv, Owns, Word
<1>2. Told(t)'
  <2>1. SUFFICES ASSUME pc'[t] \in {"unlock", "release"}, items' # <<>>
                 PROVE  dq'.dirty \/ (pc'[t] = "unlock" /\ owned'[t] = Nothing /\ dq'.w >= Width)
    BY DEF Told
  <2> QED BY <1>1, <2>1, UnlockingMoves
<1>3. ASSUME NEW u \in Threads, u # t PROVE Told(u)'
  <2>1. pc'[u] = pc[u] /\ owned'[u] = owned[u]
    BY <1>1, <1>3 DEF AloneMoves
  <2>2. SUFFICES ASSUME pc[u] \in {"unlock", "release"}, items' # <<>>
                 PROVE  \/ dq'.dirty \/ \E v \in Threads : Announces(v)'
                        \/ pc[u] = "unlock" /\ owned[u] = Nothing /\ dq'.w >= Width
    BY <2>1 DEF Told
  <2>3. HasLock(u) /\ dq.owner # None /\ ~HasLock(t)
    <3>1. HasLock(u)
      BY <2>2 DEF HasLock, Leaving, Handing
    <3>2. dq.owner = u
      BY <1>1, <3>1 DEF DrainLock
    <3> QED BY <1>3, <3>1, <3>2, QueueFacts, NamesAssumption
  <2>4. LeavesDirty
    BY <2>3, LockedMoves
  <2>5. CASE items = <<>>
    BY <2>2, <2>5, FirstPush
  <2>6. CASE items # <<>> /\ dq.dirty
    BY <2>4, <2>6 DEF LeavesDirty
  <2>7. ASSUME items # <<>>, NEW v \in Threads, Announces(v)
        PROVE  dq'.dirty \/ \E w \in Threads : Announces(w)'
    <3>1. CASE v # t
      BY <1>1, <2>7, <3>1, FlagsMove DEF AloneMoves, Announces, Wakes
    <3>2. CASE v = t /\ pc[t] = "probe"
      BY <1>1, <2>7, <3>2, ProbeMoves DEF Announces, Wakes
    <3>3. CASE v = t /\ pc[t] = "wakeup"
      <4>1. class_wakeup(t)
        BY <3>3, WaitingMoves DEF Waiting, WaitingStep, wakeup_probe, wakeup_enqueue, sync_wait
      <4> QED BY <1>1, <2>3, <2>7, <3>3, <4>1, WakeupCares DEF Announces
    <3> QED BY <2>7, <3>1, <3>2, <3>3 DEF Announces, Wakes
  <2>8. CASE items # <<>> /\ pc[u] = "unlock" /\ owned[u] = Nothing /\ dq.w >= Width
    <3>1. ~Whole(u)
      BY <2>8 DEF Whole, Leaving, Nothing
    <3>2. dq.ib = 0
      BY <1>1, <2>3, <3>1 DEF DrainLock
    <3> QED BY <2>4, <2>8, <3>2 DEF LeavesDirty
  <2> QED BY <2>2, <2>5, <2>6, <2>7, <2>8 DEF Told
<1> QED BY <1>2, <1>3

(* Everything idle: the list is empty and so is the state word.              *)
LEMMA RestIs == QueueInv /\ RestInv => NothingLeftBehind
<1> SUFFICES ASSUME QueueInv, RestInv, Plain, AtRest
             PROVE  items = <<>> /\ dq = Idle /\ \A t \in Threads : pc[t] = "idle"
  BY DEF NothingLeftBehind
<1>1. /\ Word /\ Suspensions /\ ThreadsAt /\ Owns /\ DrainLock /\ Batches /\ Events /\ WidthAccounting
      /\ EnqueuedOnce /\ RootAt /\ dq \in States /\ dq.pb \in 0..1
      /\ Claimed /\ Queued /\ Simple /\ Watched
  BY DEF QueueInv, At, RestInv, Word
<1>2. root = <<>> /\ \A t \in Threads : pc[t] \in {"idle", "wait"} /\ t \notin signaled
  BY <1>1 DEF AtRest, Events, Waiting
<1>3. dq.sc = 0 /\ dq.owner = None /\ dq.ib = 0
  <2>1. \A t \in Threads : ~HasLock(t)
    BY <1>2 DEF HasLock, Draining, Leaving, Handing, InCallout
  <2> QED BY <1>1, <2>1, NeverSuspended DEF DrainLock, States
<1>4. dq.enq = FALSE
  <2>1. {j \in 1..Len(root) : root[j] = DQ} = {} /\ {t \in Threads : pc[t] \in {"enqueue", "lock"}} = {}
    BY <1>2
  <2>2. /\ Cardinality({j \in 1..Len(root) : root[j] = DQ}) = 0
        /\ Cardinality({t \in Threads : pc[t] \in {"enqueue", "lock"}}) = 0
    BY <2>1, FS_EmptySet
  <2> QED BY <1>1, <2>2, StateFields DEF EnqueuedOnce
<1>5. dq.w = Reserved
  <2>1. Redirected = {}
    BY <1>2 DEF Redirected
  <2>2. \A t \in Threads : Taken(t) = 0
    <3> SUFFICES ASSUME NEW t \in Threads PROVE Taken(t) = 0
      OBVIOUS
    <3>1. OwnsWidth(t) /\ t \notin signaled /\ pc[t] \in Waiting \union {"idle"}
      BY <1>1, <1>2 DEF Owns, Waiting
    <3> QED BY <1>1, <3>1, Empty, WidthOfIs DEF WidthReads, WidthOf
  <2>3. Units = {}
    BY <2>2 DEF Units
  <2> QED BY <1>1, <2>1, <2>3, FS_EmptySet, ReservedBound DEF WidthAccounting
<1>6. ~InCharge /\ \A t \in Threads : ~Wakes(t)
  BY <1>1, <1>2, <1>3, <1>4, <1>5, ReservedBound DEF InCharge, Wakes
<1>7. items = <<>> /\ dq.dirty = FALSE
  BY <1>1, <1>6, StateFields DEF Watched
<1>8. dq.pb = 0 /\ dq.w = 0
  BY <1>1, <1>5, <1>7 DEF Claimed, Reserved
<1>9. dq = Idle
  BY <1>1, <1>3, <1>4, <1>7, <1>8 DEF States, Idle
<1>10. ASSUME NEW t \in Threads, pc[t] # "idle" PROVE FALSE
  <2>1. pc[t] = "wait" /\ t \in Clients
    BY <1>1, <1>2, <1>10 DEF ThreadsAt, WorkerAt, Threads, Draining, Leaving, Handing
  <2>2. Kept(cur[t])
    BY <1>1, <1>2, <2>1 DEF ThreadsAt, ClientAt, Queued, Awaits, Waiting
  <2>3. \A u \in Threads : batch[u] = <<>>
    BY <1>1, <1>2 DEF Batches
  <2> QED BY <1>7, <2>2, <2>3 DEF Kept
<1> QED BY <1>7, <1>9, <1>10

(* A queue that nobody has used is at rest.                                  *)
LEMMA InitRest == Init => RestInv
<1> SUFFICES ASSUME Init PROVE RestInv
  OBVIOUS
<1>1. /\ items = <<>> /\ dq.pb = 0 /\ dq.dirty = FALSE
      /\ \A t \in Threads : pc[t] = "idle" /\ cur[t] = None
  BY DEF Init, Idle
<1>2. \A c \in Clients : c \in Threads
  BY DEF Threads
<1>3. Claimed /\ Watched /\ \A t \in Threads : Told(t)
  BY <1>1 DEF Claimed, Watched, Told
<1>4. Queued /\ Simple
  BY <1>1, <1>2 DEF Queued, Simple, Awaits
<1> QED BY <1>3, <1>4 DEF RestInv

(* A step that changes nothing leaves nothing behind.                        *)
LEMMA RestStutters == RestInv /\ UNCHANGED vars => RestInv'
BY DEF RestInv, vars, Claimed, Queued, Awaits, Kept, Plain, Simple, Watched, InCharge, Reserved, Told,
       Wakes, Announces

(* No lost wakeup and no deadlock, for every width, any number of clients and of *)
(* root queue threads: when all threads have come back, or wait, and the root queue *)
(* is empty, then no thread waits, the list is empty and dq_state is that of an idle *)
(* queue, so that the next dispatch_barrier_sync takes its fast path.        *)
THEOREM QueueNothingLeftBehind == Spec => []NothingLeftBehind
<1> DEFINE Inv == QueueInv /\ Word /\ dq.w >= Reserved
<1>1. Spec => []Inv
  <2>1. QueueInv => Inv
    BY QueueFacts DEF QueueInv
  <2> QED BY <2>1, QueueInvariant, PTL
<1>2. Init => RestInv
  BY InitRest
<1>3. Inv /\ RestInv /\ Inv' /\ [Next]_vars => RestInv'
  <2>1. ASSUME QueueInv, RestInv, Word', dq'.w >= Reserved', NEW t \in Threads, Moves(t) PROVE RestInv'
    <3>1. Claimed' /\ Queued'
      BY <2>1, ClaimedStep, QueuedStep DEF RestInv
    <3>2. Plain' => Plain
      BY <2>1 DEF Plain, Moves
    <3>3. ASSUME Plain PROVE Simple' /\ Watched' /\ \A u \in Threads : Told(u)'
      BY <2>1, <3>3, SimpleStep, WatchedStep, ToldStep DEF RestInv
    <3> QED BY <3>1, <3>2, <3>3 DEF RestInv
  <2>2. ASSUME Next PROVE \E t \in Threads : Moves(t)
    BY <2>2 DEF Next, Moves, Threads
  <2> QED BY <2>1, <2>2, RestStutters
<1>4. Inv /\ RestInv => NothingLeftBehind
  BY RestIs
<1> QED BY <1>1, <1>2, <1>3, <1>4, PTL DEF Spec
=============================================================================
