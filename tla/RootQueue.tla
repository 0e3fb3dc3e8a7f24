------------------------------- MODULE RootQueue -------------------------------
(***************************************************************************)
(* A root queue with a pool of threads, of src/queue.c: the list with many *)
(* consumers (_dispatch_root_queue_drain_one), the requests for threads    *)
(* (_dispatch_global_queue_poke_n) and their life (_dispatch_worker_thread)*)
(* in the build with a pthread pool.                                       *)
(*                                                                         *)
(* The head of the list is its lock: a consumer exchanges it for the       *)
(* mediator.  dpq_thread_mediator, on which threads without work wait for  *)
(* five seconds, is the counting semaphore that DispatchSemaphore          *)
(* implements: sem units, and its waiters are the workers asleep.          *)
(***************************************************************************)
EXTENDS Integers, Sequences, FiniteSets

CONSTANTS Node,        \* work items 1..N; each is pushed once, in turn
          Producers,   \* threads that push
          Workers,     \* identities of pool threads
          PoolSize,    \* the initial dgq_thread_pool_size
          Null, Mediator

ASSUME PoolAssumption == IsFiniteSet(Workers) /\ PoolSize \in 1..Cardinality(Workers)
ASSUME ActorsAssumption == IsFiniteSet(Producers) /\ Producers \cap Workers = {}
ASSUME NodeAssumption == /\ IsFiniteSet(Node) /\ Node = 1..Cardinality(Node)
                         /\ Null \notin Node /\ Mediator \notin Node \union {Null}

VARIABLES head, tail, next,   \* dq_items_head, dq_items_tail, do_next
          pool,               \* dgq_thread_pool_size: threads that may still be created
          sem,                \* dpq_thread_mediator
          at,                 \* where each thread is; "none": no such thread
          chain, prev,        \* a producer's items, and the tail it replaced
          cur,                \* a worker's item
          want,               \* threads a poke still asks for
          after,              \* where a poke returns to
          fifo,               \* history: items pushed and not taken
          pushed              \* bound: how many items were handed to a producer

rqVars == <<head, tail, next, pool, sem, at, chain, prev, cur, want, after, fifo, pushed>>
list == <<head, tail, next>>
threads == <<pool, sem>>
poking == <<want, after>>
local == <<chain, prev, cur>>
history == <<fifo, pushed>>

Actors == Producers \union Workers
\* A sequence without one of its elements.
Without(s, n) ==
  IF \E i \in DOMAIN s : s[i] = n
  THEN LET k == CHOOSE i \in DOMAIN s : s[i] = n
       IN [i \in 1..(Len(s) - 1) |-> IF i < k THEN s[i] ELSE s[i + 1]]
  ELSE s
Go(t, l) == at' = [at EXCEPT ![t] = l]
Poke(t, n, ret) == /\ Go(t, "probe")
                   /\ want' = [want EXCEPT ![t] = n]
                   /\ after' = [after EXCEPT ![t] = ret]
Return(t) == /\ want' = [want EXCEPT ![t] = 0]
             /\ after' = [after EXCEPT ![t] = "idle"]
             /\ Go(t, after[t])
Asleep == {w \in Workers : at[w] = "asleep"}

RootInit ==
  /\ head = Null /\ tail = Null
  /\ next = [n \in Node |-> Null]
  /\ pool = PoolSize /\ sem = 0
  /\ at = [t \in Actors |-> IF t \in Producers THEN "idle" ELSE "none"]
  /\ chain = [p \in Producers |-> <<>>]
  /\ prev = [p \in Producers |-> Null]
  /\ cur = [w \in Workers |-> Null]
  /\ want = [t \in Actors |-> 0]
  /\ after = [t \in Actors |-> "idle"]
  /\ fifo = <<>> /\ pushed = 0
-----------------------------------------------------------------------------
(* _dispatch_queue_push_inline of one item, _dispatch_queue_push_list of two *)

push_start(p) ==
  /\ at[p] = "idle"
  /\ \E n \in 1..2 :
       /\ pushed + n \in Node
       /\ chain' = [chain EXCEPT ![p] = [i \in 1..n |-> pushed + i]]
       /\ next' = IF n = 1 THEN next ELSE [next EXCEPT ![pushed + 1] = pushed + 2]
       /\ pushed' = pushed + n
  /\ Go(p, "xchg")
  /\ UNCHANGED <<head, tail, threads, prev, cur, poking, fifo>>

push_xchg(p) ==
  /\ at[p] = "xchg"
  /\ prev' = [prev EXCEPT ![p] = tail]
  /\ tail' = chain[p][Len(chain[p])]
  /\ fifo' = fifo \o chain[p]
  /\ Go(p, IF tail = Null THEN "head" ELSE "link")
  /\ UNCHANGED <<head, next, threads, chain, cur, poking, pushed>>

push_link(p) ==
  /\ at[p] = "link"
  /\ next' = [next EXCEPT ![prev[p]] = chain[p][1]]
  /\ prev' = [prev EXCEPT ![p] = Null] /\ chain' = [chain EXCEPT ![p] = <<>>]
  /\ Go(p, "idle")
  /\ UNCHANGED <<head, tail, threads, cur, poking, history>>

\* The head is written blindly, over the mediator of a consumer that saw nothing.
push_head(p) ==
  /\ at[p] = "head"
  /\ head' = chain[p][1]
  /\ Poke(p, Len(chain[p]), "idle")
  /\ chain' = [chain EXCEPT ![p] = <<>>]
  /\ UNCHANGED <<tail, next, threads, prev, cur, history>>
-----------------------------------------------------------------------------
(* _dispatch_global_queue_poke_n and _dispatch_global_queue_poke_slow *)

poke_probe(t) ==
  /\ at[t] = "probe"
  /\ \/ tail = Null /\ Return(t)
     \/ tail # Null /\ Go(t, "signal") /\ UNCHANGED poking
  /\ UNCHANGED <<list, threads, local, history>>

\* One thread of those asked for was woken or created, at l.
Served(t, w, l) ==
  /\ at' = [at EXCEPT ![w] = "drain", ![t] = IF want[t] = 1 THEN after[t] ELSE l]
  /\ want' = [want EXCEPT ![t] = @ - 1]
  /\ after' = IF want[t] = 1 THEN [after EXCEPT ![t] = "idle"] ELSE after

\* Wake sleeping threads first.  The signal that wakes nobody leaves its unit.
poke_signal(t) ==
  /\ at[t] = "signal"
  /\ \/ \E w \in Asleep : Served(t, w, "signal") /\ UNCHANGED sem
     \/ Asleep = {} /\ sem' = sem + 1 /\ Go(t, "pool") /\ UNCHANGED poking
  /\ UNCHANGED <<list, pool, local, history>>

\* Plausible bug: the request is not limited to what the pool has left.
Granted_all(t) == want[t]
Granted(t) == IF want[t] > pool THEN pool ELSE want[t]

poke_pool(t) ==
  /\ at[t] = "pool"
  /\ \/ pool = 0 /\ Return(t) /\ UNCHANGED pool
     \/ /\ pool > 0
        /\ pool' = pool - Granted(t)
        /\ want' = [want EXCEPT ![t] = Granted(t)]
        /\ Go(t, "create") /\ UNCHANGED after
  /\ UNCHANGED <<list, sem, local, history>>

\* pthread_create, which is retried until there is a thread; which one is no matter.
NewThread == CHOOSE w \in Workers : at[w] = "none"

poke_create(t) ==
  /\ at[t] = "create" /\ \E w \in Workers : at[w] = "none"
  /\ Served(t, NewThread, "create")
  /\ UNCHANGED <<list, threads, local, history>>
-----------------------------------------------------------------------------
(* _dispatch_root_queue_drain_one *)

drain_xchg(w) ==
  /\ at[w] = "drain"
  /\ head' = Mediator
  /\ \/ head = Null /\ Go(w, "undo") /\ UNCHANGED <<cur, fifo>>
     \/ head = Mediator /\ Go(w, "contend") /\ UNCHANGED <<cur, fifo>>
     \/ /\ head \in Node
        /\ cur' = [cur EXCEPT ![w] = head]
        /\ fifo' = Without(fifo, head)
        /\ Go(w, "next")
  /\ UNCHANGED <<tail, next, threads, chain, prev, poking, pushed>>

\* A compare and swap, because a producer may have written the head.
UndoSucceeds == head = Mediator

drain_undo(w) ==
  /\ at[w] = "undo"
  /\ \/ UndoSucceeds /\ head' = Null /\ Go(w, "check_tail")
     \/ ~UndoSucceeds /\ UNCHANGED head /\ Go(w, "drain")
  /\ UNCHANGED <<tail, next, threads, local, poking, history>>

\* rdar 14416349: an item may be on its way, between its tail and its head.
drain_checkTail(w) ==
  /\ at[w] = "check_tail"
  /\ Go(w, IF tail = Null THEN "sleep" ELSE "one2")
  /\ UNCHANGED <<list, threads, local, poking, history>>

\* _dispatch_root_queue_drain_one2 waits until both or neither are set, with two loads.
drain_one2(w) ==
  /\ at[w] = "one2"
  /\ Go(w, IF head = Null THEN "one2_empty" ELSE "one2_full")
  /\ UNCHANGED <<list, threads, local, poking, history>>

drain_one2_tail(w) ==
  /\ at[w] \in {"one2_empty", "one2_full"}
  /\ Go(w, IF (at[w] = "one2_empty") # (tail = Null) THEN "one2"
             ELSE IF tail = Null THEN "sleep" ELSE "drain")
  /\ UNCHANGED <<list, threads, local, poking, history>>

\* _dispatch_root_queue_drain_one_slow: wait for the owner, or ask for another
\* thread and give up.
drain_one_slow(w) ==
  /\ at[w] = "contend"
  /\ \/ head # Mediator /\ Go(w, "drain") /\ UNCHANGED poking
     \/ head = Mediator /\ Poke(w, 1, "sleep")
  /\ UNCHANGED <<list, threads, local, history>>

drain_next(w) ==
  /\ at[w] = "next"
  /\ Go(w, IF next[cur[w]] = Null THEN "clear" ELSE "restore")
  /\ UNCHANGED <<list, threads, local, poking, history>>

drain_clear(w) ==
  /\ at[w] = "clear"
  /\ head' = Null
  /\ Go(w, "cas")
  /\ UNCHANGED <<tail, next, threads, local, poking, history>>

drain_cas(w) ==
  /\ at[w] = "cas"
  /\ \/ tail = cur[w] /\ tail' = Null /\ Go(w, "run")
     \/ tail # cur[w] /\ UNCHANGED tail /\ Go(w, "wait_next")
  /\ UNCHANGED <<head, next, threads, local, poking, history>>

NextReady(w) == next[cur[w]] # Null

drain_waitNext(w) ==
  /\ at[w] = "wait_next" /\ NextReady(w)
  /\ Go(w, "restore")
  /\ UNCHANGED <<list, threads, local, poking, history>>

drain_restore(w) ==
  /\ at[w] = "restore"
  /\ head' = next[cur[w]]
  /\ Poke(w, 1, "run")
  /\ UNCHANGED <<tail, next, threads, local, history>>
-----------------------------------------------------------------------------
(* _dispatch_root_queue_drain and _dispatch_worker_thread *)

run_item(w) ==
  /\ at[w] = "run"
  /\ cur' = [cur EXCEPT ![w] = Null]
  /\ Go(w, "drain")
  /\ UNCHANGED <<list, threads, chain, prev, poking, history>>

worker_wait(w) ==
  /\ at[w] = "sleep"
  /\ \/ sem > 0 /\ sem' = sem - 1 /\ Go(w, "drain")
     \/ sem = 0 /\ UNCHANGED sem /\ Go(w, "asleep")
  /\ UNCHANGED <<list, pool, local, poking, history>>

\* The five seconds are over: the thread may be created again, and looks once more
\* for an item whose poke found the pool empty.
worker_timeout(w) ==
  /\ at[w] = "asleep"
  /\ Go(w, "exit")
  /\ UNCHANGED <<list, threads, local, poking, history>>

\* Plausible bug: the thread ends without the last look.
ExitPokes_never(w) == Go(w, "none") /\ UNCHANGED poking
ExitPokes(w) == Poke(w, 1, "none")

worker_exit(w) ==
  /\ at[w] = "exit"
  /\ pool' = pool + 1
  /\ ExitPokes(w)
  /\ UNCHANGED <<list, sem, local, history>>
-----------------------------------------------------------------------------
PokeStep(t) == poke_probe(t) \/ poke_signal(t) \/ poke_pool(t) \/ poke_create(t)
PushStep(p) == push_xchg(p) \/ push_link(p) \/ push_head(p)
DrainStep(w) ==
  \/ drain_xchg(w) \/ drain_undo(w) \/ drain_checkTail(w) \/ drain_one2(w)
  \/ drain_one2_tail(w) \/ drain_one_slow(w) \/ drain_next(w) \/ drain_clear(w)
  \/ drain_cas(w) \/ drain_waitNext(w) \/ drain_restore(w) \/ run_item(w)
  \/ worker_wait(w) \/ worker_exit(w)

RootNext ==
  \/ \E p \in Producers : push_start(p) \/ PushStep(p) \/ PokeStep(p)
  \/ \E w \in Workers : DrainStep(w) \/ worker_timeout(w) \/ PokeStep(w)

(* Threads go on and items return; nobody has to push and no timeout has to come. *)
Fairness == /\ \A p \in Producers : WF_rqVars(PushStep(p) \/ PokeStep(p))
            /\ \A w \in Workers : WF_rqVars(DrainStep(w) \/ PokeStep(w))

RootSpec == RootInit /\ [][RootNext]_rqVars /\ Fairness
-----------------------------------------------------------------------------
(* The threads of the pool, those being created and those that may be created are
   as many as the pool has, so that never more than PoolSize drain the queue. *)
PoolAccounting ==
  LET Leaving == {w \in Workers : at[w] = "none" \/ (at[w] \in {"probe", "signal", "pool", "create"}
                                                    /\ after[w] = "none")}
      Requests == {r \in Actors \X (1..PoolSize) : at[r[1]] = "create" /\ r[2] =< want[r[1]]}
  IN /\ pool >= 0 /\ \A t \in Actors : at[t] = "create" => want[t] \in 1..PoolSize
     /\ pool + Cardinality(Requests) + Cardinality(Workers \ Leaving) = PoolSize

(* A producer links its item to one that no consumer has finished with: the
   consumer of the item at the tail waits for that link. *)
NoDeadRootLink ==
  \A p \in Producers : at[p] = "link" =>
    \/ \E i \in DOMAIN fifo : fifo[i] = prev[p]
    \/ \E w \in Workers : cur[w] = prev[p] /\ at[w] \in {"next", "clear", "cas", "wait_next"}

(* However the consumers fight for the head, the items are taken in the order of
   their pushes, each once, and every item is taken: no push is left with all
   threads asleep, ended or refused by the pool. *)
Abs == INSTANCE Fifo WITH list <- fifo
AbsSpec == Abs!Spec
=============================================================================
