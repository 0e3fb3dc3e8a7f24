---------------------------- MODULE DispatchBlock ----------------------------
(* Dispatch block objects: src/block.cpp and dispatch_block_* of src/queue.c.*)
(* One block object, its private data, and the internal references of the    *)
(* queue it is submitted to. Its private group is a counter that starts      *)
(* entered once and is left when the block has been performed.               *)
EXTENDS Naturals, Integers, FiniteSets

CONSTANTS Threads,    \* clients and workers
          MaxRuns,    \* bound: executions of the block object
          MaxWaits,   \* bound: calls of dispatch_block_wait
          MaxNotes    \* bound: calls of dispatch_block_notify
ASSUME ThreadsAssumption == IsFiniteSet(Threads)
ASSUME BoundsAssumption == MaxRuns \in Nat /\ MaxWaits \in Nat /\ MaxNotes \in Nat

VARIABLES canceled, waiting, waited,  \* the DBF_ bits of dbpd_atomic_flags
          performed,  \* dbpd_performed
          queue,      \* is dbpd_queue set
          thread,     \* is dbpd_thread set
          left,       \* times dbpd_group was left
          refs,       \* internal references of the queue beyond its owner's
          brefs,      \* references to the block object
          pending,    \* continuations of the block in the queue
          pc, op,     \* where each thread is, and in which call
          boosted,    \* the thread's boost_oq: did it take the queue
          execs, waits, observed,  \* what the client did so far
          notes, fired,            \* notifications scheduled and submitted
          crashed                  \* a DISPATCH_CLIENT_CRASH was met
flagVars == <<canceled, waiting, waited>>
client == <<execs, waits, observed, notes, fired>>
vars == <<flagVars, performed, queue, thread, left, refs, brefs, pending, pc, op,
          boosted, client, crashed>>

Init == /\ canceled = FALSE /\ waiting = FALSE /\ waited = FALSE
        /\ performed = 0 /\ left = 0 /\ refs = 0 /\ brefs = 1 /\ pending = 0
        /\ queue = FALSE /\ thread = FALSE
        /\ pc = [t \in Threads |-> "idle"]
        /\ op = [t \in Threads |-> "none"]
        /\ boosted = [t \in Threads |-> FALSE]
        /\ execs = 0 /\ waits = 0 /\ observed = FALSE /\ notes = 0 /\ fired = 0
        /\ crashed = FALSE

Goto(t, l) == pc' = [pc EXCEPT ![t] = l]
Start(t, o, l) == pc[t] = "idle" /\ op' = [op EXCEPT ![t] = o] /\ Goto(t, l)

\* The client still owns its reference while it calls in.
ClientCall(t) == op[t] \in {"async", "sync", "direct", "wait"}
ClientRef == ~crashed /\ brefs > pending + Cardinality({t \in Threads :
               op[t] = "item" \/ (op[t] = "async" /\ pc[t] # "idle")})

\* block.h: waited on once and executed once, or executed any number of times.
MayExecute == execs < MaxRuns /\ (execs = 0 \/ ~observed)
MayObserve == execs =< 1

\* dispatch_async copies the block, dispatch_sync does not; both publish the
\* queue in the private data with a cmpxchg ...
Submit(t, o) ==
  /\ ClientRef /\ MayExecute
  /\ Start(t, o, IF queue THEN "push" ELSE "retain")
  /\ queue' = TRUE
  /\ execs' = execs + 1
  /\ brefs' = IF o = "async" THEN brefs + 1 ELSE brefs
  /\ UNCHANGED <<flagVars, performed, thread, left, refs, pending, boosted,
                 waits, observed, notes, fired, crashed>>

\* ... and then retain it.
init_slow_retain(t) ==
  /\ pc[t] = "retain"
  /\ refs' = refs + 1
  /\ Goto(t, "push")
  /\ UNCHANGED <<flagVars, performed, queue, thread, left, brefs, pending, op,
                 boosted, client, crashed>>

\* The continuation goes to the queue, or the caller of dispatch_sync runs it.
Push(t) ==
  /\ pc[t] = "push"
  /\ IF op[t] = "async"
     THEN pending' = pending + 1 /\ Goto(t, "idle") /\ op' = [op EXCEPT ![t] = "none"]
     ELSE Goto(t, "invoke") /\ UNCHANGED <<pending, op>>
  /\ UNCHANGED <<flagVars, performed, queue, thread, left, refs, brefs, boosted,
                 client, crashed>>

\* A worker takes the continuation, or the client calls the block itself.
Dequeue(t) ==
  /\ pending > 0 /\ Start(t, "item", "invoke")
  /\ pending' = pending - 1
  /\ UNCHANGED <<flagVars, performed, queue, thread, left, refs, brefs, boosted,
                 client, crashed>>

invoke_direct(t) ==
  /\ ClientRef /\ MayExecute /\ Start(t, "direct", "invoke")
  /\ execs' = execs + 1
  /\ UNCHANGED <<flagVars, performed, queue, thread, left, refs, brefs, pending,
                 boosted, waits, observed, notes, fired, crashed>>

\* The flags are read once, before the body.
invoke_flags(t) ==
  /\ pc[t] = "invoke"
  /\ crashed' = waited
  /\ Goto(t, IF canceled THEN "performed" ELSE "body")
  /\ thread' = (thread \/ (op[t] = "direct" /\ ~canceled))
  /\ UNCHANGED <<flagVars, performed, queue, left, refs, brefs, pending, op, boosted,
                 client>>

invoke_body(t) ==
  /\ pc[t] = "body"
  /\ Goto(t, "performed")
  /\ UNCHANGED <<flagVars, performed, queue, thread, left, refs, brefs, pending, op,
                 boosted, client, crashed>>

\* Plausible bug: the group is left whenever the block was performed.
Leaves_always == TRUE
\* Only the first execution leaves the group.
Leaves == performed = 0

invoke_performed(t) ==
  /\ pc[t] = "performed"
  /\ performed' = performed + 1
  /\ left' = IF Leaves THEN left + 1 ELSE left
  /\ IF op[t] = "direct"
     THEN Goto(t, "idle") /\ op' = [op EXCEPT ![t] = "none"]
     ELSE Goto(t, "queue") /\ UNCHANGED op
  /\ UNCHANGED <<flagVars, queue, thread, refs, brefs, pending, boosted, client, crashed>>

\* The exchange that decides who gives the queue's reference back.
invoke_queue(t) ==
  /\ pc[t] = "queue"
  /\ queue' = FALSE
  /\ Goto(t, IF queue THEN "release" ELSE "free")
  /\ UNCHANGED <<flagVars, performed, thread, left, refs, brefs, pending, op, boosted,
                 client, crashed>>

invoke_release(t) ==
  /\ pc[t] = "release"
  /\ refs' = refs - 1
  /\ Goto(t, "free")
  /\ UNCHANGED <<flagVars, performed, queue, thread, left, brefs, pending, op, boosted,
                 client, crashed>>

\* Plausible bug: the destructor forgets a block that was never run.
LeftByDestructor_not == left
\* The destructor leaves the group for a block that was never performed.
LeftByDestructor == IF performed = 0 THEN left + 1 ELSE left

\* Block_release; the last one runs the destructor of the private data.
BlockRelease ==
  /\ brefs' = brefs - 1
  /\ IF brefs = 1
     THEN /\ left' = LeftByDestructor
          /\ refs' = IF queue THEN refs - 1 ELSE refs
          /\ queue' = FALSE
     ELSE UNCHANGED <<left, refs, queue>>

invoke_free(t) ==
  /\ pc[t] = "free"
  /\ IF op[t] = "item" THEN BlockRelease ELSE UNCHANGED <<brefs, left, refs, queue>>
  /\ Goto(t, "idle") /\ op' = [op EXCEPT ![t] = "none"]
  /\ UNCHANGED <<flagVars, performed, thread, pending, boosted, client, crashed>>

ClientRelease ==
  /\ ClientRef /\ \A t \in Threads : ~ClientCall(t)
  /\ BlockRelease
  /\ UNCHANGED <<flagVars, performed, thread, pending, pc, op, boosted, client, crashed>>

dispatch_block_cancel ==
  /\ ClientRef /\ ~canceled
  /\ canceled' = TRUE
  /\ UNCHANGED <<waiting, waited, performed, queue, thread, left, refs, brefs, pending,
                 pc, op, boosted, client, crashed>>

\* dispatch_block_wait: announce the wait ...
dispatch_block_wait(t) ==
  /\ ClientRef /\ MayObserve /\ waits < MaxWaits
  /\ ~waited /\ \A u \in Threads : op[u] # "wait"
  /\ Start(t, "wait", "boost")
  /\ waiting' = TRUE
  /\ crashed' = (waiting \/ waited)
  /\ waits' = waits + 1 /\ observed' = TRUE
  /\ UNCHANGED <<canceled, waited, performed, queue, thread, left, refs, brefs, pending,
                 boosted, execs, notes, fired>>

\* ... take the queue out of the private data ...
block_wait_boost(t) ==
  /\ pc[t] = "boost"
  /\ queue' = FALSE
  /\ boosted' = [boosted EXCEPT ![t] = queue]
  /\ Goto(t, IF queue THEN "consume" ELSE "check")
  /\ UNCHANGED <<flagVars, performed, thread, left, refs, brefs, pending, op, client,
                 crashed>>

\* ... wake it up, which consumes the reference ...
block_wait_consume(t) ==
  /\ pc[t] = "consume"
  /\ refs' = refs - 1
  /\ Goto(t, "check")
  /\ UNCHANGED <<flagVars, performed, queue, thread, left, brefs, pending, op, boosted,
                 client, crashed>>

block_wait_check(t) ==
  /\ pc[t] = "check"
  /\ crashed' = (performed > 1 \/ (thread /\ boosted[t]))
  /\ Goto(t, "group")
  /\ UNCHANGED <<flagVars, performed, queue, thread, left, refs, brefs, pending, op,
                 boosted, client>>

Completed == left > 0

\* ... wait for the group, and say how that ended.
block_wait_done(t) ==
  /\ pc[t] = "group" /\ Completed
  /\ waited' = TRUE
  /\ Goto(t, "idle") /\ op' = [op EXCEPT ![t] = "none"]
  /\ boosted' = [boosted EXCEPT ![t] = FALSE]
  /\ UNCHANGED <<canceled, waiting, performed, queue, thread, left, refs, brefs, pending,
                 client, crashed>>

\* Plausible bug: a timed out wait puts the queue back.
QueueAfterTimeout_restored(t) == queue \/ boosted[t]
\* A wait that times out does not put the queue back.
QueueAfterTimeout(t) == queue

WaitingAfterTimeout == FALSE

block_wait_timeout(t) ==
  /\ pc[t] = "group"
  /\ waiting' = WaitingAfterTimeout
  /\ queue' = QueueAfterTimeout(t)
  /\ Goto(t, "idle") /\ op' = [op EXCEPT ![t] = "none"]
  /\ boosted' = [boosted EXCEPT ![t] = FALSE]
  /\ UNCHANGED <<canceled, waited, performed, thread, left, refs, brefs, pending, client,
                 crashed>>

\* dispatch_block_notify hands the notification to the group.
dispatch_block_notify ==
  /\ ClientRef /\ MayObserve /\ notes < MaxNotes
  /\ crashed' = (performed > 1)
  /\ notes' = notes + 1 /\ observed' = TRUE
  /\ UNCHANGED <<flagVars, performed, queue, thread, left, refs, brefs, pending, pc, op,
                 boosted, execs, waits, fired>>

NotifyFires ==
  /\ left > 0 /\ fired < notes
  /\ fired' = fired + 1
  /\ UNCHANGED <<flagVars, performed, queue, thread, left, refs, brefs, pending, pc, op,
                 boosted, execs, waits, observed, notes, crashed>>

Inside(t) == \/ init_slow_retain(t) \/ Push(t) \/ Dequeue(t) \/ invoke_flags(t)
             \/ invoke_body(t) \/ invoke_performed(t) \/ invoke_queue(t)
             \/ invoke_release(t) \/ invoke_free(t) \/ block_wait_boost(t)
             \/ block_wait_consume(t) \/ block_wait_check(t) \/ block_wait_done(t)

Next == /\ ~crashed
        /\ \/ \E t \in Threads : \/ Inside(t) \/ block_wait_timeout(t)
                                 \/ Submit(t, "async") \/ Submit(t, "sync")
                                 \/ invoke_direct(t) \/ dispatch_block_wait(t)
           \/ ClientRelease \/ dispatch_block_cancel \/ dispatch_block_notify
           \/ NotifyFires

Spec == Init /\ [][Next]_vars

(* Threads inside the library and workers run on, waits time out, the client *)
(* drops its reference in the end and the notification queue is served.      *)
FairSpec == /\ Spec
            /\ \A t \in Threads : WF_vars(~crashed /\ (Inside(t) \/ block_wait_timeout(t)))
            /\ WF_vars(ClientRelease)
            /\ WF_vars(~crashed /\ NotifyFires)

-----------------------------------------------------------------------------
TypeOK == /\ canceled \in BOOLEAN /\ waiting \in BOOLEAN /\ waited \in BOOLEAN
          /\ queue \in BOOLEAN /\ thread \in BOOLEAN
          /\ performed \in Nat /\ left \in Nat /\ pending \in Nat
          /\ execs \in Nat /\ waits \in Nat /\ notes \in Nat /\ fired \in Nat
          /\ observed \in BOOLEAN /\ crashed \in BOOLEAN
          /\ refs \in Int /\ brefs \in Int
          /\ pc \in [Threads -> {"idle", "retain", "push", "invoke", "body", "performed",
                                 "queue", "release", "free", "boost", "consume", "check",
                                 "group"}]
          /\ op \in [Threads -> {"none", "async", "sync", "item", "direct", "wait"}]
          /\ boosted \in [Threads -> BOOLEAN]

(* A client that keeps to the rules of block.h (one execution if anyone      *)
(* waits or is notified; a wait that timed out does not count) never meets   *)
(* one of the traps.                                                         *)
LegalUseNeverCrashes == ~crashed

At(l) == Cardinality({t \in Threads : pc[t] = l})

(* The queue's reference is given back exactly once, by the execution, the   *)
(* wait or the destructor, whichever exchanges dbpd_queue: the comments      *)
(* "balanced in d_block_async_invoke_and_release or d_block_wait".           *)
QueueBalanced ==
  TypeOK /\
  refs = (IF queue THEN 1 ELSE 0) + At("release") + At("consume") - At("retain")

(* The private group is left exactly once over the life of the block object, *)
(* whether it runs, is cancelled, runs often or is destroyed unused.         *)
LeftOnce == left =< 1 /\ (brefs = 0 => left = 1)

(* dispatch_block_wait returns success only when the execution it waited for *)
(* is over, its body included.                                               *)
WaitMeansDone == waited => performed = 1 /\ At("body") = 0

(* Completion is what block.h promises: the group is left once, a wait that  *)
(* succeeds saw the end of the execution, and a client that keeps to the     *)
(* rules is never told that it broke them.                                   *)
CompletionSound == LeftOnce /\ WaitMeansDone /\ LegalUseNeverCrashes

\* What makes it inductive. Every execution that was begun is queued, on its way
\* or performed; every reference to the block object is the client's, a
\* continuation's or a call's; and a client that observes it executed it once.
Labels == \A t \in Threads :
  /\ op[t] = "none" <=> pc[t] = "idle"
  /\ op[t] = "async" => pc[t] \in {"retain", "push"}
  /\ op[t] = "item" => pc[t] \notin {"retain", "push"}
  /\ op[t] = "direct" => pc[t] \in {"invoke", "body", "performed"}
  /\ op[t] = "wait" <=> pc[t] \in {"boost", "consume", "check", "group"}
Running == {t \in Threads : pc[t] \in {"retain", "push", "invoke", "body", "performed"}}
Holders == {t \in Threads : op[t] = "item" \/ (op[t] = "async" /\ pc[t] # "idle")}
ExecutionsAddUp == performed + pending + Cardinality(Running) = execs
ReferencesAddUp ==
  /\ brefs - pending - Cardinality(Holders) \in {0, 1}
  /\ (\E t \in Threads : ClientCall(t)) => brefs - pending - Cardinality(Holders) = 1
LeftAsPerformed == left = IF performed > 0 \/ brefs = 0 THEN 1 ELSE 0
ObservedOnce ==
  /\ observed => execs =< 1
  /\ waited => observed /\ performed = 1
  /\ \A t \in Threads : op[t] = "wait" => observed
  /\ waiting => waited \/ \E t \in Threads : op[t] = "wait"
Called    == thread \/ \E t \in Threads : op[t] = "direct"
Submitted == queue \/ \E t \in Threads : boosted[t]
ExecutedOneWay == /\ execs = 0 => ~Called /\ ~Submitted
                  /\ execs = 1 => ~Called \/ ~Submitted
CompletionInv ==
  /\ TypeOK /\ Labels /\ ExecutionsAddUp /\ ReferencesAddUp /\ LeftAsPerformed
  /\ ObservedOnce /\ ExecutedOneWay /\ ~crashed

(* "Release while external references exist", the assertion of               *)
(* _os_object_release_internal_inline: the wait never drops a reference that *)
(* the submission did not take yet.                                          *)
NeverOverReleased == refs >= 0

(* Every notification is submitted in the end, even for a block object that  *)
(* is cancelled or never executed.                                           *)
EveryNotificationFires == \A n \in 1..MaxNotes : notes >= n ~> (fired >= n \/ crashed)
=============================================================================
