-------------------------- MODULE DispatchOnceGate --------------------------
(* dispatch_once_f on a gate (libdispatch_sourceCode/src/once.c with         *)
(* DISPATCH_GATE_USE_FOR_DISPATCH_ONCE, and the gate lock of shims/lock.h    *)
(* and shims/lock.c): the predicate holds the runner's thread id and a bit   *)
(* for "somebody waits"; waiters block in the kernel on its value.           *)
EXTENDS Integers, FiniteSets

CONSTANTS Threads,    \* the callers of one predicate
          Recursive,  \* those whose block calls dispatch_once again
          NoThread    \* the owner bits of an unlocked or finished gate

ASSUME GateAssumption == Recursive \subseteq Threads /\ NoThread \notin Threads

VARIABLES dgo_once,   \* the gate: state, owner bits, waiters bit
          pc,
          tid_new,    \* the value a waiter sleeps on
          runs, completed,
          crashed     \* "trying to lock recursively"

vars == <<dgo_once, pc, tid_new, runs, completed, crashed>>
block == <<runs, completed>>

Unlocked == [st |-> "unlocked", owner |-> NoThread, waiters |-> FALSE]
Done     == [st |-> "done", owner |-> NoThread, waiters |-> FALSE]
Locked(t, w) == [st |-> "locked", owner |-> t, waiters |-> w]

Goto(t, l) == pc' = [pc EXCEPT ![t] = l]

Init == /\ dgo_once = Unlocked
        /\ pc = [t \in Threads |-> "idle"]
        /\ tid_new = [t \in Threads |-> Unlocked]
        /\ runs = 0 /\ completed = 0
        /\ crashed = FALSE

-----------------------------------------------------------------------------
\* Plausible bugs of the definitions below.
Mark_not(v) == v
StillLocked_anyway(t) == TRUE

-----------------------------------------------------------------------------
\* The inline test of dispatch/once.h.
dispatch_once(t) ==
    /\ pc[t] = "idle"
    /\ Goto(t, IF dgo_once = Done THEN "done" ELSE "tryenter")
    /\ UNCHANGED <<dgo_once, tid_new, block, crashed>>

CanEnter(v) == v = Unlocked

gate_tryenter(t) ==
    /\ pc[t] = "tryenter"
    /\ \/ /\ CanEnter(dgo_once)
          /\ dgo_once' = Locked(t, FALSE)
          /\ runs' = runs + 1
          /\ Goto(t, "run")
       \/ /\ ~CanEnter(dgo_once)
          /\ Goto(t, "mark")
          /\ UNCHANGED <<dgo_once, runs>>
    /\ UNCHANGED <<tid_new, completed, crashed>>

\* The block ends, or calls dispatch_once on its own predicate.
gate_callout(t) ==
    /\ pc[t] = "run"
    /\ \/ completed' = completed + 1 /\ Goto(t, "broadcast")
       \/ t \in Recursive /\ completed' = completed /\ Goto(t, "mark")
    /\ UNCHANGED <<dgo_once, tid_new, runs, crashed>>

HasWaiters(v, t) == v # Locked(t, FALSE)

\* _dispatch_once_gate_broadcast: store DONE, wake all if anybody waits.
gate_broadcast(t) ==
    /\ pc[t] = "broadcast"
    /\ dgo_once' = Done
    /\ Goto(t, IF HasWaiters(dgo_once, t) THEN "wakeAll" ELSE "done")
    /\ UNCHANGED <<tid_new, block, crashed>>

\* Its trap "lock not owned by current thread" is unreachable: RunnerOwns.
gate_wakeAll(t) ==
    /\ pc[t] = "wakeAll"
    /\ pc' = [u \in Threads |-> IF u = t THEN "done"
                                ELSE IF pc[u] = "blocked" THEN "mark" ELSE pc[u]]
    /\ UNCHANGED <<dgo_once, tid_new, block, crashed>>

\* _dispatch_gate_wait_slow: return if done, else set the waiters bit (the
\* retries of the compare-and-swap are stutters) and wait on the result.
IsDone(v) == v = Done
Mark(v) == [v EXCEPT !.waiters = TRUE]
IsOwner(v, t) == v.owner = t

gate_mark(t) ==
    /\ pc[t] = "mark"
    /\ \/ IsDone(dgo_once) /\ Goto(t, "done") /\ UNCHANGED <<dgo_once, tid_new, crashed>>
       \/ /\ ~IsDone(dgo_once)
          /\ dgo_once' = Mark(dgo_once)
          /\ tid_new' = [tid_new EXCEPT ![t] = Mark(dgo_once)]
          /\ crashed' = IsOwner(dgo_once, t)
          /\ Goto(t, "sleep")
    /\ UNCHANGED block

\* The kernel blocks the thread only while the gate still has that value.
StillLocked(t) == dgo_once = tid_new[t]

gate_sleep(t) ==
    /\ pc[t] = "sleep"
    /\ Goto(t, IF StillLocked(t) THEN "blocked" ELSE "mark")
    /\ UNCHANGED <<dgo_once, tid_new, block, crashed>>

Step(t) == \/ gate_tryenter(t) \/ gate_callout(t) \/ gate_broadcast(t)
           \/ gate_wakeAll(t) \/ gate_mark(t) \/ gate_sleep(t)

Next == ~crashed /\ \E t \in Threads : dispatch_once(t) \/ Step(t)

\* Every thread inside the call is scheduled again, and the block ends.
Spec == Init /\ [][Next]_vars /\ \A t \in Threads : WF_vars(~crashed /\ Step(t))

-----------------------------------------------------------------------------
Gates == [st : {"unlocked", "locked", "done"}, owner : Threads \cup {NoThread},
          waiters : BOOLEAN]
TypeOK ==
    /\ dgo_once \in Gates /\ tid_new \in [Threads -> Gates]
    /\ dgo_once.st = "locked" <=> dgo_once.owner # NoThread
    /\ dgo_once.waiters => dgo_once.st = "locked"
    /\ pc \in [Threads -> {"idle", "tryenter", "run", "broadcast", "wakeAll",
                           "mark", "sleep", "blocked", "done"}]
    /\ runs \in 0..1 /\ completed \in 0..1 /\ crashed \in BOOLEAN

(* A blocked thread has somebody to wake it: the gate is locked by another    *)
(* thread and says that somebody waits, or the runner is about to wake all.   *)
BlockedHasWaker ==
    \A t \in Threads : pc[t] = "blocked" =>
      \/ dgo_once.st = "locked" /\ dgo_once.waiters /\ dgo_once.owner # t
      \/ \E u \in Threads : pc[u] = "wakeAll"

\* The inductive invariant: the gate and the labels say how far the block is,
\* the runner owns the gate, and a thread about to sleep has set the waiters bit.
BlockProgress ==
    /\ runs = 0 <=> dgo_once.st = "unlocked"
    /\ dgo_once.st = "done" => completed = 1
    /\ completed = 1 => runs = 1
RunnerOwns ==
    \A t \in Threads : pc[t] \in {"run", "broadcast"} =>
      /\ dgo_once.st = "locked" /\ dgo_once.owner = t
      /\ completed = 1 <=> pc[t] = "broadcast"
CallsInOrder ==
    \A t \in Threads :
      /\ pc[t] \in {"wakeAll", "done"} => completed = 1
      /\ pc[t] \in {"mark", "sleep", "blocked"} => runs = 1
SleepersMarked ==
    \A t \in Threads : pc[t] = "sleep" /\ ~crashed =>
      tid_new[t].st = "locked" /\ tid_new[t].waiters /\ tid_new[t].owner # t
GateInv == /\ TypeOK /\ BlockProgress /\ RunnerOwns /\ CallsInOrder
           /\ SleepersMarked /\ BlockedHasWaker

(* Every caller returns, unless a recursive block traps.                      *)
EveryCallReturns ==
    \A t \in Threads : (pc[t] # "idle") ~> (pc[t] = "done" \/ crashed)

(* The block runs once, and a call returns only when it has completed.       *)
Abs == INSTANCE Once WITH
         block <- IF completed > 0 THEN "done"
                  ELSE IF runs > 0 THEN "running" ELSE "not_run",
         calls <- [t \in Threads |-> IF pc[t] = "idle" THEN "out"
                                     ELSE IF pc[t] = "done" THEN "returned" ELSE "in"]
AbsSpec == Abs!Spec
=============================================================================
