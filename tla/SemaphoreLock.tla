--------------------------- MODULE SemaphoreLock ---------------------------
(* A dispatch semaphore of value 1 used as a lock, as LockFun's             *)
(* testDisPatch_semaphore and the libdispatch test dispatch_sema.c do: wait,*)
(* work, signal, and the result of wait is ignored.                         *)
(* Clients that call it in any order, with any timeout, are there too: which *)
(* of the two kinds a behaviour has is chosen at the start.                  *)
EXTENDS DispatchSemaphore

\* The lock waits with DISPATCH_TIME_FOREVER.
ASSUME LockAssumption == "forever" \in Timeouts

VARIABLES locking,    \* the clients use the semaphore as a lock
          critical    \* the threads between their wait and their signal
lockVars == <<vars, locking, critical>>

LockInit == Init /\ locking \in BOOLEAN /\ critical = {}

\* A bug of the client: signalling without having waited.
Unlock_unbalanced(t) == dispatch_semaphore_signal(t) /\ critical' = critical \ {t}

\* A wait that returns, by whichever path, lets the thread in.
Lock(t) == /\ t \notin critical
           /\ dispatch_semaphore_wait(t, "forever")
           /\ critical' = IF op'[t] = "none" THEN critical \cup {t} ELSE critical

LockSlow(t) == /\ locking
               /\ Inside(t)
               /\ critical' = IF op[t] = "wait" /\ op'[t] = "none"
                              THEN critical \cup {t} ELSE critical

Unlock(t) == /\ t \in critical
             /\ dispatch_semaphore_signal(t)
             /\ critical' = critical \ {t}

\* The owner drops its reference when the work is done.
LockRelease(t) == /\ critical = {}
                  /\ semaphore_dispose(t)
                  /\ UNCHANGED critical

LockStep(t) == \/ LockSlow(t)
               \/ locking /\ (Lock(t) \/ Unlock(t) \/ LockRelease(t))
               \/ ~locking /\ Step(t) /\ UNCHANGED critical

LockNext == /\ life \notin {"crash", "overflow"}
            /\ \E t \in Threads : LockStep(t)
            /\ UNCHANGED locking

(* A critical section ends, a thread inside the library runs on, and the     *)
(* kernel serves blocked threads in turn (SYNC_POLICY_FIFO).                 *)
LockFairness(t) == /\ WF_lockVars(LockSlow(t) /\ UNCHANGED locking)
                   /\ WF_lockVars(locking /\ Unlock(t) /\ UNCHANGED locking)
                   /\ SF_lockVars(LockSlow(t) /\ op'[t] = "none" /\ UNCHANGED locking)

LockSpec == /\ LockInit
            /\ [][LockNext]_lockVars
            /\ \A t \in Threads : LockFairness(t)

-----------------------------------------------------------------------------
\* What ties the threads in the section to the units held: every wait of the lock
\* is one without a timeout, by a thread that is not in the section yet.
Tied == locking =>
  /\ critical \subseteq Threads /\ Cardinality(critical) = held
  /\ \A t \in Waiters : t \notin critical /\ timeout[t] = "forever"
  /\ \A t \in Threads : pc[t] \notin {"timedwait", "undoLoad", "undoCAS"}
  /\ life \in {"alive", "disposed"}

(* The comment of testDisPatch_semaphore: the semaphore synchronises as long *)
(* as the timeout exceeds the work. When no wait gives up, no two threads    *)
(* are in the section, whatever fast and slow paths let them in; and dispose *)
(* never traps on a lock used this way.                                      *)
MutualExclusion == locking => /\ Cardinality(critical) =< Orig
                              /\ life \in {"alive", "disposed"}

(* No wakeup is lost and no thread starves: every wait is served.            *)
EveryWaitReturns == \A t \in Threads : locking /\ op[t] = "wait" ~> t \in critical
=============================================================================
