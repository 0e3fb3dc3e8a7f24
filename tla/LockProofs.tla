----------------------------- MODULE LockProofs -----------------------------
(* Theorems on what rests on shims/lock.c. The unfair lock excludes, and     *)
(* strands nobody, for every set of threads. Both builds of dispatch_once,   *)
(* on the gate and on the thread events of that file, run the block once and *)
(* return only after it has completed, for any number of callers: the gate   *)
(* never leaves a waiter blocked with nobody to wake it; the list is never   *)
(* read or signalled where a node is already gone. The two models share no   *)
(* variable and no constant.                                                 *)
EXTENDS UnfairLock, OnceBuilds, TLAPS

-----------------------------------------------------------------------------
\* One call or one step of a thread, as in LockNext.
LockMoves(t) == \/ Inside(t)
            \/ unfair_lock_lock(t) \/ unfair_lock_trylock(t)
            \/ unfair_lock_tryunlock(t) \/ unfair_lock_unlock(t)

(* Every step keeps the types, and leaves a free word all zero.              *)
LEMMA LockTypeStep ==
    ASSUME LockInv, NEW t \in Lockers, ~recursed, LockMoves(t)
    PROVE  LockTypeOK'
<1> USE NoneAssumption DEF LockInv, LockTypeOK, Words, Word, Zero, Labels, SetWord, Enter
<1>1. CASE unfair_lock_lock(t)
  BY <1>1 DEF unfair_lock_lock
<1>2. CASE lock_slow_rmw(t)
  <2>1. CASE ~IsLocked
    BY <1>2, <2>1 DEF lock_slow_rmw, IsLocked
  <2>2. CASE IsLocked
    <3>1. /\ owner' = owner /\ noWaiters' = FALSE /\ noFailed' = noFailed
          /\ val' = [val EXCEPT ![t] = SlowWord] /\ recursed' = (owner = t)
          /\ at' = [at EXCEPT ![t] = "sleep"]
          /\ UNCHANGED <<nextBits, crowded, told, missed>>
      BY <1>2, <2>2 DEF lock_slow_rmw, SlowWord, LocksTwice
    <3>2. SlowWord \in Words /\ owner # None
      BY <2>2 DEF SlowWord, IsLocked
    <3>3. recursed' \in BOOLEAN
      BY <3>1
    <3> QED
      BY <3>1, <3>2, <3>3
  <2> QED
    BY <2>1, <2>2
<1>3. CASE ulock_wait_sleep(t)
  BY <1>3 DEF ulock_wait_sleep
<1>4. CASE ulock_wait_changed(t)
  BY <1>4 DEF ulock_wait_changed, NextAfter, OthersWait
<1>5. CASE ulock_wait_fault(t)
  BY <1>5 DEF ulock_wait_fault
<1>6. CASE ulock_wait_return(t)
  BY <1>6 DEF ulock_wait_return, NextAfter, OthersWait
<1>7. CASE unfair_lock_trylock(t)
  BY <1>7 DEF unfair_lock_trylock, IsLocked
<1>8. CASE unfair_lock_tryunlock(t)
  <2>1. CASE noFailed
    BY <1>8, <2>1 DEF unfair_lock_tryunlock, MayRelease, Release, Freed
  <2>2. CASE ~noFailed
    <3>1. owner = t
      BY <1>8 DEF unfair_lock_tryunlock, MutualExclusion
    <3> QED
      BY <1>8, <2>2, <3>1 DEF unfair_lock_tryunlock, MayRelease
  <2> QED
    BY <2>1, <2>2
<1>9. CASE unfair_lock_unlock(t)
  BY <1>9 DEF unfair_lock_unlock, Release, Freed
<1>10. CASE unlock_slow(t)
  BY <1>10 DEF unlock_slow, Wakes
<1> QED
  BY <1>1, <1>2, <1>3, <1>4, <1>5, <1>6, <1>7, <1>8, <1>9, <1>10 DEF LockMoves, Inside

(* Every step keeps what ties the word to the threads: its holders exclude   *)
(* each other, nobody waits for himself, waiting is announced, and failed    *)
(* attempts are marked.                                                      *)
LEMMA LockWordStep ==
    ASSUME LockInv, NEW t \in Lockers, ~recursed, LockMoves(t)
    PROVE  (MutualExclusion /\ NeverWaitsForItself /\ Announced /\ MissedIsMarked)'
<1> USE NoneAssumption
    DEF LockInv, LockTypeOK, Words, Word, Zero, Labels, SetWord, Enter, IsLocked,
        MutualExclusion, NeverWaitsForItself, Announced, MissedIsMarked
<1>1. CASE unfair_lock_lock(t)
  <2>1. CASE Word = Zero
    <3>1. /\ owner' = t /\ noFailed' = TRUE /\ at' = [at EXCEPT ![t] = "held"]
          /\ UNCHANGED <<val, crowded, missed, recursed>>
      BY <1>1, <2>1 DEF unfair_lock_lock
    <3>2. owner = None /\ ~missed
      BY <2>1
    <3> QED
      BY <3>1, <3>2
  <2>2. CASE Word # Zero
    <3>1. /\ at' = [at EXCEPT ![t] = "slow"]
          /\ UNCHANGED <<owner, noFailed, val, crowded, missed, recursed>>
      BY <1>1, <2>2 DEF unfair_lock_lock
    <3> QED
      BY <3>1
  <2> QED
    BY <2>1, <2>2
<1>2. CASE lock_slow_rmw(t)
  <2>1. CASE ~IsLocked
    <3>1. /\ owner' = t /\ noFailed' = TRUE /\ at' = [at EXCEPT ![t] = "held"]
          /\ UNCHANGED <<val, crowded, missed, recursed>>
      BY <1>2, <2>1 DEF lock_slow_rmw
    <3>2. owner = None /\ ~missed
      BY <2>1
    <3> QED
      BY <3>1, <3>2
  <2>2. CASE IsLocked
    <3>1. /\ UNCHANGED <<owner, noFailed, crowded, missed>>
          /\ val' = [val EXCEPT ![t] = SlowWord] /\ recursed' = (owner = t)
          /\ at' = [at EXCEPT ![t] = "sleep"]
      BY <1>2, <2>2 DEF lock_slow_rmw, SlowWord, LocksTwice
    <3>2. SlowWord[1] = owner /\ SlowWord[2] = FALSE /\ owner # None
      BY <2>2 DEF SlowWord
    <3>3. Announced'
      BY <3>1, <3>2
    <3>4. (MutualExclusion /\ NeverWaitsForItself)'
      BY <3>1
    <3>5. MissedIsMarked'
      BY <3>1
    <3> QED
      BY <3>3, <3>4, <3>5
  <2> QED
    BY <2>1, <2>2
<1>3. CASE ulock_wait_sleep(t)
  BY <1>3 DEF ulock_wait_sleep
<1>4. CASE ulock_wait_changed(t)
  BY <1>4 DEF ulock_wait_changed, NextAfter, OthersWait
<1>5. CASE ulock_wait_fault(t)
  BY <1>5 DEF ulock_wait_fault
<1>6. CASE ulock_wait_return(t)
  BY <1>6 DEF ulock_wait_return, NextAfter, OthersWait
<1>7. CASE unfair_lock_trylock(t)
  <2>1. CASE ~IsLocked
    <3>1. /\ owner' = t /\ noFailed' = TRUE /\ at' = [at EXCEPT ![t] = "held"]
          /\ UNCHANGED <<val, crowded, missed, recursed>>
      BY <1>7, <2>1 DEF unfair_lock_trylock
    <3>2. owner = None /\ ~missed
      BY <2>1
    <3> QED
      BY <3>1, <3>2
  <2>2. CASE IsLocked
    <3>1. /\ noFailed' = FALSE /\ missed' = TRUE /\ owner # None
          /\ UNCHANGED <<owner, at, val, crowded, recursed>>
      BY <1>7, <2>2 DEF unfair_lock_trylock
    <3>2. (MutualExclusion /\ NeverWaitsForItself /\ Announced)'
      BY <3>1
    <3>3. MissedIsMarked'
      BY <3>1
    <3> QED
      BY <3>2, <3>3
  <2> QED
    BY <2>1, <2>2
<1>8. CASE unfair_lock_tryunlock(t)
  <2>1. CASE noFailed
    <3>1. /\ owner' = None /\ missed' = FALSE
          /\ crowded' = [crowded EXCEPT ![t] = ~noWaiters]
          /\ at[t] = "held" /\ at' = [at EXCEPT ![t] = IF noWaiters THEN "idle" ELSE "wake"]
          /\ UNCHANGED <<val, recursed>>
      BY <1>8, <2>1 DEF unfair_lock_tryunlock, MayRelease, Release, Freed
    <3>2. (MutualExclusion /\ NeverWaitsForItself /\ MissedIsMarked)'
      BY <3>1
    <3>3. Announced'
      BY <3>1
    <3> QED
      BY <3>2, <3>3
  <2>2. CASE ~noFailed
    <3>1. /\ noFailed' = TRUE /\ missed' = FALSE
          /\ UNCHANGED <<owner, at, val, crowded, recursed>>
      BY <1>8, <2>2 DEF unfair_lock_tryunlock, MayRelease
    <3> QED
      BY <3>1
  <2> QED
    BY <2>1, <2>2
<1>9. CASE unfair_lock_unlock(t)
  BY <1>9 DEF unfair_lock_unlock, Release, Freed
<1>10. CASE unlock_slow(t)
  BY <1>10 DEF unlock_slow, Wakes
<1> QED
  BY <1>1, <1>2, <1>3, <1>4, <1>5, <1>6, <1>7, <1>8, <1>9, <1>10 DEF LockMoves, Inside

(* Every step leaves a waker for whoever is still blocked: the announcement  *)
(* goes from the word to the releaser, to the thread it wakes, and with that *)
(* thread back into the word.                                                *)
LEMMA LockWakerStep ==
    ASSUME LockInv, NEW t \in Lockers, ~recursed, LockMoves(t)
    PROVE  NoStrandedWaiter'
<1> USE NoneAssumption
    DEF LockInv, LockTypeOK, Words, Word, Zero, Labels, SetWord, Enter, IsLocked,
        NoStrandedWaiter, Waker
<1>1. CASE unfair_lock_lock(t)
  BY ZenonT(60), <1>1 DEF unfair_lock_lock
<1>2. CASE lock_slow_rmw(t)
  BY ZenonT(60), <1>2 DEF lock_slow_rmw, SlowWord
<1>3. CASE ulock_wait_sleep(t)
  BY <1>3 DEF ulock_wait_sleep, Announced
<1>4. CASE ulock_wait_changed(t)
  BY <1>4 DEF ulock_wait_changed, NextAfter, OthersWait
<1>5. CASE ulock_wait_fault(t)
  BY <1>5 DEF ulock_wait_fault
<1>6. CASE ulock_wait_return(t)
  BY <1>6 DEF ulock_wait_return, NextAfter, OthersWait
<1>7. CASE unfair_lock_trylock(t)
  BY ZenonT(60), <1>7 DEF unfair_lock_trylock
<1>8. CASE unfair_lock_tryunlock(t)
  BY ZenonT(60), <1>8 DEF unfair_lock_tryunlock, MayRelease, Release, Freed, MutualExclusion
<1>9. CASE unfair_lock_unlock(t)
  BY <1>9 DEF unfair_lock_unlock, Release, Freed, MutualExclusion
<1>10. CASE unlock_slow(t)
  BY <1>10 DEF unlock_slow, Wakes, Announced
<1> QED
  BY <1>1, <1>2, <1>3, <1>4, <1>5, <1>6, <1>7, <1>8, <1>9, <1>10 DEF LockMoves, Inside

(* The lock is sound: exclusive, and no blocked thread is ever without       *)
(* somebody who will wake it, whatever barges in, fails or faults.           *)
THEOREM UnfairLockSound == LockSpec => []LockInv
<1>1. LockInit => LockInv
  <2> SUFFICES ASSUME LockInit PROVE LockInv
    OBVIOUS
  <2> USE NoneAssumption DEF LockInit
  <2>1. LockTypeOK
    BY DEF LockTypeOK, Words, Word, Zero, Labels
  <2>2. MutualExclusion /\ NeverWaitsForItself /\ NoStrandedWaiter
    BY DEF MutualExclusion, NeverWaitsForItself, NoStrandedWaiter
  <2>3. Announced /\ MissedIsMarked
    BY DEF Announced, MissedIsMarked, IsLocked
  <2> QED
    BY <2>1, <2>2, <2>3 DEF LockInv
<1>2. LockInv /\ [LockNext]_lockVars => LockInv'
  <2> SUFFICES ASSUME LockInv, [LockNext]_lockVars PROVE LockInv'
    OBVIOUS
  <2>1. CASE LockNext
    <3>1. PICK t \in Lockers : LockMoves(t) /\ ~recursed
      BY <2>1 DEF LockNext, LockMoves
    <3> QED
      BY <3>1, LockTypeStep, LockWordStep, LockWakerStep DEF LockInv
  <2>2. CASE UNCHANGED lockVars
    BY <2>2 DEF lockVars, LockInv, LockTypeOK, Word, MutualExclusion, NeverWaitsForItself,
                NoStrandedWaiter, Waker, Announced, MissedIsMarked, IsLocked
  <2> QED
    BY <2>1, <2>2
<1> QED
  BY <1>1, <1>2, PTL DEF LockSpec

(* tryunlock and unlock never give the lock up over the head of a thread     *)
(* whose trylock failed: the release says whether there was one.             *)
THEOREM UnfairLockReports == LockSpec => FailedTrylockReported
<1>1. LockInv /\ [LockNext]_lockVars =>
        [owner # None /\ owner' = None => told' = missed]_lockVars
  <2> SUFFICES ASSUME LockInv, LockNext, owner # None, owner' = None
               PROVE  told' = missed
    OBVIOUS
  <2>1. PICK t \in Lockers : LockMoves(t)
    BY DEF LockNext, LockMoves
  <2> USE NoneAssumption DEF LockInv, LockTypeOK, IsLocked, SetWord, Word, Zero, MissedIsMarked
  <2>2. CASE unfair_lock_tryunlock(t)
    BY <2>2 DEF unfair_lock_tryunlock, MayRelease, Release, Freed
  <2>3. CASE unfair_lock_unlock(t)
    BY <2>3 DEF unfair_lock_unlock, Release, Freed
  <2>4. CASE Inside(t) \/ unfair_lock_lock(t) \/ unfair_lock_trylock(t)
    BY <2>4 DEF Inside, unfair_lock_lock, unfair_lock_trylock, lock_slow_rmw, SlowWord,
                ulock_wait_sleep, ulock_wait_changed, ulock_wait_fault,
                ulock_wait_return, unlock_slow
  <2> QED
    BY <2>1, <2>2, <2>3, <2>4 DEF LockMoves
<1> QED
  BY <1>1, UnfairLockSound, PTL DEF LockSpec, FailedTrylockReported

-----------------------------------------------------------------------------
(* The state field of the gate tells its three forms apart.                  *)
LEMMA GateWord ==
    ASSUME TypeOK
    PROVE  /\ dgo_once = Done <=> dgo_once.st = "done"
           /\ dgo_once = Unlocked <=> dgo_once.st = "unlocked"
<1>1. dgo_once = [st |-> dgo_once.st, owner |-> dgo_once.owner, waiters |-> dgo_once.waiters]
  BY DEF TypeOK, Gates
<1>2. dgo_once.st # "locked" => dgo_once.owner = NoThread /\ dgo_once.waiters = FALSE
  BY DEF TypeOK, Gates
<1> QED
  BY <1>1, <1>2 DEF Done, Unlocked

(* _dispatch_gate_wait_slow leaves the gate locked by the same thread, and    *)
(* sets the waiters bit, unless the block has completed.                     *)
LEMMA GateMark ==
    ASSUME GateInv, NEW t \in Threads, gate_mark(t)
    PROVE  \/ /\ dgo_once.st = "done" /\ pc' = [pc EXCEPT ![t] = "done"]
              /\ UNCHANGED <<dgo_once, tid_new, crashed, runs, completed>>
           \/ /\ dgo_once.st = "locked"
              /\ dgo_once' \in Gates /\ dgo_once'.st = "locked"
              /\ dgo_once'.owner = dgo_once.owner /\ dgo_once'.waiters
              /\ tid_new' = [tid_new EXCEPT ![t] = dgo_once']
              /\ crashed' = (dgo_once.owner = t)
              /\ pc' = [pc EXCEPT ![t] = "sleep"]
              /\ UNCHANGED <<runs, completed>>
<1>0. TypeOK /\ dgo_once \in Gates /\ pc[t] = "mark" /\ runs = 1
  BY DEF GateInv, TypeOK, gate_mark, CallsInOrder
<1>1. CASE IsDone(dgo_once)
  BY <1>0, <1>1, GateWord DEF gate_mark, Goto, IsDone, block
<1>2. CASE ~IsDone(dgo_once)
  <2>1. dgo_once.st = "locked"
    BY <1>0, <1>2, GateWord DEF GateInv, BlockProgress, IsDone, Gates
  <2>2. dgo_once' = [dgo_once EXCEPT !.waiters = TRUE]
    BY <1>2 DEF gate_mark, Mark
  <2>3. /\ dgo_once' \in Gates /\ dgo_once'.st = "locked"
        /\ dgo_once'.owner = dgo_once.owner /\ dgo_once'.waiters
    BY <1>0, <2>1, <2>2 DEF Gates
  <2> QED
    BY <1>2, <2>1, <2>2, <2>3 DEF gate_mark, Goto, Mark, IsOwner, block
<1> QED
  BY <1>1, <1>2

(* Every step of a caller of dispatch_once keeps the types, the progress of   *)
(* the block and the order of the calls.                                     *)
LEMMA GateProgressStep ==
    ASSUME GateInv, NEW t \in Threads, ~crashed, dispatch_once(t) \/ Step(t)
    PROVE  (TypeOK /\ BlockProgress /\ RunnerOwns /\ CallsInOrder)'
<1> USE GateAssumption DEF GateInv, TypeOK, Gates, BlockProgress, RunnerOwns, CallsInOrder
<1>1. CASE dispatch_once(t)
  BY <1>1 DEF dispatch_once, Goto, block, Done
<1>2. CASE gate_tryenter(t)
  <2>1. CASE CanEnter(dgo_once)
    <3>1. dgo_once.st = "unlocked" /\ runs = 0 /\ completed = 0
      BY <2>1 DEF CanEnter, Unlocked
    <3>2. /\ dgo_once' = [st |-> "locked", owner |-> t, waiters |-> FALSE]
          /\ pc' = [pc EXCEPT ![t] = "run"] /\ runs' = 1
          /\ UNCHANGED <<tid_new, completed, crashed>>
      BY <1>2, <2>1, <3>1 DEF gate_tryenter, Goto, Locked
    <3>3. \A u \in Threads : pc[u] \notin {"run", "broadcast", "wakeAll", "done"}
      BY <3>1
    <3> QED
      BY <3>1, <3>2, <3>3
  <2>2. CASE ~CanEnter(dgo_once)
    <3>1. runs = 1
      BY <2>2, GateWord DEF CanEnter
    <3>2. /\ pc' = [pc EXCEPT ![t] = "mark"]
          /\ UNCHANGED <<dgo_once, tid_new, runs, completed, crashed>>
      BY <1>2, <2>2 DEF gate_tryenter, Goto
    <3> QED
      BY <3>1, <3>2
  <2> QED
    BY <2>1, <2>2
<1>3. CASE gate_callout(t)
  BY <1>3 DEF gate_callout, Goto
<1>4. CASE gate_broadcast(t)
  BY <1>4 DEF gate_broadcast, Goto, block, Done
<1>5. CASE gate_wakeAll(t)
  BY <1>5 DEF gate_wakeAll, block
<1>6. CASE gate_mark(t)
  BY <1>6, GateMark
<1>7. CASE gate_sleep(t)
  BY <1>7 DEF gate_sleep, Goto, block
<1> QED
  BY <1>1, <1>2, <1>3, <1>4, <1>5, <1>6, <1>7 DEF Step

(* Every step keeps a waker for every thread blocked in                       *)
(* _dispatch_gate_wait_slow: the runner sees the waiters bit when it          *)
(* broadcasts, or the kernel refuses to block the waiter.                    *)
LEMMA GateWakerStep ==
    ASSUME GateInv, NEW t \in Threads, ~crashed, dispatch_once(t) \/ Step(t)
    PROVE  (SleepersMarked /\ BlockedHasWaker)'
<1> USE GateAssumption DEF GateInv, TypeOK, Gates, SleepersMarked, BlockedHasWaker
<1>1. CASE dispatch_once(t)
  BY <1>1 DEF dispatch_once, Goto, block
<1>2. CASE gate_tryenter(t)
  BY <1>2 DEF gate_tryenter, Goto, CanEnter, Locked, Unlocked, CallsInOrder, BlockProgress
<1>3. CASE gate_callout(t)
  BY <1>3 DEF gate_callout, Goto
<1>4. CASE gate_broadcast(t)
  BY <1>4 DEF gate_broadcast, Goto, block, HasWaiters, Locked, RunnerOwns
<1>5. CASE gate_wakeAll(t)
  BY <1>5 DEF gate_wakeAll, block
<1>6. CASE gate_mark(t)
  <2>1. CASE dgo_once.st = "done"
    <3>1. /\ pc' = [pc EXCEPT ![t] = "done"] /\ pc[t] = "mark"
          /\ UNCHANGED <<dgo_once, tid_new, crashed>>
      BY <1>6, <2>1, GateMark DEF gate_mark
    <3> QED
      BY <3>1
  <2>2. CASE dgo_once.st # "done"
    <3>1. /\ pc' = [pc EXCEPT ![t] = "sleep"] /\ pc[t] = "mark"
          /\ tid_new' = [tid_new EXCEPT ![t] = dgo_once']
          /\ dgo_once'.st = "locked" /\ dgo_once'.waiters
          /\ dgo_once'.owner = dgo_once.owner
          /\ crashed' = (dgo_once.owner = t)
      BY <1>6, <2>2, GateMark DEF gate_mark
    <3>2. SleepersMarked'
      BY ZenonT(60), <3>1
    <3>3. BlockedHasWaker'
      BY <3>1
    <3> QED
      BY <3>2, <3>3
  <2> QED
    BY <2>1, <2>2
<1>7. CASE gate_sleep(t)
  BY <1>7 DEF gate_sleep, Goto, StillLocked, block
<1> QED
  BY <1>1, <1>2, <1>3, <1>4, <1>5, <1>6, <1>7 DEF Step

(* The gate starts unlocked, with every caller outside.                      *)
LEMMA GateInit == Init => GateInv
<1> SUFFICES ASSUME Init PROVE GateInv
  OBVIOUS
<1>1. Unlocked \in Gates /\ Unlocked.st = "unlocked" /\ Unlocked.owner = NoThread
        /\ ~Unlocked.waiters
  BY DEF Unlocked, Gates
<1>2. TypeOK
  <2>1. dgo_once \in Gates /\ tid_new \in [Threads -> Gates] /\ ~dgo_once.waiters
          /\ dgo_once.st # "locked" /\ dgo_once.owner = NoThread
    BY <1>1 DEF Init
  <2>2. runs \in 0..1 /\ completed \in 0..1
    BY SMT DEF Init
  <2>5. crashed \in BOOLEAN
    BY Zenon DEF Init
  <2>3. pc \in [Threads -> {"idle", "tryenter", "run", "broadcast", "wakeAll",
                             "mark", "sleep", "blocked", "done"}]
    BY DEF Init
  <2>4. dgo_once.st = "locked" <=> dgo_once.owner # NoThread
    BY <2>1
  <2> QED
    BY <2>1, <2>2, <2>3, <2>4, <2>5, Zenon DEF TypeOK
<1>3. BlockProgress /\ RunnerOwns /\ CallsInOrder /\ SleepersMarked /\ BlockedHasWaker
  BY <1>1 DEF Init, BlockProgress, RunnerOwns, CallsInOrder, SleepersMarked, BlockedHasWaker
<1> QED
  BY <1>2, <1>3 DEF GateInv

(* Every step of a caller is a step of the abstract Once, or changes nothing  *)
(* of it: only entering the gate starts the block, and only the end of the    *)
(* callout finishes it.                                                      *)
LEMMA GateAbsStep == GateInv /\ [Next]_vars => [Abs!Next]_(Abs!vars)
<1> SUFFICES ASSUME GateInv, [Next]_vars PROVE [Abs!Next]_(Abs!vars)
  OBVIOUS
<1> DEFINE calls == [t \in Threads |-> IF pc[t] = "idle" THEN "out"
                                       ELSE IF pc[t] = "done" THEN "returned" ELSE "in"]
           blk == IF completed > 0 THEN "done" ELSE IF runs > 0 THEN "running" ELSE "not_run"
<1> USE DEF GateInv, TypeOK, BlockProgress, RunnerOwns, CallsInOrder
<1>1. CASE UNCHANGED vars
  BY <1>1 DEF vars, Abs!vars
<1>2. ASSUME NEW t \in Threads, dispatch_once(t) PROVE [Abs!Next]_(Abs!vars)
  <2>1. CASE dgo_once = Done
    <3>1. blk = "done" /\ blk' = blk
      BY <1>2, <2>1 DEF dispatch_once, block, Done
    <3>2. calls[t] = "out" /\ calls' = [calls EXCEPT ![t] = "returned"]
      BY <1>2, <2>1 DEF dispatch_once, Goto
    <3> QED BY <3>1, <3>2 DEF Abs!Next, Abs!Skip, Abs!Move
  <2>2. CASE dgo_once # Done
    <3>1. blk' = blk
      BY <1>2 DEF dispatch_once, block
    <3>2. calls[t] = "out" /\ calls' = [calls EXCEPT ![t] = "in"]
      BY <1>2, <2>2 DEF dispatch_once, Goto
    <3> QED BY <3>1, <3>2 DEF Abs!Next, Abs!Call, Abs!Move
  <2> QED BY <2>1, <2>2
<1>3. ASSUME NEW t \in Threads, gate_tryenter(t) PROVE [Abs!Next]_(Abs!vars)
  <2>1. calls[t] = "in" /\ calls' = calls
    BY ZenonT(60), <1>3 DEF gate_tryenter, Goto
  <2>2. blk' = blk \/ (blk = "not_run" /\ blk' = "running")
    <3>1. CASE CanEnter(dgo_once)
      <4>1. runs = 0 /\ completed = 0
        BY <3>1 DEF CanEnter, Unlocked
      <4> QED BY <1>3, <3>1, <4>1 DEF gate_tryenter
    <3>2. CASE ~CanEnter(dgo_once)
      BY <1>3, <3>2 DEF gate_tryenter
    <3> QED BY <3>1, <3>2
  <2> QED BY <2>1, <2>2 DEF Abs!Next, Abs!Start, Abs!vars
<1>4. ASSUME NEW t \in Threads, gate_callout(t) PROVE [Abs!Next]_(Abs!vars)
  <2>1. calls' = calls
    BY <1>4 DEF gate_callout, Goto
  <2>2. blk' = blk \/ (blk = "running" /\ blk' = "done")
    BY <1>4 DEF gate_callout
  <2> QED BY <2>1, <2>2 DEF Abs!Next, Abs!Finish, Abs!vars
<1>5. ASSUME NEW t \in Threads,
             gate_broadcast(t) \/ gate_wakeAll(t) \/ gate_mark(t) \/ gate_sleep(t)
      PROVE  [Abs!Next]_(Abs!vars)
  <2>1. blk' = blk
    BY <1>5 DEF gate_broadcast, gate_wakeAll, gate_mark, gate_sleep, block
  <2>2. calls' = calls \/ (blk = "done" /\ calls[t] = "in"
                             /\ calls' = [calls EXCEPT ![t] = "returned"])
    <3>1. CASE gate_broadcast(t)
      <4>1. pc[t] = "broadcast" /\ completed = 1
        BY <3>1 DEF gate_broadcast
      <4>2. pc' = [pc EXCEPT ![t] = "wakeAll"] \/ pc' = [pc EXCEPT ![t] = "done"]
        BY <3>1 DEF gate_broadcast, Goto
      <4>3. calls[t] = "in" /\ blk = "done"
        BY <4>1
      <4>4. CASE pc' = [pc EXCEPT ![t] = "wakeAll"]
        <5>1. calls' = calls
          BY <4>1, <4>4
        <5> QED BY <5>1
      <4>5. CASE pc' = [pc EXCEPT ![t] = "done"]
        <5>1. calls' = [calls EXCEPT ![t] = "returned"]
          BY <4>5
        <5> QED BY <4>3, <5>1
      <4> QED BY <4>2, <4>4, <4>5
    <3>2. CASE gate_wakeAll(t)
      <4>1. pc[t] = "wakeAll" /\ completed = 1
        BY <3>2 DEF gate_wakeAll
      <4>2. \A u \in Threads : pc'[u] = IF u = t THEN "done"
                                        ELSE IF pc[u] = "blocked" THEN "mark" ELSE pc[u]
        BY <3>2 DEF gate_wakeAll
      <4>3. calls' = [calls EXCEPT ![t] = "returned"]
        BY ZenonT(60), <4>2
      <4> QED BY <4>1, <4>3
    <3>3. CASE gate_mark(t)
      <4>1. pc[t] = "mark"
        BY <3>3 DEF gate_mark
      <4>2. CASE dgo_once.st = "done"
        <5>1. completed = 1 /\ pc' = [pc EXCEPT ![t] = "done"]
          BY <3>3, <4>2, GateMark
        <5>2. calls[t] = "in" /\ blk = "done"
          BY <4>1, <5>1
        <5>3. calls' = [calls EXCEPT ![t] = "returned"]
          BY <5>1
        <5> QED BY <5>2, <5>3
      <4>3. CASE dgo_once.st # "done"
        <5>1. pc' = [pc EXCEPT ![t] = "sleep"]
          BY <3>3, <4>3, GateMark
        <5> QED BY <4>1, <5>1
      <4> QED BY <4>2, <4>3
    <3>4. CASE gate_sleep(t)
      BY <3>4 DEF gate_sleep, Goto
    <3> QED BY <1>5, <3>1, <3>2, <3>3, <3>4
  <2> QED BY <2>1, <2>2 DEF Abs!Next, Abs!Return, Abs!Move, Abs!vars
<1> QED
  BY <1>1, <1>2, <1>3, <1>4, <1>5 DEF Next, Step

-----------------------------------------------------------------------------
ListMoves(t) == List!dispatch_once(t) \/ List!Step(t)

(* The predicate follows the one runner through its call.                     *)
LEMMA ListRunnerStep ==
    ASSUME List!ListInv, NEW t \in Threads, ListMoves(t)
    PROVE  List!OneRunner'
<1> USE GateAssumption, DoneAssumption DEF List!Runner, List!ListInv, List!TypeOK, List!OneRunner,
        List!Goto, List!nodes, List!block
<1>1. CASE List!dispatch_once(t)
  BY <1>1 DEF List!dispatch_once
<1>2. CASE List!once_enter(t)
  <2>1. CASE List!FirstCaller(t)
    BY <1>2, <2>1 DEF List!once_enter, List!FirstCaller
  <2>2. CASE ~List!FirstCaller(t)
    BY <1>2, <2>2 DEF List!once_enter, List!FirstCaller
  <2> QED BY <2>1, <2>2
<1>3. CASE List!once_callout(t)
  BY <1>3 DEF List!once_callout
<1>4. CASE List!once_publish(t)
  BY <1>4 DEF List!once_publish, List!WalkLabel
<1>5. CASE List!once_walk(t)
  BY <1>5 DEF List!once_walk
<1>6. CASE List!once_signal(t)
  BY <1>6 DEF List!once_signal, List!WalkLabel
<1>7. CASE List!once_wake(t)
  BY <1>7 DEF List!once_wake, List!WalkLabel, List!Chain, List!Pushed
<1>8. CASE List!once_init(t) \/ List!once_readThread(t) \/ List!once_link(t)
  BY <1>8 DEF List!once_init, List!once_readThread, List!once_link
<1>9. CASE List!once_push(t)
  BY <1>9 DEF List!once_push, List!Nodes
<1>10. CASE List!once_wait(t)
  BY <1>10 DEF List!once_wait, List!WaitDone, List!Nodes, List!Pushed, List!Slow, List!Signalled
<1>11. CASE List!once_waitSlow(t) \/ List!once_ulock(t)
  BY <1>11 DEF List!once_waitSlow, List!once_ulock, List!Nodes, List!Pushed, List!Slow, List!Signalled
<1> HIDE DEF List!Runner, List!ListInv, List!TypeOK, List!OneRunner, List!Goto, List!nodes,
      List!block
<1> QED
  BY <1>1, <1>2, <1>3, <1>4, <1>5, <1>6, <1>7, <1>8, <1>9, <1>10, <1>11 DEF ListMoves, List!Step

(* The nodes: their links, and what was signalled.                            *)
LEMMA ListNodesStep ==
    ASSUME List!ListInv, NEW t \in Threads, ListMoves(t)
    PROVE  (List!TypeOK /\ List!Nodes)'
<1> USE GateAssumption, DoneAssumption DEF List!Pushed, List!Slow, List!Signalled, List!ListInv, List!TypeOK, List!Nodes,
        List!Goto, List!nodes, List!block
<1>1. CASE List!dispatch_once(t)
  BY <1>1 DEF List!dispatch_once, List!OneRunner
<1>2. CASE List!once_enter(t)
  <2>1. CASE List!FirstCaller(t)
    BY <1>2, <2>1 DEF List!once_enter, List!FirstCaller, List!OneRunner
  <2>2. CASE ~List!FirstCaller(t)
    BY <1>2, <2>2 DEF List!once_enter, List!FirstCaller
  <2> QED BY <2>1, <2>2
<1>3. CASE List!once_callout(t)
  BY <1>3 DEF List!once_callout, List!OneRunner
<1>4. CASE List!once_publish(t)
  BY <1>4 DEF List!once_publish, List!WalkLabel, List!OneRunner
<1>5. CASE List!once_walk(t)
  BY <1>5 DEF List!once_walk, List!OneRunner, List!Chain, List!OnTheWay, List!Pending
<1>6. CASE List!once_signal(t)
  BY <1>6 DEF List!once_signal, List!WalkLabel, List!Chain, List!OneRunner
<1>7. CASE List!once_wake(t)
  BY <1>7 DEF List!once_wake, List!WalkLabel, List!Chain
<1>8. CASE List!once_init(t)
  BY <1>8 DEF List!once_init, List!OneRunner
<1>12. CASE List!once_readThread(t)
  BY <1>12 DEF List!once_readThread
<1>13. CASE List!once_link(t)
  BY <1>13 DEF List!once_link, List!Chain, List!Pending, List!InHand
<1>9. CASE List!once_push(t)
  BY <1>9 DEF List!once_push, List!OneRunner
<1>10. CASE List!once_wait(t)
  BY <1>10 DEF List!once_wait, List!WaitDone
<1>11. CASE List!once_waitSlow(t) \/ List!once_ulock(t)
  BY SMTT(60), <1>11 DEF List!once_waitSlow, List!once_ulock
<1> HIDE DEF List!Pushed, List!Slow, List!Signalled, List!ListInv, List!TypeOK, List!Nodes,
      List!Goto, List!nodes, List!block
<1> QED
  BY <1>1, <1>2, <1>3, <1>4, <1>5, <1>6, <1>7, <1>8, <1>9, <1>10, <1>11, <1>12, <1>13 DEF ListMoves, List!Step

(* The nodes that are still to be signalled stay one chain to the runner.     *)
LEMMA ListChainStep ==
    ASSUME List!ListInv, NEW t \in Threads, ListMoves(t)
    PROVE  List!Chain'
<1> USE GateAssumption, DoneAssumption DEF List!Pushed, List!Slow, List!Signalled, List!Runner,
        List!Pending, List!InHand, List!OnTheWay, List!ListInv, List!TypeOK, List!OneRunner,
        List!Nodes, List!Chain, List!Goto, List!nodes, List!block
<1>1. CASE List!dispatch_once(t)
  BY <1>1 DEF List!dispatch_once
<1>2. CASE List!once_enter(t)
  <2>1. CASE List!FirstCaller(t)
    BY <1>2, <2>1 DEF List!once_enter, List!FirstCaller
  <2>2. CASE ~List!FirstCaller(t)
    BY SMTT(60), <1>2, <2>2 DEF List!once_enter, List!FirstCaller
  <2> QED BY <2>1, <2>2
<1>3. CASE List!once_callout(t)
  BY <1>3 DEF List!once_callout
<1>4. CASE List!once_publish(t)
  BY <1>4 DEF List!once_publish, List!WalkLabel
<1>5. CASE List!once_walk(t)
  BY SMTT(60), <1>5 DEF List!once_walk
<1>6. CASE List!once_signal(t)
  BY <1>6 DEF List!once_signal, List!WalkLabel
<1>7. CASE List!once_wake(t)
  BY SMTT(60), <1>7 DEF List!once_wake, List!WalkLabel
<1>8. CASE List!once_init(t)
  BY <1>8 DEF List!once_init
<1>12. CASE List!once_readThread(t)
  BY <1>12 DEF List!once_readThread
<1>13. CASE List!once_link(t)
  BY <1>13 DEF List!once_link
<1>9. CASE List!once_push(t)
  BY SMTT(60), <1>9 DEF List!once_push
<1>10. CASE List!once_wait(t)
  BY <1>10 DEF List!once_wait, List!WaitDone
<1>11. CASE List!once_waitSlow(t) \/ List!once_ulock(t)
  BY SMTT(60), <1>11 DEF List!once_waitSlow, List!once_ulock
<1> HIDE DEF List!Pushed, List!Slow, List!Signalled, List!Runner, List!Pending, List!InHand,
      List!OnTheWay, List!ListInv, List!TypeOK, List!OneRunner, List!Nodes, List!Chain,
      List!Goto, List!nodes, List!block
<1> QED
  BY <1>1, <1>2, <1>3, <1>4, <1>5, <1>6, <1>7, <1>8, <1>9, <1>10, <1>11, <1>12, <1>13 DEF ListMoves, List!Step

(* The list starts empty, with every caller outside.                         *)
LEMMA ListInit == List!Init => List!ListInv
<1> SUFFICES ASSUME List!Init PROVE List!ListInv
  OBVIOUS
<1> USE GateAssumption, DoneAssumption DEF List!Init
<1>1. List!TypeOK
  <2>1. /\ dte_value \in [Threads -> -1..1] /\ runs \in 0..1 /\ completed \in 0..1
    BY SMT
  <2> QED
    BY <2>1 DEF List!TypeOK
<1>2. List!OneRunner
  BY DEF List!OneRunner, List!Runner
<1>3. List!Nodes
  BY DEF List!Nodes, List!Pushed, List!Slow, List!Signalled
<1>4. List!Chain
  BY DEF List!Chain, List!OnTheWay, List!Pending, List!Pushed
<1> QED
  BY <1>1, <1>2, <1>3, <1>4 DEF List!ListInv

(* Every step on the list is a step of the abstract Once, or changes nothing  *)
(* of it: the first caller starts the block, the end of the callout finishes  *)
(* it, and whoever leaves finds the predicate done.                          *)
LEMMA ListAbsStep ==
    ASSUME List!ListInv, List!ListInv', NEW t \in Threads, ListMoves(t)
    PROVE  [Abs!Next]_(Abs!vars)
<1> DEFINE calls == [u \in Threads |-> IF pc[u] = "idle" THEN "out"
                                       ELSE IF pc[u] = "done" THEN "returned" ELSE "in"]
           blk == IF completed > 0 THEN "done" ELSE IF runs > 0 THEN "running" ELSE "not_run"
<1> USE DEF List!ListInv, List!TypeOK, List!OneRunner, List!Goto, List!block
<1>1. ASSUME blk' = blk, NEW l, pc' = [pc EXCEPT ![t] = l], l = "done" => completed' = 1,
             pc[t] # "done", l # "idle"
      PROVE  [Abs!Next]_(Abs!vars)
  <2>1. CASE l = "done"
    <3>1. completed' = 1
      BY <1>1, <2>1
    <3>2. blk = "done"
      BY <1>1, <3>1
    <3>3. calls[t] \in {"in", "out"} /\ calls' = [calls EXCEPT ![t] = "returned"]
      BY <1>1, <2>1
    <3> QED
      BY <1>1, <3>2, <3>3 DEF Abs!Next, Abs!Skip, Abs!Return, Abs!Move
  <2>2. CASE l # "done" /\ pc[t] = "idle"
    <3>1. calls[t] = "out" /\ calls' = [calls EXCEPT ![t] = "in"]
      BY <1>1, <2>2
    <3> QED
      BY <1>1, <3>1 DEF Abs!Next, Abs!Call, Abs!Move
  <2>3. CASE l # "done" /\ pc[t] # "idle"
    <3>1. calls' = calls
      BY <1>1, <2>3
    <3> QED
      BY <1>1, <3>1 DEF Abs!vars
  <2> QED
    BY <2>1, <2>2, <2>3
<1>2. CASE List!once_enter(t) /\ List!FirstCaller(t)
  <2>1. blk = "not_run" /\ blk' = "running" /\ calls[t] = "in" /\ calls' = calls
    BY <1>2 DEF List!once_enter, List!FirstCaller
  <2> QED
    BY <2>1 DEF Abs!Next, Abs!Start
<1>3. CASE List!once_callout(t)
  <2>1. blk = "running" /\ blk' = "done" /\ calls' = calls
    BY <1>3 DEF List!once_callout
  <2> QED
    BY <2>1 DEF Abs!Next, Abs!Finish
<1>4. CASE List!once_wake(t)
  <2>1. pc[t] = "wake" /\ completed = 1 /\ UNCHANGED <<runs, completed>>
    BY <1>4 DEF List!once_wake
  <2>2. \A u \in Threads \ {t} :
          pc'[u] = pc[u] \/ (pc[u] = "asleep" /\ pc'[u] = "waitSlow")
    BY <1>4 DEF List!once_wake
  <2>3. pc'[t] \in {"walk", "done"}
    BY <1>4 DEF List!once_wake, List!WalkLabel
  <2>4. CASE pc'[t] = "walk"
    <3>1. calls' = calls
      BY <2>1, <2>2, <2>4
    <3> QED
      BY <2>1, <3>1 DEF Abs!vars
  <2>5. CASE pc'[t] = "done"
    <3>1. calls' = [calls EXCEPT ![t] = "returned"] /\ calls[t] = "in"
      BY ZenonT(60), <2>1, <2>2, <2>5
    <3>2. blk = "done" /\ blk' = blk
      BY <2>1
    <3> QED
      BY <3>1, <3>2 DEF Abs!Next, Abs!Return, Abs!Move
  <2> QED
    BY <2>3, <2>4, <2>5
<1>5. CASE \/ List!dispatch_once(t) \/ (List!once_enter(t) /\ ~List!FirstCaller(t))
           \/ List!once_publish(t) \/ List!once_walk(t) \/ List!once_signal(t)
           \/ List!once_init(t) \/ List!once_push(t) \/ List!once_readThread(t)
           \/ List!once_link(t) \/ List!once_wait(t) \/ List!once_waitSlow(t)
           \/ List!once_ulock(t)
  <2>1. runs' = runs /\ completed' = completed /\ pc[t] # "done"
    BY <1>5 DEF List!dispatch_once, List!once_enter, List!once_publish, List!once_walk,
         List!once_signal, List!once_init, List!once_push, List!once_readThread,
         List!once_link, List!once_wait, List!once_waitSlow, List!once_ulock
  <2>2. \/ \E l : l # "idle" /\ pc' = [pc EXCEPT ![t] = l]
        \/ pc' = pc
    BY <1>5 DEF List!dispatch_once, List!once_enter, List!once_publish, List!once_walk,
         List!once_signal, List!once_init, List!once_push, List!once_readThread,
         List!once_link, List!once_wait, List!once_waitSlow, List!once_ulock, List!WalkLabel
  <2>3. CASE pc' = pc
    BY <2>1, <2>3 DEF Abs!vars
  <2>4. ASSUME NEW l, l # "idle", pc' = [pc EXCEPT ![t] = l]
        PROVE  [Abs!Next]_(Abs!vars)
    <3>1. pc'[t] = l
      BY <2>4
    <3>2. l = "done" => completed' = 1
      BY <3>1
    <3> QED
      BY <1>1, <2>1, <2>4, <3>2
  <2> QED
    BY <2>2, <2>3, <2>4
<1> HIDE DEF List!ListInv, List!TypeOK, List!OneRunner, List!Goto, List!block
<1> QED
  BY <1>2, <1>3, <1>4, <1>5 DEF ListMoves, List!Step

-----------------------------------------------------------------------------
(* BuildInv is inductive: each build keeps its own invariant, and which build *)
(* it is never changes.                                                      *)
THEOREM OnceInvariant == BuildSpec => []BuildInv
<1>1. BuildInit => BuildInv
  BY GateInit, ListInit DEF BuildInit, BuildInv
<1>2. BuildInv /\ [BuildNext]_buildVars => BuildInv'
  <2>1. ASSUME build = "gate", GateInv, BuildNext PROVE BuildInv'
    BY <2>1, GateProgressStep, GateWakerStep DEF BuildNext, GateBuild, ListBuild, Next, GateInv, BuildInv
  <2>2. ASSUME build = "list", List!ListInv, BuildNext PROVE BuildInv'
    <3>1. PICK t \in Threads : ListMoves(t)
      BY <2>2 DEF BuildNext, GateBuild, ListBuild, List!Next, ListMoves
    <3> QED
      BY <2>2, <3>1, ListRunnerStep, ListNodesStep, ListChainStep
      DEF BuildNext, GateBuild, ListBuild, List!ListInv, BuildInv
  <2>3. ASSUME BuildInv, UNCHANGED buildVars PROVE BuildInv'
    <3>1. build' = build
      BY <2>3 DEF buildVars
    <3>2. GateInv => GateInv'
      BY <2>3 DEF buildVars, vars, GateInv, TypeOK, BlockProgress, RunnerOwns, CallsInOrder,
                  SleepersMarked, BlockedHasWaker
    <3>3. List!TypeOK /\ List!OneRunner => (List!TypeOK /\ List!OneRunner)'
      BY <2>3 DEF buildVars, vars, listVars, List!TypeOK, List!OneRunner, List!Runner
    <3>4. List!Nodes => List!Nodes'
      BY <2>3 DEF buildVars, vars, listVars, List!Nodes, List!Pushed, List!Slow, List!Signalled
    <3>5. List!Chain => List!Chain'
      BY <2>3 DEF buildVars, vars, listVars, List!Chain, List!OnTheWay, List!Pending, List!InHand,
                  List!Pushed, List!Signalled, List!Slow, List!Runner
    <3> QED
      BY <2>3, <3>1, <3>2, <3>3, <3>4, <3>5 DEF BuildInv, List!ListInv
  <2> QED
    BY <2>1, <2>2, <2>3 DEF BuildInv
<1> QED
  BY <1>1, <1>2, PTL DEF BuildSpec

(* A thread blocked on the gate always has a runner that will wake it; on the *)
(* list nobody blocks on a gate.                                             *)
THEOREM OnceBlockedHasWaker == BuildSpec => []BlockedHasWaker
<1>1. BuildInv => BlockedHasWaker
  BY DEF BuildInv, GateInv, List!ListInv, List!TypeOK, BlockedHasWaker
<1> QED
  BY <1>1, OnceInvariant, PTL

(* dispatch_once_f never reads or signals a node of the list whose call has   *)
(* returned, and every event is settled when its call ends.                  *)
THEOREM OnceNoDeadNode == BuildSpec => []NoDeadNode
<1>1. ASSUME BuildInv, build = "list" PROVE List!NoDeadNode /\ List!EventsSettled
  <2> USE DoneAssumption, GateAssumption, <1>1
      DEF BuildInv, List!ListInv, List!TypeOK, List!OneRunner, List!Runner, List!Nodes,
          List!Pushed, List!Slow, List!Signalled, List!Chain, List!OnTheWay, List!Pending,
          List!InHand
  <2>1. List!NoDeadNode
    BY DEF List!NoDeadNode, List!InCall
  <2>2. List!EventsSettled
    BY DEF List!EventsSettled
  <2> QED
    BY <2>1, <2>2
<1> QED
  BY <1>1, OnceInvariant, PTL DEF NoDeadNode

(* Both builds of dispatch_once implement Once: whatever the interleaving of  *)
(* the callers, the block runs once and every call that returns does so after *)
(* the block has completed.                                                  *)
THEOREM OnceImplementsOnce == BuildSpec => AbsSpec
<1>1. BuildInit => Abs!Init
  BY DEF BuildInit, Init, Abs!Init
<1>2. BuildInv /\ BuildInv' /\ [BuildNext]_buildVars => [Abs!Next]_(Abs!vars)
  <2>1. ASSUME BuildInv, GateBuild(Next) PROVE [Abs!Next]_(Abs!vars)
    BY <2>1, GateAbsStep DEF GateBuild, BuildInv
  <2>2. ASSUME BuildInv, BuildInv', ListBuild(List!Next) PROVE [Abs!Next]_(Abs!vars)
    BY <2>2, ListAbsStep DEF ListBuild, List!Next, ListMoves, BuildInv
  <2>3. ASSUME UNCHANGED buildVars PROVE [Abs!Next]_(Abs!vars)
    BY <2>3 DEF buildVars, vars, Abs!vars
  <2> QED
    BY <2>1, <2>2, <2>3 DEF BuildNext
<1> QED
  BY <1>1, <1>2, OnceInvariant, PTL DEF BuildSpec, AbsSpec, Abs!Spec
=============================================================================
