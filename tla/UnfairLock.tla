----------------------------- MODULE UnfairLock -----------------------------
(* The unfair lock of src/shims/lock.c and lock.h, in the build whose kernel *)
(* offers UL_UNFAIR_LOCK: the side lock of every queue, and the lock of the  *)
(* vouchers, the mach replies and the introspection lists. One word holds    *)
(* the owner and two inverted bits; the kernel queues the blocked threads    *)
(* and compares the word before it blocks one.                               *)
EXTENDS Naturals, FiniteSets

CONSTANTS Lockers,   \* the threads that use the lock
          None       \* DLOCK_OWNER_NULL
ASSUME NoneAssumption == None \notin Lockers

VARIABLES owner,      \* the owner field of dul_lock
          noWaiters,  \* DLOCK_NOWAITERS_BIT
          noFailed,   \* DLOCK_NOFAILED_TRYLOCK_BIT
          at,         \* where each thread is
          nextBits,   \* does the thread's local "next" carry NOWAITERS
          val,        \* the word the thread told the kernel to expect
          crowded,    \* is the NOWAITERS bit of the word it released clear
          told,       \* what the last release reported: had a trylock failed
          missed,     \* ghost: a trylock failed and its owner was not told yet
          recursed    \* a thread met DISPATCH_CLIENT_CRASH
lockVars == <<owner, noWaiters, noFailed, at, nextBits, val, crowded, told, missed, recursed>>

Word == <<owner, noWaiters, noFailed>>
Zero == <<None, FALSE, FALSE>>
Words == (Lockers \cup {None}) \X BOOLEAN \X BOOLEAN
Labels == {"idle", "slow", "sleep", "asleep", "woken", "held", "wake"}

LockInit == /\ owner = None /\ noWaiters = FALSE /\ noFailed = FALSE
            /\ at = [t \in Lockers |-> "idle"]
            /\ nextBits = [t \in Lockers |-> TRUE]
            /\ val = [t \in Lockers |-> Zero]
            /\ crowded = [t \in Lockers |-> FALSE]
            /\ told = FALSE
            /\ missed = FALSE
            /\ recursed = FALSE

Enter(t, l) == at' = [at EXCEPT ![t] = l]
SetWord(w) == owner' = w[1] /\ noWaiters' = w[2] /\ noFailed' = w[3]

\* _dispatch_lock_is_locked masks the two bits out.
IsLocked == owner # None

\* The cmpxchg of the fast path; on failure the thread turns to the slow path.
unfair_lock_lock(t) ==
  /\ at[t] \in {"idle", "held"}
  /\ IF Word = Zero
     THEN SetWord(<<t, TRUE, TRUE>>) /\ Enter(t, "held")
     ELSE Enter(t, "slow") /\ UNCHANGED <<owner, noWaiters, noFailed>>
  /\ nextBits' = [nextBits EXCEPT ![t] = TRUE]
  /\ UNCHANGED <<val, crowded, told, missed, recursed>>

\* The word a thread that finds the lock taken leaves behind.
SlowWord == <<owner, FALSE, noFailed>>

LocksTwice(t) == owner = t

\* The rmw loop of the slow path: take a free lock, or tell the owner that
\* someone waits. Locking twice from one thread is a crash of the client.
lock_slow_rmw(t) ==
  /\ at[t] = "slow"
  /\ IF ~IsLocked
     THEN SetWord(<<t, nextBits[t], TRUE>>) /\ Enter(t, "held") /\ UNCHANGED <<val, recursed>>
     ELSE /\ SetWord(SlowWord)
          /\ val' = [val EXCEPT ![t] = SlowWord]
          /\ recursed' = LocksTwice(t)
          /\ Enter(t, "sleep")
  /\ UNCHANGED <<nextBits, crowded, told, missed>>

\* The other threads the kernel still counts as waiters.
OthersWait(t) == \E u \in Lockers \ {t} : at[u] \in {"asleep", "woken"}

\* Plausible bug: ENOTEMPTY is taken for success, the other waiters forgotten.
NextAfter_plain(t) == TRUE
\* After ENOTEMPTY the thread takes the lock with the NOWAITERS bit clear.
NextAfter(t) == ~OthersWait(t)

\* __ulock_wait blocks the thread if the word still is the expected one.
ulock_wait_sleep(t) ==
  /\ at[t] = "sleep" /\ Word = val[t]
  /\ Enter(t, "asleep") /\ val' = [val EXCEPT ![t] = Zero]
  /\ UNCHANGED <<owner, noWaiters, noFailed, nextBits, crowded, told, missed, recursed>>

\* ... and returns at once otherwise.
ulock_wait_changed(t) ==
  /\ at[t] = "sleep" /\ Word # val[t]
  /\ Enter(t, "slow") /\ val' = [val EXCEPT ![t] = Zero]
  /\ nextBits' = [nextBits EXCEPT ![t] = NextAfter(t)]
  /\ UNCHANGED <<owner, noWaiters, noFailed, crowded, told, missed, recursed>>

\* The page of the lock may be paged out: EFAULT, and the thread tries again.
ulock_wait_fault(t) ==
  /\ at[t] = "sleep"
  /\ Enter(t, "slow") /\ val' = [val EXCEPT ![t] = Zero]
  /\ nextBits' = [nextBits EXCEPT ![t] = TRUE]
  /\ UNCHANGED <<owner, noWaiters, noFailed, crowded, told, missed, recursed>>

ulock_wait_return(t) ==
  /\ at[t] = "woken"
  /\ Enter(t, "slow")
  /\ nextBits' = [nextBits EXCEPT ![t] = NextAfter(t)]
  /\ UNCHANGED <<owner, noWaiters, noFailed, val, crowded, told, missed, recursed>>

\* trylock: one rmw, which marks the word of an owner it could not displace.
unfair_lock_trylock(t) ==
  /\ at[t] = "idle"
  /\ IF ~IsLocked
     THEN SetWord(<<t, TRUE, TRUE>>) /\ Enter(t, "held") /\ UNCHANGED missed
     ELSE SetWord(<<owner, noWaiters, FALSE>>) /\ missed' = TRUE /\ UNCHANGED at
  /\ UNCHANGED <<nextBits, val, crowded, told, recursed>>

\* Plausible bug: the release clears the owner only.
Freed_ownerOnly == <<None, noWaiters, noFailed>>
\* Both ways out store DLOCK_OWNER_NULL over the whole word.
Freed == Zero

\* The release of the word. unlock_slow is called when it had waiters.
Release(t, report) ==
  /\ SetWord(Freed)
  /\ crowded' = [crowded EXCEPT ![t] = ~noWaiters]
  /\ told' = report
  /\ missed' = FALSE
  /\ Enter(t, IF noWaiters THEN "idle" ELSE "wake")

\* Plausible bug: tryunlock releases the word whatever happened meanwhile.
MayRelease_always == TRUE
\* tryunlock gives the lock up only if no trylock failed since it was taken
\* or since the last attempt.
MayRelease == noFailed

unfair_lock_tryunlock(t) ==
  /\ at[t] = "held"
  /\ IF MayRelease
     THEN Release(t, FALSE)
     ELSE /\ SetWord(<<owner, noWaiters, TRUE>>)
          /\ missed' = FALSE
          /\ UNCHANGED <<at, crowded, told>>
  /\ UNCHANGED <<nextBits, val, recursed>>

\* unlock_had_failed_trylock: an exchange, then the report.
unfair_lock_unlock(t) ==
  /\ at[t] = "held"
  /\ Release(t, ~noFailed)
  /\ UNCHANGED <<nextBits, val, recursed>>

\* The released word had no NOWAITERS bit.
Wakes(t) == crowded[t]

\* unlock_slow wakes one blocked thread.
unlock_slow(t) ==
  /\ at[t] = "wake"
  /\ IF Wakes(t) /\ \E u \in Lockers : at[u] = "asleep"
     THEN \E u \in Lockers : /\ at[u] = "asleep"
                             /\ at' = [at EXCEPT ![u] = "woken", ![t] = "idle"]
     ELSE Enter(t, "idle")
  /\ crowded' = [crowded EXCEPT ![t] = FALSE]
  /\ UNCHANGED <<owner, noWaiters, noFailed, nextBits, val, told, missed, recursed>>

\* The steps a thread owes once it is inside the library or holds the lock.
Inside(t) == \/ lock_slow_rmw(t) \/ ulock_wait_sleep(t) \/ ulock_wait_changed(t)
             \/ ulock_wait_fault(t) \/ ulock_wait_return(t) \/ unlock_slow(t)

LockNext == /\ ~recursed
            /\ \E t \in Lockers : \/ Inside(t)
                                  \/ unfair_lock_lock(t) \/ unfair_lock_trylock(t)
                                  \/ unfair_lock_tryunlock(t) \/ unfair_lock_unlock(t)

LockSpec == LockInit /\ [][LockNext]_lockVars

(* A holder releases in the end, and a thread inside the library runs on.    *)
(* Page faults are not owed to anyone, and neither is a new call.            *)
FairLockSpec == /\ LockSpec
                /\ \A t \in Lockers :
                     /\ WF_lockVars(~recursed /\ (lock_slow_rmw(t) \/ ulock_wait_sleep(t)
                                  \/ ulock_wait_changed(t) \/ ulock_wait_return(t)
                                  \/ unlock_slow(t)))
                     /\ WF_lockVars(~recursed /\ unfair_lock_unlock(t))

-----------------------------------------------------------------------------
(* The variables have their types; a free word is all zero, which the fast   *)
(* path's cmpxchg relies on.                                                 *)
LockTypeOK == /\ Word \in Words /\ (owner = None => Word = Zero)
              /\ at \in [Lockers -> Labels]
              /\ nextBits \in [Lockers -> BOOLEAN]
              /\ val \in [Lockers -> Words]
              /\ crowded \in [Lockers -> BOOLEAN]
              /\ told \in BOOLEAN /\ missed \in BOOLEAN /\ recursed \in BOOLEAN

(* Threads between taking the lock, by any of the three ways in, and giving  *)
(* it up, by either way out, exclude each other, and the word names the one. *)
MutualExclusion == \A t \in Lockers : at[t] = "held" => owner = t

\* Someone who will wake a blocked thread or announce it: the owner whose
\* word says so, a releaser on its way to the kernel, or a thread that came
\* back from the kernel and has still to pass the announcement on.
Waker(u) == \/ owner = u /\ ~noWaiters
            \/ at[u] \in {"wake", "woken"}
            \/ at[u] = "slow" /\ ~nextBits[u]

(* A blocked thread is never forgotten: lock_slow announces itself in the    *)
(* word, the kernel compares that word, one unlock wakes one thread, and the *)
(* thread woken passes the announcement on when ENOTEMPTY says there are     *)
(* more. Barging threads that take the lock in between do not break this.    *)
NoStrandedWaiter ==
  (\E t \in Lockers : at[t] = "asleep") => \E u \in Lockers : Waker(u)

(* A thread is never put to sleep on a lock it holds itself.                 *)
NeverWaitsForItself == \A t \in Lockers : at[t] = "asleep" => owner # t

\* What makes these inductive: a thread about to sleep expects the word of
\* another owner, announced; a releaser in the kernel has somebody to wake; and
\* the bit in the word says whether a trylock failed.
Announced == \A t \in Lockers :
  /\ at[t] = "sleep" /\ ~recursed => val[t][1] \notin {t, None} /\ ~val[t][2]
  /\ at[t] = "wake" => crowded[t]
MissedIsMarked == missed <=> IsLocked /\ ~noFailed

(* The lock is sound: its word and the threads agree, its holders exclude    *)
(* each other, nobody sleeps on a lock of his own, and a sleeping thread is  *)
(* always someone's to wake.                                                 *)
LockInv == /\ LockTypeOK /\ MutualExclusion /\ NeverWaitsForItself /\ NoStrandedWaiter
           /\ Announced /\ MissedIsMarked

(* tryunlock never gives the lock up over the head of a thread whose trylock *)
(* failed, and unlock says truthfully whether there was one: the side lock's *)
(* failed override is redone by the owner.                                   *)
FailedTrylockReported ==
  [][owner # None /\ owner' = None => told' = missed]_lockVars

(* Wakeups are not lost: while threads are blocked, one of them is woken.    *)
BlockedAreServed == (\E t \in Lockers : at[t] = "asleep")
                      ~> (recursed \/ \E t \in Lockers : at[t] = "woken")
=============================================================================
