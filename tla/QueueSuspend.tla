----------------------------- MODULE QueueSuspend -----------------------------
(***************************************************************************)
(* The suspension bits of dq_state: dispatch_suspend, dispatch_resume,     *)
(* dispatch_activate and the setters that lock an inactive object, of      *)
(* src/queue.c and src/inline_internal.h.                                  *)
(*                                                                         *)
(* word is the part of dq_state above IN_BARRIER as one integer: the       *)
(* inline count sc above the bits ssc, i and na, so that the code's        *)
(* additions and subtractions overflow, borrow and carry as in the code.   *)
(* The inline count holds 2 * Half values (128 in the code).  What a       *)
(* resume does with the queue once it is runnable is in DispatchQueue.     *)
(***************************************************************************)
EXTENDS Integers, FiniteSets

CONSTANTS Threads,    \* threads that use the object
          Setters,    \* those that set its target queue or its handlers
          Half,       \* DISPATCH_QUEUE_SUSPEND_HALF
          Uses,       \* what the object is, and whether there are setters
          MaxHeld,    \* bound: suspensions a thread holds at once
          SetterHeld, \* bound: the same, where setters are at work
          None

ASSUME HalfAssumption == Half \in Nat /\ Half > 1
ASSUME UsesAssumption == Uses \subseteq SUBSET {"source", "setters"}
ASSUME ThreadsAssumption == IsFiniteSet(Threads) /\ Setters \subseteq Threads /\ None \notin Threads
ASSUME BoundsAssumption == MaxHeld \in Nat /\ SetterHeld \in 0..MaxHeld

VARIABLES word,       \* the suspension bits of dq_state
          side,       \* dq_side_suspend_cnt
          lock,       \* dq_sidelock
          refs,       \* references besides the clients'
          pc,
          use,        \* {} or "source": dispatch_resume may activate it; "setters"
          held,       \* history: dispatch_suspends of a thread it did not resume
          finalized   \* history: runs of do_finalize_activation

vars == <<word, side, lock, refs, pc, use, held, finalized>>

NA == 1               \* DISPATCH_QUEUE_NEEDS_ACTIVATION
INACTIVE == 2
HAS_SIDE == 4
INTERVAL == 8         \* DISPATCH_QUEUE_SUSPEND_INTERVAL
Limit == 2 * Half * INTERVAL

Inactive(w) == (w \div INACTIVE) % 2 = 1
HasSide(w) == (w \div HAS_SIDE) % 2 = 1
IsSuspended(w) == w >= NA

Goto(t, l) == pc' = [pc EXCEPT ![t] = l]
Hold(t, n) == held' = [held EXCEPT ![t] = @ + n]

\* _dispatch_queue_init of an inactive object, which is born with a reference.
Init == /\ word = INACTIVE + NA
        /\ side = 0 /\ lock = None
        /\ refs = 1
        /\ use \in Uses
        /\ pc = [t \in Threads |-> "idle"]
        /\ held = [t \in Threads |-> 0]
        /\ finalized = 0
-----------------------------------------------------------------------------
(* dispatch_suspend *)

dispatch_suspend(t) ==
  /\ pc[t] = "idle" /\ held[t] < (IF "setters" \in use THEN SetterHeld ELSE MaxHeld)
  /\ Hold(t, 1) /\ Goto(t, "suspend")
  /\ UNCHANGED <<word, side, lock, refs, finalized>>

\* rdar 8181908: the first suspension keeps the object alive for its resume.
NeedsRetain(w) == ~IsSuspended(w)

queue_suspend(t) ==
  /\ pc[t] = "suspend"
  /\ \/ /\ word + INTERVAL < Limit
        /\ word' = word + INTERVAL
        /\ Goto(t, IF NeedsRetain(word) THEN "retain" ELSE "idle")
     \/ word + INTERVAL >= Limit /\ UNCHANGED word /\ Goto(t, "suspend_lock")
  /\ UNCHANGED <<side, lock, refs, held, finalized>>

suspend_retain(t) ==
  /\ pc[t] = "retain"
  /\ refs' = refs + 1
  /\ Goto(t, "idle")
  /\ UNCHANGED <<word, side, lock, held, finalized>>

sidelock_lock(t, from, to) ==
  /\ pc[t] = from /\ lock = None
  /\ lock' = t
  /\ Goto(t, to)
  /\ UNCHANGED <<word, side, refs, held, finalized>>

\* Plausible bug: the transfer forgets the count of the call itself.
SuspendDelta_whole == Half * INTERVAL - (IF side = 0 THEN HAS_SIDE ELSE 0)

\* What moves to the side count, less this suspension; the bit is set by borrow.
SuspendDelta == (Half - 1) * INTERVAL - (IF side = 0 THEN HAS_SIDE ELSE 0)

\* _dispatch_queue_suspend_slow: underflow means that others resumed, or moved the
\* counts, before the lock was taken.
suspend_slow(t) ==
  /\ pc[t] = "suspend_move"
  /\ \/ word >= SuspendDelta /\ word' = word - SuspendDelta /\ Goto(t, "suspend_side") /\ UNCHANGED lock
     \/ word < SuspendDelta /\ UNCHANGED word /\ Goto(t, "suspend") /\ lock' = None
  /\ UNCHANGED <<side, refs, held, finalized>>

suspend_side(t) ==
  /\ pc[t] = "suspend_side"
  /\ side' = side + Half
  /\ lock' = None
  /\ Goto(t, "idle")
  /\ UNCHANGED <<word, refs, held, finalized>>
-----------------------------------------------------------------------------
(* dispatch_resume *)

dispatch_resume(t) ==
  /\ pc[t] = "idle" /\ held[t] > 0
  /\ Hold(t, -1) /\ Goto(t, "resume")
  /\ UNCHANGED <<word, side, lock, refs, finalized>>

\* Plausible bug: the last resume leaves NEEDS_ACTIVATION behind.
Finalizes_never(w) == FALSE
\* The resume that would leave only NEEDS_ACTIVATION finalizes first.
Finalizes(w) == w = INTERVAL + NA
IsSource == "source" \in use
ActivatesSource(w) == IsSource /\ w = NA + INACTIVE
Activated == INTERVAL     \* { sc:1 i:0 na:0 }

queue_resume(t) ==
  /\ pc[t] = "resume"
  /\ \/ (Finalizes(word) \/ ActivatesSource(word)) /\ word' = Activated /\ Goto(t, "finalize")
     \/ /\ ~Finalizes(word) /\ ~ActivatesSource(word) /\ word >= INTERVAL
        /\ word' = word - INTERVAL
        /\ Goto(t, IF IsSuspended(word') THEN "idle" ELSE "wake")
     \/ /\ ~ActivatesSource(word) /\ word < INTERVAL /\ UNCHANGED word
        /\ Goto(t, IF HasSide(word) THEN "resume_lock" ELSE "over_resume")
  /\ UNCHANGED <<side, lock, refs, held, finalized>>

\* object.h:370: the resume of an inactive source that no client suspended; it
\* activates, or finds the count of a setter.
resume_source(t) ==
  /\ pc[t] = "idle" /\ IsSource /\ Inactive(word)
  /\ \A u \in Threads : held[u] = 0 /\ pc[u] \in {"idle", "set"}
  /\ word' = IF ActivatesSource(word) THEN Activated ELSE word - INTERVAL
  /\ Goto(t, IF ActivatesSource(word) THEN "finalize" ELSE "idle")
  /\ UNCHANGED <<side, lock, refs, held, finalized>>

\* What moves back, less this resume; the bit goes with the last of the side count.
ResumeDelta == (Half - 1) * INTERVAL - (IF side = Half THEN HAS_SIDE ELSE 0)

\* _dispatch_queue_resume_slow
resume_slow(t) ==
  /\ pc[t] = "resume_move"
  /\ \/ /\ side > 0 /\ word + ResumeDelta < Limit
        /\ word' = word + ResumeDelta /\ Goto(t, "resume_side") /\ UNCHANGED lock
     \/ /\ side = 0 \/ word + ResumeDelta >= Limit
        /\ UNCHANGED word /\ Goto(t, "resume") /\ lock' = None
  /\ UNCHANGED <<side, refs, held, finalized>>

resume_side(t) ==
  /\ pc[t] = "resume_side"
  /\ side' = side - Half
  /\ lock' = None
  /\ Goto(t, "idle")
  /\ UNCHANGED <<word, refs, held, finalized>>

\* The object is runnable: wake it up, and give the reference back.
resume_wakeup(t) ==
  /\ pc[t] = "wake"
  /\ refs' = refs - 1
  /\ Goto(t, "idle")
  /\ UNCHANGED <<word, side, lock, held, finalized>>

\* _dispatch_queue_resume_finalize_activation: then consume the count of step 1.
finalize_activation(t) ==
  /\ pc[t] = "finalize"
  /\ finalized' = finalized + 1
  /\ Goto(t, "resume")
  /\ UNCHANGED <<word, side, lock, refs, held>>
-----------------------------------------------------------------------------
(* dispatch_activate, and the setters *)

\* Plausible bug: activation does not look at the suspension count.
ActivatesNow_anyCount(w) == Inactive(w)
ActivatesNow(w) == w = NA + INACTIVE

dispatch_activate(t) ==
  /\ pc[t] = "idle"
  /\ \/ ActivatesNow(word) /\ word' = word - INACTIVE - NA + INTERVAL /\ Goto(t, "finalize")
     \/ /\ ~ActivatesNow(word) /\ Inactive(word)
        /\ word' = word - INACTIVE /\ UNCHANGED pc
  /\ UNCHANGED <<side, lock, refs, held, finalized>>

\* _dispatch_queue_try_inactive_suspend: the addition has no overflow check; the
\* trap looks at the state before it.
try_inactive_suspend(t) ==
  /\ "setters" \in use /\ t \in Setters /\ pc[t] = "idle" /\ Inactive(word)
  /\ word' = (word + INTERVAL) % Limit
  /\ Goto(t, IF HasSide(word) THEN "too_many_suspends" ELSE "set")
  /\ UNCHANGED <<side, lock, refs, held, finalized>>

set_in_place(t) ==
  /\ pc[t] = "set"
  /\ Goto(t, "resume")
  /\ UNCHANGED <<word, side, lock, refs, held, finalized>>
-----------------------------------------------------------------------------
Trapped == \E t \in Threads : pc[t] \in {"over_resume", "too_many_suspends"}

Step(t) ==
  \/ dispatch_suspend(t) \/ queue_suspend(t) \/ suspend_retain(t)
  \/ sidelock_lock(t, "suspend_lock", "suspend_move") \/ suspend_slow(t) \/ suspend_side(t)
  \/ dispatch_resume(t) \/ resume_source(t) \/ queue_resume(t)
  \/ sidelock_lock(t, "resume_lock", "resume_move") \/ resume_slow(t) \/ resume_side(t)
  \/ resume_wakeup(t) \/ finalize_activation(t) \/ dispatch_activate(t)
  \/ try_inactive_suspend(t) \/ set_in_place(t)

\* A trap ends the process.
Next == ~Trapped /\ (\E t \in Threads : Step(t)) /\ UNCHANGED use

Spec == Init /\ [][Next]_vars
-----------------------------------------------------------------------------
At(l) == Cardinality({t \in Threads : pc[t] \in l})

Suspending == {"suspend", "suspend_lock", "suspend_move"}
Resuming   == {"resume", "resume_lock", "resume_move", "set", "finalize"}
Transfers  == {"suspend_move", "suspend_side", "resume_move", "resume_side"}
Labels == {"idle", "retain", "suspend_side", "resume_side", "wake", "over_resume",
           "too_many_suspends"} \union Suspending \union Resuming

TypeOK == /\ word \in 0..(Limit - 1) /\ side \in Nat
          /\ lock \in Threads \union {None}
          /\ refs \in 0..(Cardinality(Threads) + 1)
          /\ held \in [Threads -> 0..MaxHeld]
          /\ pc \in [Threads -> Labels] /\ use \in Uses /\ finalized \in Nat

\* Suspensions a thread has counted and not yet taken off again: its own, those of
\* a call in flight, a setter's, and the one of the activation.
Wants(t) == held[t] + (IF pc[t] \in Resuming THEN 1 ELSE 0)
Owes(t)  == Wants(t) - (IF pc[t] \in Suspending THEN 1 ELSE 0)
Owed == Cardinality({p \in Threads \X (1..(MaxHeld + 1)) : p[2] =< Owes(p[1])})

\* Counts that are in neither place, or in both, while they are moved.
InTransit == Half * (At({"suspend_side"}) - At({"resume_side"}))

\* rdar 8181908: while the object is suspended it has a reference of its own, and
\* none is left over once it runs.
SuspendedReference ==
  refs = (IF IsSuspended(word) THEN 1 ELSE 0) + At({"wake"}) - At({"retain"})

(* A caller that resumes only what it suspended is never told that it resumed
   too often. *)
NoFalseOverResume == At({"over_resume"}) = 0

(* No suspension is lost or invented: the inline count and the side count, with
   what is on its way between them, are the suspensions that somebody still owes,
   however suspends, resumes, setters and the activation race for the side lock.
   The bit in dq_state says whether there is a side count, whenever nobody moves
   counts; the reference of a suspended object is there exactly once; and so no
   resume that is owed is refused. *)
CountConserved ==
  /\ TypeOK
  /\ word \div INTERVAL + side + InTransit = Owed
  /\ At({"suspend_side", "resume_side"}) = 0 => (HasSide(word) <=> side > 0)
  /\ SuspendedReference
  /\ NoFalseOverResume

(* An object becomes runnable only when every suspension was resumed and the
   activation, if it was needed, has run to its end, once; and nothing stays
   suspended for nobody: when every call has returned, every suspension was resumed
   and the object was activated, it is runnable. *)
ResumedMeansRunnable ==
  /\ finalized <= 1
  /\ ~IsSuspended(word) => finalized = 1 /\ Owed = 0
  /\ At({"idle"}) = Cardinality(Threads) /\ Owed = 0 /\ ~Inactive(word) => word = 0

(* queue.c:1599: activation "cannot happen if such a setter has locked the
   object".  A setter's change in place never meets the finalizer or a runnable
   object. *)
SetterExcludesActivation ==
  At({"set"}) > 0 => At({"finalize"}) = 0 /\ IsSuspended(word)

\* What makes these inductive: who has the side lock, what the bits of dq_state
\* say together, and how far a suspension has come.
Locked == \A t \in Threads : lock = t <=> pc[t] \in Transfers
Sides == /\ \E k \in 0..side : side = k * Half
         /\ HasSide(word) <=> side + InTransit > 0
         /\ At({"resume_side"}) > 0 => side > 0
Bits == /\ Inactive(word) => word % 2 = NA
        /\ word # NA
        /\ finalized + At({"finalize"}) + (word % 2) = 1
Calls == /\ \A t \in Threads : pc[t] \in Suspending \union {"retain"} => held[t] > 0
         /\ At({"retain"}) =< 1 /\ At({"too_many_suspends"}) = 0
         /\ \A t \in Threads : pc[t] = "set" => t \in Setters /\ "setters" \in use
Shallow == "setters" \in use =>
    /\ \A t \in Threads : held[t] =< SetterHeld
    /\ Inactive(word) =>
         /\ side = 0
         /\ \A t \in Threads : pc[t] \notin Transfers \union {"suspend_lock", "resume_lock"}
         /\ \A t \in Threads : Wants(t) =< SetterHeld + (IF t \in Setters THEN 1 ELSE 0)
SuspendInv == /\ CountConserved /\ SetterExcludesActivation
              /\ Locked /\ Sides /\ Bits /\ Calls /\ Shallow
=============================================================================
