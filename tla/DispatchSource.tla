---------------------------- MODULE DispatchSource ----------------------------
(***************************************************************************)
(* A dispatch source whose events come straight from the kernel            *)
(* (ds_is_direct_kevent, EV_DISPATCH: a file descriptor, a mach port, a    *)
(* process): registration, delivery, rearming, cancellation and release,   *)
(* of src/source.c, with the drain lock it inherits from the queues.       *)
(*                                                                         *)
(* The threads that call in, those that drain its target queue and those   *)
(* that receive kernel events race on three words: the atomic flags        *)
(* (flags), dq_state (phase, owner, enqueued, dirty) and the pending data. *)
(* A read-modify-write of one of them is a step, with the plain reads and  *)
(* writes that lead up to it or follow from it; a decision taken on flags  *)
(* read earlier is a step of its own, on the flags remembered in seen.     *)
(***************************************************************************)
EXTENDS Naturals, FiniteSets

CONSTANTS Clients, Workers, Managers,  \* threads
          CancelHandlers,  \* subset of {"none", "set"}: sources considered
          MayVanish,       \* may the monitored resource vanish
          Casts,           \* the sets of clients considered
          MaxEvents,       \* bound: events the kernel delivers
          LoneEvents,      \* bound: the same, where there is one client
          Nobody

ASSUME SourceAssumption ==
  /\ IsFiniteSet(Clients \cup Workers \cup Managers)
  /\ Nobody \notin Clients \cup Workers \cup Managers
  /\ CancelHandlers \subseteq {"none", "set"} /\ MayVanish \in BOOLEAN
  /\ Casts \subseteq SUBSET Clients /\ MaxEvents \in Nat /\ LoneEvents \in Nat

VARIABLES flags,      \* the DSF_ bits and DQF_RELEASED of dq_atomic_flags
          phase,      \* the suspension bits of dq_state
          owner,      \* the drain lock
          enqueued, dirty,  \* the bits of dq_state
          pushed,     \* is the source in its target queue
          installed, rearm, \* ds_is_installed, ds_needs_rearm
          dkev,       \* is ds_dkev allocated
          data,       \* ds_pending_data
          eventH,     \* is the event handler set
          cancelH,    \* the cancel handler
          callers,    \* the clients there are
          starves,    \* the target queue is not an overcommit root queue
          knote,      \* the kernel's side of the kevent
          posted,     \* the kevent the kernel handed out
          events,     \* how many it handed out
          refcnt, clientRef, \* do_ref_cnt; does the client own its reference
          at, doing, ret, \* where a thread is, in which call, where it returns to
          seen,       \* the thread's local dqf
          wish,       \* the drainer's prevent_starvation and retq
          returned,   \* history: a dispatch_source_cancel_and_wait returned
          trapped     \* a DISPATCH_CLIENT_CRASH was met

word == <<phase, owner, enqueued, dirty>>
fields == <<installed, rearm, dkev>>
callouts == <<data, eventH, cancelH>>
kernel == <<knote, posted, events>>
locals == <<doing, ret, wish>>
history == <<callers, starves, clientRef, returned, trapped>>
sourceVars == <<flags, word, pushed, fields, callouts, kernel, refcnt, at, locals, seen,
                history>>

Actors == Clients \cup Workers \cup Managers
State == {"armed", "deferred", "deleted"}  \* DSF_STATE_MASK
Over == {"canceled", "released"}

(* dispatch_source_create: inactive, with a reference for the client, one for
   the manager queue and one for being inactive. *)
SourceInit == /\ flags = {} /\ phase = "inactive" /\ owner = Nobody
              /\ enqueued = FALSE /\ dirty = FALSE /\ pushed = FALSE
              /\ installed = FALSE /\ rearm = TRUE /\ dkev = TRUE
              /\ data = FALSE /\ eventH = TRUE /\ cancelH \in CancelHandlers
              /\ callers \in Casts /\ starves \in BOOLEAN
              /\ knote = "none" /\ posted = "none" /\ events = 0
              /\ refcnt = 3 /\ clientRef = TRUE
              /\ at = [t \in Actors |-> "idle"]
              /\ doing = [t \in Actors |-> "none"]
              /\ ret = [t \in Actors |-> "none"]
              /\ seen = [t \in Actors |-> {}]
              /\ wish = [t \in Actors |-> {}]
              /\ returned = FALSE /\ trapped = FALSE

Go(t, l) == at' = [at EXCEPT ![t] = l]
SourceAt(ls) == {t \in Actors : at[t] \in ls}
See(t, f) == seen' = [seen EXCEPT ![t] = f]
Call(t, l, r) == Go(t, l) /\ ret' = [ret EXCEPT ![t] = r]
Begin(t, o, l) == at[t] = "idle" /\ Go(t, l) /\ doing' = [doing EXCEPT ![t] = o]
Done(t) == /\ Go(t, "idle")
           /\ doing' = [doing EXCEPT ![t] = "none"] /\ ret' = [ret EXCEPT ![t] = "none"]
           /\ wish' = [wish EXCEPT ![t] = {}] /\ See(t, {})

Runnable == phase = "active" /\ owner = Nobody
ShouldWakeup == Runnable /\ ~enqueued
-----------------------------------------------------------------------------
(* _dispatch_source_wakeup, and _dispatch_queue_class_wakeup below it. *)

Consumes(t) == doing[t] \in {"cancel", "merge", "invoke"}
\* Plausible bug: merge_kevent wakes up without DISPATCH_WAKEUP_FLUSH.
Flushes_notMerge(t) == doing[t] \in {"cancel", "invoke", "release"}
\* DISPATCH_WAKEUP_FLUSH sets DIRTY, for a drainer about to unlock.
Flushes(t) == doing[t] \in {"cancel", "merge", "invoke", "release"}

\* Where the caller of a wakeup goes on.
Return(t) ==
  CASE doing[t] = "invoke" -> Go(t, "latched") /\ See(t, {}) /\ UNCHANGED <<locals, returned>>
    [] doing[t] = "release" -> Go(t, "xrelease") /\ See(t, {}) /\ UNCHANGED <<locals, returned>>
    [] doing[t] = "wait" -> Go(t, "await") /\ See(t, {}) /\ UNCHANGED <<locals, returned>>
    [] OTHER -> Done(t) /\ returned' = (returned \/ doing[t] = "waitActivate")

wakeup(t) ==
  /\ at[t] = "wakeup"
  /\ See(t, flags)
  /\ Go(t, "class_wakeup")
  /\ UNCHANGED <<flags, word, pushed, fields, callouts, kernel, refcnt, locals, history>>

\* The knote is gone, or its last event is here: it can be unregistered.
Acknowledges(f) == "deferred" \in f /\ ("deleted" \in f \/ "armed" \notin f)

\* The tests of wakeup: does the source want to be invoked.
HasWork(f) ==
  \/ ~installed \/ Acknowledges(f)
  \/ f \cap Over = {} /\ (data \/ (rearm /\ "armed" \notin f))
  \/ /\ f \cap Over # {} /\ "deferred" \notin f
     /\ "deleted" \notin f \/ eventH \/ cancelH = "set"

\* The thread that sets ENQUEUED pushes the source to its target queue.
class_wakeup(t) ==
  /\ at[t] = "class_wakeup"
  /\ IF ~HasWork(seen[t])
     THEN /\ refcnt' = IF Consumes(t) THEN refcnt - 1 ELSE refcnt
          /\ UNCHANGED <<dirty, enqueued, pushed>>
     ELSE /\ dirty' = (dirty \/ Flushes(t))
          /\ enqueued' = (enqueued \/ ShouldWakeup)
          /\ pushed' = (pushed \/ ShouldWakeup)
          /\ refcnt' = refcnt + (IF ShouldWakeup THEN 1 ELSE 0) - (IF Consumes(t) THEN 1 ELSE 0)
  /\ Return(t)
  /\ UNCHANGED <<flags, phase, owner, fields, callouts, kernel, callers, starves, clientRef,
                 trapped>>
-----------------------------------------------------------------------------
(* Registration, rearming and unregistration. *)

\* _dispatch_source_tryarm gives up on a knote that is, or will be, gone.
MayArm == flags \cap {"deferred", "deleted"} = {}

\* A failure to register or to rearm leads to the unregistration.
ArmFailed(t) == Call(t, "unreg", IF ret[t] = "rearm" THEN "reread" ELSE ret[t])

\* A registration marks the source as installed, and then arms it like a rearm.
tryarm(t) ==
  /\ at[t] = "arm"
  /\ installed' = TRUE
  /\ IF MayArm THEN flags' = flags \cup {"armed"} /\ Go(t, "kevent") /\ UNCHANGED ret
               ELSE ArmFailed(t) /\ UNCHANGED flags
  /\ UNCHANGED <<word, pushed, rearm, dkev, callouts, kernel, refcnt, doing, wish, seen, history>>

Armed(t) == Call(t, IF ret[t] # "rearm" THEN ret[t]
                    ELSE IF "retq" \in wish[t] THEN "requeue" ELSE "unlock", "none")

kevent_resume(t) ==
  /\ at[t] = "kevent"
  /\ knote' = "enabled"
  /\ Armed(t)
  /\ UNCHANGED <<flags, word, pushed, fields, callouts, posted, events, refcnt, doing, wish, seen,
                 history>>

\* Only the registration may fail (EV_ADD).
kevent_register_fails(t) ==
  /\ at[t] = "kevent" /\ ret[t] # "rearm"
  /\ flags' = (flags \cup {"deleted"}) \ {"armed"}
  /\ ArmFailed(t)
  /\ UNCHANGED <<word, pushed, fields, callouts, kernel, refcnt, doing, wish, seen, history>>

\* _dispatch_source_kevent_unregister reads the flags ...
unregister(t) ==
  /\ at[t] = "unreg"
  /\ See(t, flags)
  /\ IF "deleted" \in flags \/ ~installed
     THEN dkev' = FALSE /\ Go(t, "deleted")
     ELSE Go(t, "kdelete") /\ UNCHANGED dkev
  /\ UNCHANGED <<flags, word, pushed, installed, rearm, callouts, kernel, refcnt, locals,
                 history>>

\* Plausible bug: any source may be deleted at once.
ImmediateDelete_always(t) == TRUE
\* A disarmed source has no event in flight.
ImmediateDelete(t) == rearm /\ "armed" \notin seen[t]

Dropped(t) == knote' = "none" /\ dkev' = FALSE /\ Go(t, "deleted") /\ UNCHANGED posted

\* ... asks the kernel to delete the knote, which refuses with EINPROGRESS while an
\* event is in flight, or takes its time and delivers an EV_DELETE ...
unregister_kernel(t) ==
  /\ at[t] = "kdelete"
  /\ \/ (ImmediateDelete(t) \/ knote # "disabled") /\ Dropped(t)
     \/ /\ ~ImmediateDelete(t) /\ knote = "enabled"
        /\ knote' = "none" /\ posted' = "delete"
        /\ Go(t, "deferred") /\ UNCHANGED dkev
     \/ /\ ~ImmediateDelete(t) /\ knote = "disabled"
        /\ Go(t, "deferred") /\ UNCHANGED <<knote, posted, dkev>>
  /\ UNCHANGED <<flags, word, pushed, installed, rearm, callouts, events, refcnt, locals,
                 seen, history>>

unregister_deferred(t) ==
  /\ at[t] = "deferred"
  /\ flags' = flags \cup {"deferred"}
  /\ Call(t, ret[t], "none") /\ See(t, {})
  /\ UNCHANGED <<word, pushed, fields, callouts, kernel, refcnt, doing, wish, history>>

\* ... and marks the source as deleted ...
unregister_deleted(t) ==
  /\ at[t] = "deleted"
  /\ See(t, flags \cap {"waiter"})
  /\ flags' = (flags \cup {"deleted"}) \ {"armed", "deferred", "waiter"}
  /\ Go(t, "wake")
  /\ UNCHANGED <<word, pushed, fields, callouts, kernel, refcnt, locals, history>>

\* Plausible bug: the threads in dispatch_source_cancel_and_wait are forgotten.
Wakes_never(t) == FALSE
\* DSF_CANCEL_WAITER was set.
Wakes(t) == "waiter" \in seen[t]

\* ... and wakes the threads that wait for that.
unregister_done(t) ==
  /\ at[t] = "wake"
  /\ at' = [u \in Actors |-> IF u = t THEN ret[t]
                              ELSE IF at[u] = "asleep" /\ Wakes(t) THEN "await" ELSE at[u]]
  /\ installed' = TRUE /\ rearm' = FALSE
  /\ refcnt' = refcnt - 1
  /\ See(t, {}) /\ ret' = [ret EXCEPT ![t] = "none"]
  /\ UNCHANGED <<flags, word, pushed, dkev, callouts, kernel, doing, wish, history>>
-----------------------------------------------------------------------------
(* _dispatch_queue_class_invoke and _dispatch_source_invoke2: a worker takes the
   source from its target queue. *)

Pop(t) ==
  /\ pushed /\ Begin(t, "invoke", "trylock")
  /\ pushed' = FALSE
  /\ UNCHANGED <<flags, word, fields, callouts, kernel, refcnt, ret, wish, seen, history>>

\* invoke2 begins with the registration, if the activation left it out.
Invoke(t) == IF installed THEN Go(t, "flags") /\ UNCHANGED ret ELSE Call(t, "arm", "flags")

drain_try_lock(t) ==
  /\ at[t] = "trylock"
  /\ enqueued' = FALSE
  /\ IF Runnable THEN owner' = t /\ dirty' = FALSE /\ Invoke(t)
                 ELSE Go(t, "drop") /\ UNCHANGED <<owner, dirty, ret>>
  /\ UNCHANGED <<flags, phase, pushed, fields, callouts, kernel, refcnt, doing, wish, seen,
                 history>>

\* The end of invoke2: rearm, leave that to the next turn, or return.
Rearming(t, f, w) ==
  /\ wish' = [wish EXCEPT ![t] = w]
  /\ IF rearm /\ "armed" \notin f
     THEN IF "deferred" \in f THEN Call(t, "unreg", "reread")
          ELSE IF "starve" \in w THEN Go(t, "requeue") /\ UNCHANGED ret
          ELSE Call(t, "arm", "rearm")
     ELSE Go(t, IF "retq" \in w THEN "requeue" ELSE "unlock") /\ UNCHANGED ret

\* Cancelled or released, and not waiting for the last event already.
MustEnd(f) == f \cap Over # {} /\ "deferred" \notin f

\* Before that, the end of a source: unregister it, then call the cancel handler.
Canceling(t, f, w) ==
  IF MustEnd(f)
  THEN /\ wish' = [wish EXCEPT ![t] = w]
       /\ IF "deleted" \in f THEN Go(t, "callout") /\ UNCHANGED ret
                             ELSE Call(t, "unreg", "uncancel")
  ELSE Rearming(t, f, w)

\* A cancelled or released source delivers nothing.
Delivers == flags \cap Over = {} /\ data

\* The flags are read, first of all and again after an unregistration: it is time to
\* unregister the source, to deliver its data, or to see to the rest.
invoke2_flags(t) ==
  /\ at[t] \in {"flags", "reread"}
  /\ IF at[t] = "flags" /\ Acknowledges(flags) THEN Call(t, "unreg", "reread") /\ UNCHANGED wish
     ELSE IF Delivers THEN Go(t, "latch") /\ UNCHANGED <<ret, wish>>
     ELSE Canceling(t, flags, wish[t])
  /\ UNCHANGED <<flags, word, pushed, fields, callouts, kernel, refcnt, doing, seen, history>>

\* The exchange of latch_and_call; the handler runs if there was something.
latch_and_call(t) ==
  /\ at[t] = "latch"
  /\ data' = FALSE
  /\ Go(t, IF data /\ eventH THEN "handler" ELSE "latched")
  /\ UNCHANGED <<flags, word, pushed, fields, eventH, cancelH, kernel, refcnt, locals, seen,
                 history>>

HandlerReturns(t) ==
  /\ at[t] = "handler" /\ Go(t, "latched")
  /\ UNCHANGED <<flags, word, pushed, fields, callouts, kernel, refcnt, locals, seen, history>>

invoke_latched(t) ==
  /\ at[t] = "latched"
  /\ Canceling(t, flags, IF ~starves THEN wish[t]
                         ELSE {"starve"} \cup (IF data THEN {"retq"} ELSE wish[t]))
  /\ UNCHANGED <<flags, word, pushed, fields, callouts, kernel, refcnt, doing, seen, history>>

\* After the unregistration that the cancellation asked for.
invoke_unregistered(t) ==
  /\ at[t] = "uncancel"
  /\ IF "deferred" \notin flags THEN Go(t, "callout") /\ UNCHANGED ret
     ELSE IF "armed" \notin flags THEN Call(t, "unreg", "reread")
     ELSE Go(t, IF "retq" \in wish[t] THEN "requeue" ELSE "unlock") /\ UNCHANGED ret
  /\ UNCHANGED <<flags, word, pushed, fields, callouts, kernel, refcnt, doing, wish, seen, history>>

\* _dispatch_source_cancel_callout: a source that was only released drops its handler.
CancelCallout == /\ data' = FALSE /\ eventH' = FALSE
                 /\ cancelH' = IF cancelH # "set" THEN cancelH
                               ELSE IF "canceled" \in flags THEN "called" ELSE "disposed"

cancel_callout(t) ==
  /\ at[t] = "callout"
  /\ CancelCallout
  /\ Rearming(t, flags, wish[t] \ {"starve"})
  /\ UNCHANGED <<flags, word, pushed, fields, kernel, refcnt, doing, seen, history>>

\* The unlock fails on DIRTY, and clears it.
drain_try_unlock(t) ==
  /\ at[t] = "unlock"
  /\ dirty' = FALSE
  /\ IF ~dirty THEN owner' = Nobody /\ Go(t, "drop") /\ UNCHANGED ret
                ELSE Invoke(t) /\ UNCHANGED owner
  /\ wish' = [wish EXCEPT ![t] = {}]
  /\ UNCHANGED <<flags, phase, enqueued, pushed, fields, callouts, kernel, refcnt, doing, seen,
                 history>>

\* A return to the target queue unlocks, puts ENQUEUED back and pushes the source.
drain_requeue(t) ==
  /\ at[t] = "requeue"
  /\ owner' = Nobody
  /\ IF phase = "active" /\ ~enqueued
     THEN enqueued' = TRUE /\ dirty' = TRUE /\ pushed' = TRUE /\ Done(t)
     ELSE Go(t, "drop") /\ UNCHANGED <<enqueued, dirty, pushed, locals, seen>>
  /\ UNCHANGED <<flags, phase, fields, callouts, kernel, refcnt, history>>

drain_drop(t) ==
  /\ at[t] = "drop"
  /\ refcnt' = refcnt - 1
  /\ Done(t)
  /\ UNCHANGED <<flags, word, pushed, fields, callouts, kernel, history>>
-----------------------------------------------------------------------------
(* The kernel, and _dispatch_source_merge_kevent on the thread that receives. *)

\* An event disables the knote until it is rearmed; a resource that vanished leaves
\* the knote to be acknowledged.
KernelDelivers ==
  /\ knote = "enabled"
  /\ events < IF Cardinality(callers) = 1 THEN LoneEvents ELSE MaxEvents
  /\ knote' = "disabled"
  /\ posted' \in IF MayVanish THEN {"event", "vanished"} ELSE {"event"}
  /\ events' = events + 1
  /\ UNCHANGED <<flags, word, pushed, fields, callouts, refcnt, at, locals, seen, history>>

\* What each kind of event does to the flags.
MergedFlags == CASE posted = "event" -> flags \ {"armed"}
                 [] posted = "vanished" -> (flags \cup {"deferred"}) \ {"armed"}
                 [] OTHER -> (flags \cup {"deleted"}) \ {"armed"}

\* The receiving thread retains the source, whose last reference the kevent may be.
merge_kevent(t) ==
  /\ posted # "none" /\ at[t] = "idle"
  /\ doing' = [doing EXCEPT ![t] = "merge"]
  /\ refcnt' = refcnt + 1
  /\ flags' = MergedFlags
  /\ posted' = "none"
  /\ IF posted = "delete" \/ flags \cap Over # {}
     THEN Go(t, "wakeup") /\ UNCHANGED ret
     ELSE Call(t, "data", posted)
  /\ UNCHANGED <<word, pushed, fields, callouts, knote, events, wish, seen, history>>

merge_data(t) ==
  /\ at[t] = "data"
  /\ data' = (ret[t] = "event")
  /\ Call(t, "wakeup", "none")
  /\ UNCHANGED <<flags, word, pushed, fields, eventH, cancelH, kernel, refcnt, doing, wish, seen,
                 history>>
-----------------------------------------------------------------------------
(* The client: activation, cancellation, release. *)

ClientCalls == {t \in Clients : at[t] # "idle"}
Waiters == {t \in Clients : doing[t] \in {"wait", "waitActivate"}}

\* source_private.h: no activation beside a dispatch_source_cancel_and_wait.
dispatch_activate(t) ==
  /\ clientRef /\ Waiters = {} /\ phase = "inactive"
  /\ Begin(t, "activate", "finalize")
  /\ phase' = "activating"
  /\ UNCHANGED <<flags, owner, enqueued, dirty, pushed, fields, callouts, kernel, refcnt, ret,
                 wish, seen, history>>

\* A source cancelled before its activation is never registered. Whether the target
\* queue lets the activation register it depends on that queue.
finalize_activation(t) ==
  /\ at[t] = "finalize"
  /\ IF "canceled" \in flags
     THEN Call(t, "unreg", "resume")
     ELSE Call(t, "arm", "resume") \/ Call(t, "resume", "none")
  /\ UNCHANGED <<flags, word, pushed, fields, callouts, kernel, refcnt, doing, wish, seen, history>>

\* dispatch_resume takes the drain lock and drops the reference of being inactive.
activate_resume(t) ==
  /\ at[t] = "resume"
  /\ phase' = "active" /\ owner' = t /\ dirty' = FALSE
  /\ refcnt' = refcnt - 1
  /\ Go(t, "transfer")
  /\ UNCHANGED <<flags, enqueued, pushed, fields, callouts, kernel, locals, seen, history>>

\* _dispatch_try_lock_transfer_or_wakeup unlocks and looks for work.
transfer_or_wakeup(t) ==
  /\ at[t] = "transfer"
  /\ owner' = Nobody /\ dirty' = FALSE
  /\ IF ~enqueued THEN Go(t, "wakeup") /\ UNCHANGED <<locals, seen, returned>>
                  ELSE Return(t)
  /\ UNCHANGED <<flags, phase, enqueued, pushed, fields, callouts, kernel, refcnt, callers, starves,
                 clientRef, trapped>>

\* Cancel under a reference of its own, which the wakeup consumes. The event handler
\* may cancel its own source; of two calls the second one does nothing.
dispatch_source_cancel(t) ==
  /\ "canceled" \notin flags
  /\ \/ clientRef /\ t \in callers /\ Begin(t, "cancel", "wakeup")
     \/ at[t] = "handler" /\ Go(t, "wakeup") /\ UNCHANGED doing
  /\ refcnt' = refcnt + 1
  /\ flags' = flags \cup {"canceled"}
  /\ UNCHANGED <<word, pushed, fields, callouts, kernel, ret, wish, seen, history>>

\* Its rules: no cancel handler, and nobody activates the source meanwhile.
MayWait == clientRef /\ cancelH = "none" /\ (phase = "active" \/ ClientCalls = {})

\* --d: the knote and its dkev are gone.
IsDeleted(f) == f \cap State = {"deleted"}

dispatch_source_cancel_and_wait(t) ==
  /\ MayWait /\ at[t] = "idle"
  /\ flags' = IF "waiter" \in flags THEN flags
              ELSE flags \cup {"canceled"} \cup (IF "deferred" \in flags THEN {"waiter"} ELSE {})
  /\ IF IsDeleted(flags) THEN returned' = TRUE /\ UNCHANGED <<at, doing, ret>>
     ELSE /\ doing' = [doing EXCEPT ![t] = "wait"]
          /\ IF "waiter" \in flags' THEN Go(t, "await") /\ UNCHANGED ret
             ELSE Call(t, "lock", IF "canceled" \in flags THEN "again" ELSE "first")
          /\ UNCHANGED returned
  /\ UNCHANGED <<word, pushed, fields, callouts, kernel, refcnt, wish, seen, callers, starves,
                 clientRef, trapped>>

\* Plausible bug: the drainer is not told that the source is cancelled.
WaitDirties_never(t) == FALSE
\* Unlike a second call, the first one sets DIRTY when it cannot have the lock.
WaitDirties(t) == ret[t] = "first"

\* With the lock the caller cancels by itself; an inactive source it activates.
wait_lock(t) ==
  /\ at[t] = "lock"
  /\ IF Runnable
     THEN /\ owner' = t /\ dirty' = FALSE
          /\ IF flags \cap {"deferred", "deleted"} = {} THEN Call(t, "unreg", "locked")
                                                        ELSE Call(t, "transfer", "none")
          /\ UNCHANGED <<doing, trapped>>
     ELSE /\ dirty' = (dirty \/ WaitDirties(t))
          /\ trapped' = (phase = "activating")
          /\ IF phase = "inactive"
             THEN Call(t, "activate", "none") /\ doing' = [doing EXCEPT ![t] = "waitActivate"]
             ELSE Call(t, "await", "none") /\ UNCHANGED doing
          /\ UNCHANGED owner
  /\ UNCHANGED <<flags, phase, enqueued, pushed, fields, callouts, kernel, refcnt, wish, seen,
                 callers, starves, clientRef, returned>>

wait_activate(t) ==
  /\ at[t] = "activate" /\ phase = "inactive"
  /\ phase' = "activating"
  /\ Go(t, "finalize")
  /\ UNCHANGED <<flags, owner, enqueued, dirty, pushed, fields, callouts, kernel, refcnt, locals,
                 seen, history>>

wait_unregistered(t) ==
  /\ at[t] = "locked"
  /\ IF IsDeleted(flags) THEN CancelCallout ELSE UNCHANGED callouts
  /\ Go(t, "transfer")
  /\ UNCHANGED <<flags, word, pushed, fields, kernel, refcnt, locals, seen, history>>

\* The loop: return once the source is deleted, or announce a waiter ...
wait_await(t) ==
  /\ at[t] = "await"
  /\ IF IsDeleted(flags) THEN Done(t) /\ returned' = TRUE /\ UNCHANGED flags
     ELSE /\ flags' = flags \cup {"waiter"}
          /\ See(t, flags') /\ Go(t, "sleep")
          /\ UNCHANGED <<locals, returned>>
  /\ UNCHANGED <<word, pushed, fields, callouts, kernel, refcnt, callers, starves, clientRef,
                 trapped>>

\* ... and sleep, if the flags are still the same.
wait_sleep(t) ==
  /\ at[t] = "sleep"
  /\ Go(t, IF flags = seen[t] THEN "asleep" ELSE "await")
  /\ See(t, {})
  /\ UNCHANGED <<flags, word, pushed, fields, callouts, kernel, refcnt, locals, history>>

\* The last dispatch_release; the source must be active, and nobody calls in any more.
dispatch_release(t) ==
  /\ clientRef /\ phase = "active" /\ ClientCalls = {}
  /\ Begin(t, "release", "wakeup")
  /\ clientRef' = FALSE
  /\ flags' = flags \cup {"released"}
  /\ UNCHANGED <<word, pushed, fields, callouts, kernel, refcnt, ret, wish, seen, callers,
                 starves, returned, trapped>>

xref_release(t) ==
  /\ at[t] = "xrelease"
  /\ refcnt' = refcnt - 1
  /\ Done(t)
  /\ UNCHANGED <<flags, word, pushed, fields, callouts, kernel, history>>
-----------------------------------------------------------------------------
\* What a thread inside the library, a worker and the manager do by themselves.
SourceInside(t) ==
  \/ wakeup(t) \/ class_wakeup(t) \/ tryarm(t) \/ kevent_resume(t)
  \/ kevent_register_fails(t) \/ unregister(t) \/ unregister_kernel(t)
  \/ unregister_deferred(t) \/ unregister_deleted(t) \/ unregister_done(t)
  \/ t \in Workers /\ Pop(t)
  \/ drain_try_lock(t) \/ invoke2_flags(t) \/ latch_and_call(t) \/ HandlerReturns(t)
  \/ invoke_latched(t) \/ invoke_unregistered(t) \/ cancel_callout(t)
  \/ drain_try_unlock(t) \/ drain_requeue(t) \/ drain_drop(t)
  \/ t \in Managers /\ merge_kevent(t)
  \/ merge_data(t) \/ finalize_activation(t) \/ activate_resume(t) \/ transfer_or_wakeup(t)
  \/ wait_lock(t) \/ wait_activate(t) \/ wait_unregistered(t) \/ wait_await(t) \/ wait_sleep(t)
  \/ xref_release(t)

SourceNext ==
  \/ KernelDelivers
  \/ \E t \in Actors : SourceInside(t) \/ dispatch_source_cancel(t)
  \/ \E c \in callers : \/ dispatch_activate(c) \/ dispatch_source_cancel_and_wait(c)
                        \/ dispatch_release(c)

SourceSpec == SourceInit /\ [][SourceNext]_sourceVars

(* Threads inside the library run on and handlers return, the target queue and
   the kernel's events are served; the kernel owes nobody an event. *)
FairSourceSpec == SourceSpec /\ \A t \in Actors : WF_sourceVars(SourceInside(t))
-----------------------------------------------------------------------------
(* Cancellation is final. Once the cancel handler is called or a
   dispatch_source_cancel_and_wait returned, the client may close its descriptor:
   the knote is gone, no event is in flight and the event handler does not run. On
   the way there the kevent is never freed under an event, nothing is armed that
   is deleted, the source is not freed while someone uses it, and a client that
   keeps to the rules of source_private.h is not told otherwise. *)
CancellationFinal ==
  /\ cancelH = "called" \/ returned =>
       knote = "none" /\ posted = "none" /\ SourceAt({"handler"}) = {}
  /\ ~dkev => knote = "none" /\ posted = "none"
  /\ ~({"armed", "deleted"} \subseteq flags)
  /\ refcnt = 0 => /\ ~clientRef /\ ~pushed /\ knote = "none" /\ posted = "none"
                   /\ SourceAt({"idle"}) = Actors
  /\ ~trapped

Quiet == phase = "active" /\ ~pushed /\ posted = "none" /\ SourceAt({"idle", "asleep"}) = Actors

(* Nothing is left behind. When nobody is at work the source is out of its queue
   and unlocked; its data was delivered and it is armed, or it is deleted; a
   cancelled or released one is deleted, has called or dropped its handlers and
   woken its waiters; and what is left of its references is the client's and the
   manager queue's, so it is freed exactly when both are gone. *)
NothingLeftBehind == Quiet =>
  /\ owner = Nobody /\ ~enqueued /\ SourceAt({"asleep"}) = {}
  /\ refcnt = (IF clientRef THEN 1 ELSE 0) + (IF IsDeleted(flags) THEN 0 ELSE 1)
  /\ IF flags \cap Over = {}
     THEN ~data /\ (IsDeleted(flags) \/ flags \cap State = {"armed"})
     ELSE IsDeleted(flags) /\ cancelH # "set" /\ ("released" \in flags => ~eventH)

\* What the source owes: an event on its way to merge_kevent, data that was merged
\* into a source that is not deleted, a caller of dispatch_source_cancel_and_wait,
\* and the end of a cancellation or of a last release.
Unsettled ==
  \/ posted # "none"
  \/ data /\ ~IsDeleted(flags)
  \/ Waiters # {}
  \/ flags \cap Over # {} /\ phase = "active" /\ (~IsDeleted(flags) \/ cancelH = "set")

(* From every state on the source gets to owe nothing. So every event, of a
   cancelled source or not, is delivered, and its data taken by the event handler,
   dropped by cancel_callout or left in a source that is deleted; every
   cancellation and every last release comes to its end, and every caller of
   dispatch_source_cancel_and_wait returns. *)
EverythingServed == []<>~Unsettled
=============================================================================
