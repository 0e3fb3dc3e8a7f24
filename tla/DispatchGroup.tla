--------------------------- MODULE DispatchGroup ---------------------------
(* dispatch_group_t of libdispatch, libdispatch_sourceCode/src/semaphore.c: *)
(* enter and leave, waits with a timeout, notifications on a lock-free list *)
(* and the references that keep the group alive. One atomic operation or    *)
(* kernel call is one step. The lazily created port of the group is the one *)
(* of DispatchSemaphore.tla; here only its wakeups are kept.                *)
EXTENDS Integers, FiniteSets

CONSTANTS Threads,      \* the threads that call the group
          Conts,        \* the notification blocks, each submitted at most once
          Casts,        \* which threads wait and which blocks notify: one of these
          LongMax,      \* LONG_MAX: the width of dg_value
          Timeouts,     \* the timeouts passed to dispatch_group_wait
          NULL

ASSUME GroupAssumption == /\ IsFiniteSet(Threads) /\ Casts \subseteq SUBSET (Threads \cup Conts)
                          /\ LongMax \in Nat \ {0}
                          /\ Timeouts \subseteq {"now", "finite", "forever"}
                          /\ NULL \notin Conts

VARIABLES dg_value,         \* enters minus leaves
          dg_waiters,       \* waiters the next wake must post for
          dg_notify_head, dg_notify_tail, \* the list of notifications
          do_next,          \* its links
          do_ref_cnt,       \* internal references, 0 for one of them
          tokens,           \* wakeups posted to the port and not consumed
          fr,               \* the frame of the call each thread is in
          cast,             \* the waiting threads and the blocks of this behaviour
          client,           \* the client still holds its reference
          life,             \* alive, disposed, or the crash that happened
          notified,         \* blocks handed to dispatch_group_notify
          submitted,        \* how often each was put on its queue
          dq_refs           \* references taken on the queues of notifications

vars == <<dg_value, dg_waiters, dg_notify_head, dg_notify_tail, do_next,
          do_ref_cnt, tokens, fr, cast, client, life, notified, submitted, dq_refs>>
counts == <<dg_value, dg_waiters>>
list   == <<dg_notify_head, dg_notify_tail, do_next>>
refs   == <<do_ref_cnt, life>>
blocks == <<notified, submitted, dq_refs>>

Idle == [pc |-> "idle", ret |-> "idle", needs_release |-> FALSE, head |-> NULL,
         tail |-> NULL, rval |-> 0, dsn |-> NULL, prev |-> NULL,
         timeout |-> "forever", orig_waiters |-> 0]

At(t, l)   == fr[t].pc = l
Goto(t, l) == fr' = [fr EXCEPT ![t].pc = l]
Return(t)  == fr' = [fr EXCEPT ![t] = Idle]
In(l)      == {t \in Threads : At(t, l)}

\* dispatch_group_create and _dispatch_group_create_and_enter.
Init == /\ dg_value \in {0, 1}
        /\ do_ref_cnt = dg_value
        /\ dg_waiters = 0 /\ tokens = 0
        /\ dg_notify_head = NULL /\ dg_notify_tail = NULL
        /\ do_next = [c \in Conts |-> NULL]
        /\ fr = [t \in Threads |-> Idle]
        /\ cast \in Casts /\ client = TRUE /\ life = "alive"
        /\ notified = {} /\ dq_refs = 0
        /\ submitted = [c \in Conts |-> 0]

-----------------------------------------------------------------------------
\* Plausible bugs of the definitions below.
WaitRecheck_skips(t) ==
    Goto(t, IF fr[t].timeout = "finite" THEN "timedwait" ELSE "drain")
NotifyCheck_skips(t) == Return(t)
SnapshotTail_early(t) == [fr EXCEPT ![t].tail = fr[t].head, ![t].pc = "waiters"]
EnterNeedsRetain_never(v) == FALSE
Undo_forgets(n) == n

-----------------------------------------------------------------------------
\* _os_object_retain_internal_inline and _os_object_release_internal_inline,
\* with _dispatch_group_dispose when the last reference goes.
Retain == /\ do_ref_cnt' = do_ref_cnt + 1
          /\ life' = IF do_ref_cnt + 1 =< 0 THEN "resurrected" ELSE life

Release == /\ do_ref_cnt' = do_ref_cnt - 1
           /\ life' = IF do_ref_cnt - 1 >= 0 THEN life
                      ELSE IF do_ref_cnt - 1 < -1 THEN "overreleased"
                      ELSE IF dg_value # 0 THEN "inuse" ELSE "disposed"

-----------------------------------------------------------------------------
\* _dispatch_group_wake: snapshot the list, claim the waiters, post for each of
\* them, submit the snapshot, drop the references the two sides held.
StartWake(t, needs, ret) ==
    fr' = [fr EXCEPT ![t].pc = "head", ![t].needs_release = needs, ![t].ret = ret]

wake_head(t) ==
    /\ At(t, "head")
    /\ dg_notify_head' = NULL
    /\ fr' = [fr EXCEPT ![t].head = dg_notify_head,
                        ![t].pc = IF dg_notify_head = NULL THEN "waiters" ELSE "tail"]
    /\ UNCHANGED <<counts, dg_notify_tail, do_next, refs, tokens, client, blocks>>

SnapshotTail(t) == [fr EXCEPT ![t].tail = dg_notify_tail, ![t].pc = "waiters"]

wake_tail(t) ==
    /\ At(t, "tail")
    /\ dg_notify_tail' = NULL
    /\ fr' = SnapshotTail(t)
    /\ UNCHANGED <<counts, dg_notify_head, do_next, refs, tokens, client, blocks>>

\* The rest of the wake once f.rval posts are made; a wait that woke the group
\* itself goes on to consume its own wakeup.
Resume(f) == IF f.ret = "drain" THEN [Idle EXCEPT !.pc = "drain"] ELSE Idle
AfterNotify(f) == IF f.needs_release THEN [f EXCEPT !.pc = "release"] ELSE Resume(f)
AfterPosts(f) == IF f.head # NULL THEN [f EXCEPT !.pc = "notify"] ELSE AfterNotify(f)

wake_waiters(t) ==
    /\ At(t, "waiters")
    /\ dg_waiters' = 0
    /\ fr' = [fr EXCEPT ![t] = IF dg_waiters = 0 THEN AfterPosts(@)
                               ELSE [@ EXCEPT !.pc = "post", !.rval = dg_waiters]]
    /\ UNCHANGED <<dg_value, list, refs, tokens, client, blocks>>

wake_post(t) ==
    /\ At(t, "post")
    /\ tokens' = tokens + 1
    /\ fr' = [fr EXCEPT ![t] = IF @.rval > 1 THEN [@ EXCEPT !.rval = fr[t].rval - 1]
                               ELSE AfterPosts([@ EXCEPT !.rval = 0])]
    /\ UNCHANGED <<counts, list, refs, client, blocks>>

\* os_mpsc_pop_snapshot_head: the next block, once its producer has linked it.
Pop(f) == IF f.head = f.tail THEN NULL ELSE do_next[f.head]

wake_notify(t) ==
    /\ At(t, "notify")
    /\ fr[t].head = fr[t].tail \/ do_next[fr[t].head] # NULL
    /\ submitted' = [submitted EXCEPT ![fr[t].head] = @ + 1]
    /\ dq_refs' = dq_refs - 1
    /\ fr' = [fr EXCEPT ![t].head = Pop(fr[t]),
                        ![t].pc = IF Pop(fr[t]) = NULL THEN "listRelease" ELSE "notify"]
    /\ UNCHANGED <<counts, list, refs, tokens, client, notified>>

wake_listRelease(t) ==
    /\ At(t, "listRelease")
    /\ Release
    /\ fr' = [fr EXCEPT ![t] = AfterNotify(@)]
    /\ UNCHANGED <<counts, list, tokens, client, blocks>>

WakeRelease == Release

wake_release(t) ==
    /\ At(t, "release")
    /\ WakeRelease
    /\ fr' = [fr EXCEPT ![t] = Resume(@)]
    /\ UNCHANGED <<counts, list, tokens, client, blocks>>

-----------------------------------------------------------------------------
\* Only the enter that makes the group non-empty retains it.
EnterNeedsRetain(v) == v = 0

dispatch_group_enter(t) ==
    /\ At(t, "idle") /\ client
    /\ dg_value' = dg_value + 1
    /\ life' = IF dg_value >= LongMax THEN "overflow" ELSE life
    /\ fr' = [fr EXCEPT ![t].pc = IF EnterNeedsRetain(dg_value) THEN "enterRetain"
                                  ELSE "idle"]
    /\ UNCHANGED <<dg_waiters, list, do_ref_cnt, tokens, client, blocks>>

enter_retain(t) ==
    /\ At(t, "enterRetain")
    /\ Retain
    /\ Return(t)
    /\ UNCHANGED <<counts, list, tokens, client, blocks>>

\* A leave pairs with an enter that has returned, and needs no reference of its
\* own; or it is the unbalanced leave the code traps on.
dispatch_group_leave(t) ==
    /\ At(t, "idle")
    /\ dg_value > Cardinality(In("enterRetain")) \/ (dg_value = 0 /\ client)
    /\ dg_value' = dg_value - 1
    /\ life' = IF dg_value - 1 < 0 THEN "unbalanced" ELSE life
    /\ IF dg_value - 1 = 0 THEN StartWake(t, TRUE, "idle") ELSE fr' = fr
    /\ UNCHANGED <<dg_waiters, list, do_ref_cnt, tokens, client, blocks>>

-----------------------------------------------------------------------------
\* dispatch_group_wait returns at once if the group is empty or the timeout is
\* DISPATCH_TIME_NOW, and otherwise calls _dispatch_group_wait_slow.
dispatch_group_wait(t, when) ==
    /\ At(t, "idle") /\ client /\ t \in cast
    /\ dg_value # 0 /\ when # "now"
    /\ fr' = [fr EXCEPT ![t].pc = "load", ![t].timeout = when]
    /\ UNCHANGED <<counts, list, refs, tokens, client, blocks>>

wait_slow_load(t) ==
    /\ At(t, "load")
    /\ IF dg_value = 0 THEN StartWake(t, FALSE, "idle") ELSE Goto(t, "register")
    /\ UNCHANGED <<counts, list, refs, tokens, client, blocks>>

wait_slow_register(t) ==
    /\ At(t, "register")
    /\ dg_waiters' = dg_waiters + 1
    /\ Goto(t, "recheck")
    /\ UNCHANGED <<dg_value, list, refs, tokens, client, blocks>>

WaitRecheck(t) == IF dg_value = 0 THEN StartWake(t, FALSE, "drain")
                  ELSE Goto(t, IF fr[t].timeout = "finite" THEN "timedwait"
                               ELSE "drain")

wait_slow_recheck(t) ==
    /\ At(t, "recheck")
    /\ WaitRecheck(t)
    /\ UNCHANGED <<counts, list, refs, tokens, client, blocks>>

wait_slow_wakeup(t) ==
    /\ At(t, "timedwait") \/ At(t, "drain")
    /\ tokens > 0
    /\ tokens' = tokens - 1
    /\ Return(t)
    /\ UNCHANGED <<counts, list, refs, client, blocks>>

wait_slow_timeout(t) ==
    /\ At(t, "timedwait")
    /\ Goto(t, "undoLoad")
    /\ UNCHANGED <<counts, list, refs, tokens, client, blocks>>

\* while (orig_waiters); otherwise a wake has claimed this waiter: drain it.
UndoStart(t) == fr' = [fr EXCEPT ![t].orig_waiters = dg_waiters,
                                 ![t].pc = IF dg_waiters # 0 THEN "undoCAS" ELSE "drain"]

wait_slow_undoLoad(t) ==
    /\ At(t, "undoLoad")
    /\ UndoStart(t)
    /\ UNCHANGED <<counts, list, refs, tokens, client, blocks>>

Undo(n) == n - 1

wait_slow_undoCAS(t) ==
    /\ At(t, "undoCAS")
    /\ IF dg_waiters = fr[t].orig_waiters
       THEN dg_waiters' = Undo(dg_waiters) /\ Return(t)
       ELSE dg_waiters' = dg_waiters /\ UndoStart(t)
    /\ UNCHANGED <<dg_value, list, refs, tokens, client, blocks>>

-----------------------------------------------------------------------------
\* _dispatch_group_notify: retain the queue, swing the tail, and link to the
\* predecessor, or, on an empty list, retain the group and publish the head.
dispatch_group_notify(t, c) ==
    /\ At(t, "idle") /\ client /\ c \in cast \ notified
    /\ notified' = notified \cup {c}
    /\ dq_refs' = dq_refs + 1
    /\ dg_notify_tail' = c
    /\ fr' = [fr EXCEPT ![t].dsn = c, ![t].prev = dg_notify_tail,
                ![t].pc = IF dg_notify_tail = NULL THEN "notifyRetain" ELSE "link"]
    /\ UNCHANGED <<counts, dg_notify_head, do_next, refs, tokens, client, submitted>>

notify_link(t) ==
    /\ At(t, "link")
    /\ do_next' = [do_next EXCEPT ![fr[t].prev] = fr[t].dsn]
    /\ Return(t)
    /\ UNCHANGED <<counts, dg_notify_head, dg_notify_tail, refs, tokens, client, blocks>>

notify_retain(t) ==
    /\ At(t, "notifyRetain")
    /\ Retain
    /\ Goto(t, "publish")
    /\ UNCHANGED <<counts, list, tokens, client, blocks>>

notify_publish(t) ==
    /\ At(t, "publish")
    /\ dg_notify_head' = fr[t].dsn
    /\ Goto(t, "notifyCheck")
    /\ UNCHANGED <<counts, dg_notify_tail, do_next, refs, tokens, client, blocks>>

\* seq_cst with the store to dg_notify_head.
NotifyCheck(t) == IF dg_value = 0 THEN StartWake(t, FALSE, "idle") ELSE Return(t)

notify_check(t) ==
    /\ At(t, "notifyCheck")
    /\ NotifyCheck(t)
    /\ UNCHANGED <<counts, list, refs, tokens, client, blocks>>

-----------------------------------------------------------------------------
\* The calls that run on the client's reference; a wake on behalf of a leave
\* runs on the reference the first enter took.
OnClientRef(t) == ~At(t, "idle") /\ ~fr[t].needs_release

\* dispatch_release of the client's reference, between its calls.
client_release ==
    /\ client /\ \A t \in Threads : ~OnClientRef(t)
    /\ client' = FALSE
    /\ Release
    /\ UNCHANGED <<counts, list, tokens, fr, blocks>>

Wake(t) == \/ wake_head(t) \/ wake_tail(t) \/ wake_waiters(t) \/ wake_post(t)
           \/ wake_notify(t) \/ wake_listRelease(t) \/ wake_release(t)

WaitSlow(t) == \/ wait_slow_load(t) \/ wait_slow_register(t)
               \/ wait_slow_recheck(t) \/ wait_slow_wakeup(t)
               \/ wait_slow_timeout(t) \/ wait_slow_undoLoad(t)
               \/ wait_slow_undoCAS(t)

Notify(t) == \/ notify_link(t) \/ notify_retain(t)
             \/ notify_publish(t) \/ notify_check(t)

Inside(t) == enter_retain(t) \/ Wake(t) \/ WaitSlow(t) \/ Notify(t)

Call(t) == \/ dispatch_group_enter(t)
           \/ dispatch_group_leave(t)
           \/ \E when \in Timeouts : dispatch_group_wait(t, when)
           \/ \E c \in Conts : dispatch_group_notify(t, c)

Next == /\ life \in {"alive", "disposed"}
        /\ client_release \/ \E t \in Threads : Inside(t) \/ Call(t)
        /\ UNCHANGED cast

Spec == Init /\ [][Next]_vars

(* A thread inside a call runs on. A wait is not passed over for ever: while  *)
(* wakeups keep coming the kernel gives it one (SYNC_POLICY_FIFO), and its    *)
(* undo loop does not lose every race.                                        *)
Waiting == Threads \cap UNION Casts
EndWait(t) == wait_slow_wakeup(t) \/ (wait_slow_undoCAS(t) /\ fr'[t].pc = "idle")

Fairness == /\ \A t \in Threads : WF_vars(Inside(t) /\ UNCHANGED cast)
            /\ \A t \in Waiting : SF_vars(EndWait(t) /\ UNCHANGED cast)

FairSpec == Spec /\ Fairness

-----------------------------------------------------------------------------
Labels == {"idle", "head", "tail", "waiters", "post", "notify", "listRelease",
           "release", "enterRetain", "load", "register", "recheck", "timedwait",
           "drain", "undoLoad", "undoCAS", "link", "notifyRetain", "publish",
           "notifyCheck"}
Frame == [pc : Labels, ret : {"idle", "drain"}, needs_release : BOOLEAN,
          head : Conts \cup {NULL}, tail : Conts \cup {NULL},
          rval : 0..Cardinality(Threads), dsn : Conts \cup {NULL},
          prev : Conts \cup {NULL}, timeout : Timeouts \cup {"forever"},
          orig_waiters : Nat]
TypeOK ==
    /\ dg_value \in -1..LongMax + 1 /\ dg_waiters \in Nat /\ tokens \in Nat
    /\ do_ref_cnt \in Int /\ client \in BOOLEAN
    /\ {dg_notify_head, dg_notify_tail} \subseteq Conts \cup {NULL}
    /\ do_next \in [Conts -> Conts \cup {NULL}]
    /\ submitted \in [Conts -> Nat] /\ notified \subseteq Conts /\ dq_refs \in Int
    /\ life \in {"alive", "disposed", "overflow", "unbalanced", "resurrected",
                 "overreleased", "inuse"}
    /\ fr \in [Threads -> Frame]

BoolToNat(b) == IF b THEN 1 ELSE 0

\* The waits that wait_slow_register has counted and that have not returned, and
\* those that a wake has claimed and not posted for yet, one entry for each.
Registered == {t \in Threads : fr[t].ret = "drain" \/ fr[t].pc \in
                 {"recheck", "timedwait", "undoLoad", "undoCAS", "drain"}}
Claimed == {p \in Threads \X (1..Cardinality(Threads)) : p[2] =< fr[p[1]].rval}

(* Every registered wait is counted once: in dg_waiters, by a wake that has   *)
(* claimed it and not yet posted for it, or by a posted wakeup. So a timeout  *)
(* racing a wake neither loses a wakeup nor leaves one for a later wait.      *)
WaiterAccounting ==
    Cardinality(Registered) = dg_waiters + tokens + Cardinality(Claimed)

\* Threads with a reference of the group still to take, or to drop.
Entering      == In("enterRetain")
ReleasingWake == {t \in Threads : fr[t].needs_release}
Publishing    == In("publish")
ReleasingList == {t \in Threads : At(t, "listRelease") \/ fr[t].head # NULL}

(* The references add up: one for the client, one while the group is not      *)
(* empty, one while the list is not empty, plus those that a thread has still *)
(* to take (an enter) or to drop (a wake).                                    *)
ReferenceAccounting ==
    life = "alive" =>
      do_ref_cnt + 1 =
          BoolToNat(client) + BoolToNat(dg_value > 0) - Cardinality(Entering)
        + Cardinality(ReleasingWake)
        + BoolToNat(dg_notify_head # NULL) + Cardinality(Publishing)
        + Cardinality(ReleasingList)

\* The inductive part: types, waits and references.
Accounting == TypeOK /\ WaiterAccounting /\ ReferenceAccounting

(* Nobody is inside a call of a group that has been disposed of, and clients  *)
(* that pair their calls never meet the traps for resurrecting,               *)
(* over-releasing or deallocating a group in use, even when the last leave    *)
(* races the client's release.                                                *)
NoUseAfterDispose ==
    /\ life = "disposed" => In("idle") = Threads /\ ~client
    /\ life \notin {"resurrected", "overreleased", "inuse"}

(* A notification block is submitted at most once, keeps its queue alive      *)
(* until then, and is never written to by a later notify once submitted.      *)
NotifyAtMostOnce ==
    /\ \A c \in Conts : submitted[c] =< (IF c \in notified THEN 1 ELSE 0)
    /\ dq_refs = Cardinality({c \in notified : submitted[c] = 0})
    /\ \A t \in In("link") : submitted[fr[t].prev] = 0

Asleep == In("timedwait") \cup In("drain")

(* When the group is empty and every thread is outside its calls or asleep in *)
(* a wait, nothing is left behind: no waiter is counted that nobody will post *)
(* for, every sleeper has its wakeup and there is no other, so that no wait   *)
(* sleeps on in an empty group or takes the wakeup of an earlier one; and no  *)
(* notification is left.                                                      *)
NothingLeftBehind ==
    (dg_value = 0 /\ In("idle") \cup Asleep = Threads /\ life \in {"alive", "disposed"}) =>
      /\ dg_waiters = 0 /\ tokens = Cardinality(Asleep)
      /\ dg_notify_head = NULL /\ dg_notify_tail = NULL
      /\ \A c \in notified : submitted[c] = 1

\* What makes these inductive. A thread is in a wake, or on the client's
\* reference; a group that an enter has still to retain is not empty; and one
\* thread at a time publishes a head, or has taken one and not yet its tail.
WakeLabels == {"head", "tail", "waiters", "post", "notify", "listRelease", "release"}
Frames == \A t \in Threads :
    /\ fr[t].ret = "drain" => fr[t].pc \in WakeLabels \ {"release"} /\ ~fr[t].needs_release
    /\ fr[t].needs_release => fr[t].pc \in WakeLabels
    /\ fr[t].pc = "release" => fr[t].needs_release
    /\ fr[t].pc \in {"tail", "notify"} => fr[t].head # NULL
    /\ fr[t].head # NULL => fr[t].pc \in {"tail", "waiters", "post", "notify"}
    /\ fr[t].rval > 0 <=> fr[t].pc = "post"
    /\ fr[t].pc = "undoCAS" => fr[t].orig_waiters > 0
    /\ fr[t].pc \in {"notifyRetain", "publish", "link"} => fr[t].dsn # NULL
    /\ fr[t].pc = "link" => fr[t].prev # NULL
OnReferences ==
    /\ \A t \in Threads : OnClientRef(t) => client
    /\ life \in {"alive", "disposed"} => dg_value \in 0..LongMax
    /\ life \in {"alive", "disposed"} => Cardinality(Entering) =< BoolToNat(dg_value > 0)
    /\ life = "disposed" => dg_value = 0 /\ ~client /\ dg_notify_head = NULL
Heading == {t \in Threads : fr[t].pc \in {"notifyRetain", "publish", "tail"}}
OneHead == Cardinality(Heading) + BoolToNat(dg_notify_head # NULL)
             = BoolToNat(dg_notify_tail # NULL)
GroupInv == Accounting /\ Frames /\ OnReferences /\ OneHead /\ NoUseAfterDispose

\* One way leads to a block that waits to be submitted: the head of the list, a
\* thread that links, publishes or pops it, or the link of a pending predecessor.
\* One way leads on from it: the tail, the thread that links its successor, or
\* the wake that has it as the last of its snapshot; or it has its link. A head,
\* and a counted waiter, on an empty group is about to be looked at.
Awaiting(c) == c \in notified /\ submitted[c] = 0
Holds(t) == IF fr[t].pc \in {"notifyRetain", "publish", "link"} THEN fr[t].dsn
            ELSE fr[t].head
Ends(t) == IF fr[t].pc = "link" THEN fr[t].prev
           ELSE IF fr[t].head # NULL /\ fr[t].pc # "tail" THEN fr[t].tail ELSE NULL
OneWayIn ==
    /\ dg_notify_head # NULL => Awaiting(dg_notify_head)
    /\ \A t \in Threads : Holds(t) # NULL =>
         /\ Awaiting(Holds(t)) /\ Holds(t) # dg_notify_head
         /\ \A u \in Threads \ {t} : Holds(u) # Holds(t)
    /\ \A c \in Conts : submitted[c] = 0 /\ do_next[c] # NULL =>
         /\ Awaiting(do_next[c]) /\ do_next[c] # dg_notify_head
         /\ \A t \in Threads : Holds(t) # do_next[c]
         /\ \A d \in Conts \ {c} : submitted[d] = 0 => do_next[d] # do_next[c]
OneWayOut ==
    /\ dg_notify_tail # NULL => Awaiting(dg_notify_tail) /\ do_next[dg_notify_tail] = NULL
    /\ \A t \in Threads : Ends(t) # NULL =>
         /\ Awaiting(Ends(t)) /\ do_next[Ends(t)] = NULL /\ Ends(t) # dg_notify_tail
         /\ \A u \in Threads \ {t} : Ends(u) # Ends(t)
    /\ \A c \in Conts : do_next[c] # NULL => c \in notified
Reached == \A c \in notified : submitted[c] = 0 =>
    \/ dg_notify_head = c
    \/ \E t \in Threads : Holds(t) = c
    \/ \E d \in notified : submitted[d] = 0 /\ do_next[d] = c
HeadWatched == (dg_notify_head # NULL /\ dg_value = 0 /\ life \in {"alive", "disposed"}) =>
    \E t \in Threads : fr[t].pc \in {"notifyCheck", "head"}
WaitersWatched == (dg_waiters > 0 /\ dg_value = 0 /\ life \in {"alive", "disposed"}) =>
    \E t \in Threads : fr[t].pc \in {"recheck", "head", "tail", "waiters"}
ListInv == GroupInv /\ OneWayIn /\ OneWayOut /\ Reached /\ HeadWatched /\ WaitersWatched
             /\ NotifyAtMostOnce

GroupKeepsEmptying == []<>(dg_value = 0) /\ [](life \in {"alive", "disposed"})

(* As long as the group empties again and again, every wait returns, whether   *)
(* the kernel wakes it, its timeout ends or the value moved before it slept,   *)
(* and every block is submitted.                                               *)
EverythingServed == GroupKeepsEmptying =>
    /\ \A t \in Waiting : (t \in Registered) ~> (t \notin Registered)
    /\ \A c \in Conts : (c \in notified) ~> (submitted[c] = 1)
=============================================================================
