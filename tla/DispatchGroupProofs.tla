------------------------ MODULE DispatchGroupProofs ------------------------
(* Theorems on dispatch_group_t, for every set of threads and blocks, every   *)
(* width of the counter and every choice of timeouts.                        *)
EXTENDS DispatchGroup, Counting

\* One step of a thread, as in Next.
Moves(t) == Inside(t) \/ Call(t)

(* A step of one thread moves no other.                                      *)
LEMMA OthersStay ==
  ASSUME TypeOK, NEW t \in Threads, Moves(t)
  PROVE  /\ \A u \in Threads \ {t} : fr'[u] = fr[u]
         /\ fr' = [fr EXCEPT ![t] = fr'[t]]
<1> USE DEF TypeOK, Goto, Return, StartWake
<1>1. CASE Wake(t)
  BY <1>1 DEF Wake, wake_head, wake_tail, wake_waiters, wake_post, wake_notify,
              wake_listRelease, wake_release, SnapshotTail
<1>2. CASE WaitSlow(t)
  BY <1>2 DEF WaitSlow, wait_slow_load, wait_slow_register, wait_slow_recheck,
              wait_slow_wakeup, wait_slow_timeout, wait_slow_undoLoad, wait_slow_undoCAS,
              WaitRecheck, UndoStart
<1>3. CASE Notify(t) \/ enter_retain(t)
  BY <1>3 DEF Notify, notify_link, notify_retain, notify_publish, notify_check,
              NotifyCheck, enter_retain
<1>4. CASE Call(t)
  BY ZenonT(60), <1>4 DEF Call, dispatch_group_enter, dispatch_group_leave, dispatch_group_wait,
              dispatch_group_notify
<1> QED
  BY <1>1, <1>2, <1>3, <1>4 DEF Moves, Inside

-----------------------------------------------------------------------------
(* The sums of the two accountings are natural numbers, and no more waits     *)
(* are counted or claimed than there are threads.                            *)
LEMMA CountsAreNat ==
  ASSUME TypeOK
  PROVE  /\ IsFiniteSet(Registered) /\ Cardinality(Registered) \in Nat
         /\ Cardinality(Registered) =< Cardinality(Threads)
         /\ IsFiniteSet(Claimed) /\ Cardinality(Claimed) \in Nat
         /\ IsFiniteSet(Entering) /\ Cardinality(Entering) \in Nat
         /\ IsFiniteSet(ReleasingWake) /\ Cardinality(ReleasingWake) \in Nat
         /\ IsFiniteSet(Publishing) /\ Cardinality(Publishing) \in Nat
         /\ IsFiniteSet(ReleasingList) /\ Cardinality(ReleasingList) \in Nat
         /\ IsFiniteSet(Heading) /\ Cardinality(Heading) \in Nat
         /\ Cardinality(Threads) \in Nat
<1>1. /\ Registered \subseteq Threads /\ Entering \subseteq Threads
      /\ ReleasingWake \subseteq Threads /\ Publishing \subseteq Threads
      /\ ReleasingList \subseteq Threads /\ Heading \subseteq Threads
  BY DEF Registered, Entering, ReleasingWake, Publishing, ReleasingList, Heading, In
<1>2. IsFiniteSet(Threads) /\ Cardinality(Threads) \in Nat
  BY GroupAssumption, FS_CardinalityType
<1>3. IsFiniteSet(Claimed)
  <2>1. 1 \in Int /\ Cardinality(Threads) \in Int
    BY <1>2
  <2>2. IsFiniteSet(1..Cardinality(Threads))
    BY <2>1, FS_Interval
  <2>3. IsFiniteSet(Threads \X (1..Cardinality(Threads)))
    BY <1>2, <2>2, FS_Product
  <2>4. Claimed \subseteq Threads \X (1..Cardinality(Threads))
    BY DEF Claimed
  <2> QED
    BY <2>3, <2>4, FS_Subset
<1> QED
  BY <1>1, <1>2, <1>3, FS_Subset, FS_CardinalityType

LEMMA WaitersBounded ==
  ASSUME TypeOK, WaiterAccounting
  PROVE  dg_waiters \in 0..Cardinality(Threads)
BY CountsAreNat DEF TypeOK, WaiterAccounting

(* The state of the frame that a wake goes on with is one of a few.          *)
LEMMA AfterFrames ==
  ASSUME NEW f \in Frame, f.rval = 0
  PROVE  /\ Resume(f) \in Frame /\ AfterNotify(f) \in Frame /\ AfterPosts(f) \in Frame
         /\ Resume(f).pc \in {"idle", "drain"} /\ Resume(f).head = NULL
         /\ Resume(f).rval = 0 /\ Resume(f).ret = "idle" /\ ~Resume(f).needs_release
         /\ Resume(f).pc = "drain" <=> f.ret = "drain"
         /\ f.needs_release => AfterNotify(f) = [f EXCEPT !.pc = "release"]
         /\ ~f.needs_release => AfterNotify(f) = Resume(f)
         /\ f.head # NULL => AfterPosts(f) = [f EXCEPT !.pc = "notify"]
         /\ f.head = NULL => AfterPosts(f) = AfterNotify(f)
<1>0. Cardinality(Threads) \in Nat
  BY GroupAssumption, FS_CardinalityType
<1>1. Idle \in Frame /\ [Idle EXCEPT !.pc = "drain"] \in Frame
  BY ZenonT(60), <1>0 DEF Idle, Frame, Labels
<1>2. /\ Resume(f) \in Frame /\ Resume(f).pc \in {"idle", "drain"} /\ Resume(f).head = NULL
      /\ Resume(f).rval = 0 /\ Resume(f).ret = "idle" /\ ~Resume(f).needs_release
      /\ Resume(f).pc = "drain" <=> f.ret = "drain"
  BY <1>1 DEF Resume, Idle
<1>3. [f EXCEPT !.pc = "release"] \in Frame /\ [f EXCEPT !.pc = "notify"] \in Frame
  BY DEF Frame, Labels
<1> QED
  BY <1>2, <1>3 DEF AfterNotify, AfterPosts

(* Every step keeps the types, and a thread where its frame says it is.      *)
LEMMA FrameStep ==
  ASSUME GroupInv, NEW t \in Threads, Moves(t)
  PROVE  fr'[t] \in Frame
<1> USE GroupAssumption DEF GroupInv, Accounting, TypeOK, Frames
<1>1. Cardinality(Threads) \in Nat /\ dg_waiters \in 0..Cardinality(Threads) /\ fr[t] \in Frame
  BY CountsAreNat, WaitersBounded
<1>2. Idle \in Frame
  BY <1>1 DEF Idle, Frame, Labels
<1>3. CASE wake_head(t) \/ wake_tail(t)
  BY <1>1, <1>3 DEF wake_head, wake_tail, SnapshotTail, Frame, Labels
<1>4. CASE wake_waiters(t)
  <2>1. fr[t].rval = 0
    BY <1>1, <1>4 DEF wake_waiters, At, Frame
  <2>2. CASE dg_waiters = 0
    BY <1>1, <1>4, <2>1, <2>2, AfterFrames DEF wake_waiters
  <2>3. CASE dg_waiters # 0
    BY ZenonT(60), <1>1, <1>4, <2>3 DEF wake_waiters, Frame, Labels
  <2> QED
    BY <2>2, <2>3
<1>5. CASE wake_post(t)
  <2>1. CASE fr[t].rval > 1
    <3>1. fr[t].rval - 1 \in 0..Cardinality(Threads)
      BY <1>1, <2>1 DEF Frame
    <3>2. [fr[t] EXCEPT !.rval = fr[t].rval - 1] \in Frame
      <4> HIDE DEF TypeOK
      <4> QED
        BY <1>1, <3>1 DEF Frame
    <3> QED
      BY <1>1, <1>5, <2>1, <3>2 DEF wake_post
  <2>2. CASE ~(fr[t].rval > 1)
    <3>1. [fr[t] EXCEPT !.rval = 0] \in Frame
      BY <1>1 DEF Frame
    <3>2. AfterPosts([fr[t] EXCEPT !.rval = 0]) \in Frame
      BY <3>1, AfterFrames DEF Frame
    <3> QED
      BY <1>1, <1>5, <2>2, <3>2 DEF wake_post
  <2> QED
    BY <2>1, <2>2
<1>6. CASE wake_notify(t)
  <2>1. fr[t].head \in Conts
    BY <1>1, <1>6 DEF wake_notify, At, Frame
  <2>2. Pop(fr[t]) \in Conts \cup {NULL}
    BY <2>1 DEF Pop
  <2> QED
    BY ZenonT(60), <1>1, <1>6, <2>2 DEF wake_notify, Frame, Labels
<1>7. CASE wake_listRelease(t) \/ wake_release(t)
  <2>1. fr[t].rval = 0
    BY <1>1, <1>7 DEF wake_listRelease, wake_release, At, Frame
  <2> QED
    BY <1>1, <1>7, <2>1, AfterFrames DEF wake_listRelease, wake_release
<1>8. CASE WaitSlow(t)
  BY SMTT(60), <1>1, <1>2, <1>8
  DEF WaitSlow, wait_slow_load, wait_slow_register, wait_slow_recheck,
      wait_slow_wakeup, wait_slow_timeout, wait_slow_undoLoad, wait_slow_undoCAS,
      WaitRecheck, UndoStart, StartWake, Goto, Return, Frame, Labels
<1>9. CASE Notify(t) \/ enter_retain(t)
  BY <1>1, <1>2, <1>9
  DEF Notify, notify_link, notify_retain, notify_publish, notify_check, NotifyCheck,
      enter_retain, StartWake, Goto, Return, Frame, Labels
<1>10. CASE dispatch_group_enter(t) \/ dispatch_group_leave(t)
  BY <1>1, <1>10
  DEF dispatch_group_enter, dispatch_group_leave, StartWake, Frame, Labels
<1>11. ASSUME NEW when \in Timeouts, dispatch_group_wait(t, when) PROVE fr'[t] \in Frame
  BY ZenonT(60), <1>1, <1>11 DEF dispatch_group_wait, Frame, Labels
<1>12. ASSUME NEW c \in Conts, dispatch_group_notify(t, c) PROVE fr'[t] \in Frame
  BY ZenonT(60), <1>1, <1>12 DEF dispatch_group_notify, Frame, Labels
<1> QED
  BY <1>3, <1>4, <1>5, <1>6, <1>7, <1>8, <1>9, <1>10, <1>11, <1>12
  DEF Moves, Inside, Wake, Call

LEMMA FramesStep ==
  ASSUME GroupInv, NEW t \in Threads, Moves(t)
  PROVE  Frames'
<1> USE DEF GroupInv, Accounting, TypeOK
<1> DEFINE Good(f) ==
      /\ f.ret = "drain" => f.pc \in WakeLabels \ {"release"} /\ ~f.needs_release
      /\ f.needs_release => f.pc \in WakeLabels
      /\ f.pc = "release" => f.needs_release
      /\ f.pc \in {"tail", "notify"} => f.head # NULL
      /\ f.head # NULL => f.pc \in {"tail", "waiters", "post", "notify"}
      /\ f.rval > 0 <=> f.pc = "post"
      /\ f.pc = "undoCAS" => f.orig_waiters > 0
      /\ f.pc \in {"notifyRetain", "publish", "link"} => f.dsn # NULL
      /\ f.pc = "link" => f.prev # NULL
<1>3. SUFFICES Good(fr'[t])
  <2> HIDE DEF Good
  <2>1. ASSUME Good(fr'[t]), NEW u \in Threads PROVE Good(fr'[u])
    <3>1. Good(fr[u])
      BY DEF Frames, Good
    <3> QED
      BY <2>1, <3>1, OthersStay
  <2> QED
    BY <2>1 DEF Frames, Good
<1>0. fr[t] \in Frame /\ Good(fr[t]) /\ dg_waiters \in 0..Cardinality(Threads)
  BY WaitersBounded DEF Frames
<1>1. Good(Idle)
  BY DEF Idle
<1>2. ASSUME NEW f \in Frame, Good(f), f.rval = 0, f.pc \in WakeLabels
      PROVE  /\ Good(Resume(f)) /\ (f.head = NULL => Good(AfterNotify(f)))
             /\ (f.pc \in {"waiters", "post"} => Good(AfterPosts(f)))
  BY <1>2 DEF Resume, AfterNotify, AfterPosts, Idle, WakeLabels, Frame
<1>a. CASE wake_head(t) \/ wake_tail(t)
  BY <1>0, <1>a DEF wake_head, wake_tail, SnapshotTail, At, Frame, WakeLabels
<1>b. CASE wake_waiters(t)
  <2>1. fr[t].rval = 0 /\ fr[t].pc = "waiters"
    BY <1>0, <1>b DEF wake_waiters, At, Frame
  <2>2. CASE dg_waiters = 0
    <3>1. fr'[t] = AfterPosts(fr[t])
      BY <1>b, <2>2 DEF wake_waiters
    <3> QED
      BY <1>0, <1>2, <2>1, <3>1 DEF WakeLabels
  <2>3. CASE dg_waiters # 0
    BY <1>0, <1>b, <2>3 DEF wake_waiters, At, Frame, WakeLabels
  <2> QED
    BY <2>2, <2>3
<1>c. CASE wake_post(t)
  <2>1. CASE fr[t].rval > 1
    <3>1. fr'[t] = [fr[t] EXCEPT !.rval = fr[t].rval - 1]
      BY <1>c, <2>1 DEF wake_post
    <3> QED
      BY <1>0, <1>c, <2>1, <3>1 DEF wake_post, At, Frame, WakeLabels
  <2>2. CASE ~(fr[t].rval > 1)
    <3>1. fr'[t] = AfterPosts([fr[t] EXCEPT !.rval = 0])
      BY <1>c, <2>2 DEF wake_post
    <3> DEFINE f == [fr[t] EXCEPT !.rval = 0]
    <3>2. /\ f \in Frame /\ f.rval = 0 /\ fr[t].pc = "post" /\ f.pc = fr[t].pc
          /\ f.head = fr[t].head /\ f.ret = fr[t].ret
          /\ f.needs_release <=> fr[t].needs_release
      BY <1>0, <1>c, CountsAreNat DEF wake_post, At, Frame
    <3>3. AfterPosts(f) = [f EXCEPT !.pc = "notify"] \/ AfterPosts(f) = [f EXCEPT !.pc = "release"]
            \/ AfterPosts(f) = Idle \/ AfterPosts(f) = [Idle EXCEPT !.pc = "drain"]
      BY DEF AfterPosts, AfterNotify, Resume
    <3> HIDE DEF f
    <3>4. Good(AfterPosts(f))
      BY <1>0, <3>2 DEF AfterPosts, AfterNotify, Resume, Idle, WakeLabels, Frame
    <3> QED
      BY <3>1, <3>4 DEF f
  <2> QED
    BY <2>1, <2>2
<1>d. CASE wake_notify(t)
  BY <1>0, <1>d DEF wake_notify, At, Frame, WakeLabels
<1>e. CASE wake_listRelease(t)
  <2>1. fr[t].rval = 0 /\ fr[t].head = NULL /\ fr[t].pc \in WakeLabels
    BY <1>0, <1>e DEF wake_listRelease, At, Frame, WakeLabels
  <2>2. fr'[t] = AfterNotify(fr[t])
    BY <1>e DEF wake_listRelease
  <2> QED
    BY <1>0, <1>2, <2>1, <2>2
<1>f. CASE wake_release(t)
  <2>1. fr[t].rval = 0 /\ fr[t].pc \in WakeLabels
    BY <1>0, <1>f DEF wake_release, At, Frame, WakeLabels
  <2>2. fr'[t] = Resume(fr[t])
    BY <1>f DEF wake_release
  <2> QED
    BY <1>0, <1>2, <2>1, <2>2
<1>g. CASE wait_slow_load(t) \/ wait_slow_register(t) \/ wait_slow_recheck(t) \/ wait_slow_timeout(t)
  BY <1>0, <1>g
  DEF wait_slow_load, wait_slow_register, wait_slow_recheck, wait_slow_timeout,
      WaitRecheck, StartWake, Goto, At, Frame, WakeLabels
<1>h. CASE wait_slow_wakeup(t) \/ wait_slow_undoLoad(t) \/ wait_slow_undoCAS(t)
  BY <1>0, <1>1, <1>h
  DEF wait_slow_wakeup, wait_slow_undoLoad, wait_slow_undoCAS, UndoStart, Return, At,
      Frame, WakeLabels
<1>i. CASE Notify(t) \/ enter_retain(t)
  BY <1>0, <1>1, <1>i
  DEF Notify, notify_link, notify_retain, notify_publish, notify_check, NotifyCheck,
      enter_retain, StartWake, Goto, Return, At, Frame, WakeLabels
<1>j. CASE dispatch_group_enter(t) \/ dispatch_group_leave(t)
  BY <1>0, <1>j
  DEF dispatch_group_enter, dispatch_group_leave, StartWake, At, Frame, WakeLabels
<1>k. ASSUME NEW when \in Timeouts, dispatch_group_wait(t, when) PROVE Good(fr'[t])
  BY <1>0, <1>k DEF dispatch_group_wait, At, Frame, WakeLabels
<1>l. ASSUME NEW c \in Conts, dispatch_group_notify(t, c) PROVE Good(fr'[t])
  BY <1>0, <1>l, GroupAssumption DEF dispatch_group_notify, At, Frame, WakeLabels
<1> QED
  BY <1>a, <1>b, <1>c, <1>d, <1>e, <1>f, <1>g, <1>h, <1>i, <1>j, <1>k, <1>l
  DEF Moves, Inside, Wake, WaitSlow, Call

LEMMA TypeStep ==
  ASSUME GroupInv, life \in {"alive", "disposed"}, NEW t \in Threads, Moves(t)
  PROVE  TypeOK'
<1> USE DEF GroupInv, Accounting, TypeOK
<1>0. /\ fr[t] \in Frame /\ dg_value \in 0..LongMax /\ Cardinality(Entering) \in Nat
      /\ LongMax \in Nat
  BY CountsAreNat, GroupAssumption DEF OnReferences
<1>1. fr' \in [Threads -> Frame]
  <2>1. fr'[t] \in Frame /\ fr \in [Threads -> Frame]
    BY FrameStep
  <2> QED
    BY <2>1, OthersStay
<1>2. SUFFICES /\ dg_value' \in -1..LongMax + 1 /\ dg_waiters' \in Nat /\ tokens' \in Nat
               /\ do_ref_cnt' \in Int /\ client' \in BOOLEAN
               /\ {dg_notify_head, dg_notify_tail}' \subseteq Conts \cup {NULL}
               /\ do_next' \in [Conts -> Conts \cup {NULL}]
               /\ submitted' \in [Conts -> Nat] /\ notified' \subseteq Conts /\ dq_refs' \in Int
               /\ life' \in {"alive", "disposed", "overflow", "unbalanced", "resurrected",
                             "overreleased", "inuse"}
  BY <1>1
<1> USE DEF counts, list, refs, blocks
<1>a. CASE wake_head(t) \/ wake_tail(t) \/ wake_waiters(t) \/ wake_post(t)
  BY <1>0, <1>a DEF wake_head, wake_tail, wake_waiters, wake_post
<1>b. CASE wake_notify(t)
  <2>1. fr[t].head \in Conts
    BY <1>0, <1>b DEF wake_notify, At, Frame, Frames
  <2> QED
    BY <1>0, <1>b, <2>1 DEF wake_notify
<1>c. CASE wake_listRelease(t) \/ wake_release(t)
  BY <1>0, <1>c DEF wake_listRelease, wake_release, WakeRelease, Release
<1>d. CASE WaitSlow(t)
  <2>1. CASE wait_slow_undoCAS(t)
    <3>1. fr[t].pc = "undoCAS" /\ fr[t].orig_waiters > 0
      BY <2>1 DEF Frames, wait_slow_undoCAS, At
    <3>2. dg_waiters' \in Nat
      BY <2>1, <3>1 DEF wait_slow_undoCAS, Undo
    <3> QED
      BY <1>0, <2>1, <3>2 DEF wait_slow_undoCAS
  <2>2. CASE wait_slow_wakeup(t) \/ wait_slow_register(t)
    BY <1>0, <2>2 DEF wait_slow_wakeup, wait_slow_register
  <2>3. CASE wait_slow_load(t) \/ wait_slow_recheck(t) \/ wait_slow_timeout(t)
                \/ wait_slow_undoLoad(t)
    BY <1>0, <2>3 DEF wait_slow_load, wait_slow_recheck, wait_slow_timeout, wait_slow_undoLoad
  <2> QED
    BY <1>d, <2>1, <2>2, <2>3 DEF WaitSlow
<1>e. CASE notify_retain(t) \/ enter_retain(t)
  BY <1>0, <1>e DEF notify_retain, enter_retain, Retain
<1>f. CASE notify_link(t)
  BY <1>0, <1>f DEF notify_link, Frame
<1>g. CASE notify_publish(t) \/ notify_check(t)
  BY <1>0, <1>g DEF notify_publish, notify_check, Frame
<1>h. CASE dispatch_group_enter(t) \/ dispatch_group_leave(t)
  <2>1. CASE dispatch_group_enter(t)
    BY <1>0, <2>1 DEF dispatch_group_enter
  <2>2. CASE dispatch_group_leave(t)
    <3>1. dg_value' = dg_value - 1
      BY <2>2 DEF dispatch_group_leave
    <3>2. dg_value' \in -1..LongMax + 1
      BY <1>0, <3>1
    <3> QED
      BY <2>2, <3>2 DEF dispatch_group_leave
  <2> QED
    BY <1>h, <2>1, <2>2
<1>i. CASE \E when \in Timeouts : dispatch_group_wait(t, when)
  BY <1>0, <1>i DEF dispatch_group_wait
<1>j. CASE \E c \in Conts : dispatch_group_notify(t, c)
  BY <1>0, <1>j DEF dispatch_group_notify
<1> QED
  BY <1>a, <1>b, <1>c, <1>d, <1>e, <1>f, <1>g, <1>h, <1>i, <1>j
  DEF Moves, Inside, Wake, Notify, Call

(* How the sets of the two accountings change with the frame of one thread.   *)
LEMMA CountsMove ==
  ASSUME TypeOK, TypeOK', NEW t \in Threads, Moves(t)
  PROVE  LET One(b) == IF b THEN 1 ELSE 0
         IN
    /\ Cardinality(Registered') = Cardinality(Registered)
         + One(t \in Registered') - One(t \in Registered)
    /\ Cardinality(Entering') = Cardinality(Entering)
         + One(t \in Entering') - One(t \in Entering)
    /\ Cardinality(ReleasingWake') = Cardinality(ReleasingWake)
         + One(t \in ReleasingWake') - One(t \in ReleasingWake)
    /\ Cardinality(Publishing') = Cardinality(Publishing)
         + One(t \in Publishing') - One(t \in Publishing)
    /\ Cardinality(ReleasingList') = Cardinality(ReleasingList)
         + One(t \in ReleasingList') - One(t \in ReleasingList)
    /\ Cardinality(Heading') = Cardinality(Heading)
         + One(t \in Heading') - One(t \in Heading)
    /\ Cardinality(Claimed') = Cardinality(Claimed) + fr'[t].rval - fr[t].rval
<1>0. /\ IsFiniteSet(Registered) /\ IsFiniteSet(Entering) /\ IsFiniteSet(ReleasingWake)
      /\ IsFiniteSet(Publishing) /\ IsFiniteSet(ReleasingList) /\ IsFiniteSet(Heading)
      /\ Cardinality(Threads) \in Nat
  BY CountsAreNat
<1>1. \A u \in Threads \ {t} : fr'[u] = fr[u]
  BY OthersStay
<1>2. Registered \ {t} = Registered' \ {t}
  BY <1>1 DEF Registered
<1>3. Entering \ {t} = Entering' \ {t} /\ Publishing \ {t} = Publishing' \ {t}
  BY <1>1 DEF Entering, Publishing, In, At
<1>4. ReleasingWake \ {t} = ReleasingWake' \ {t}
  BY <1>1 DEF ReleasingWake
<1>5. ReleasingList \ {t} = ReleasingList' \ {t}
  BY <1>1 DEF ReleasingList, At
<1>6. Heading \ {t} = Heading' \ {t}
  BY <1>1 DEF Heading
<1>7. Cardinality(Claimed') = Cardinality(Claimed) + fr'[t].rval - fr[t].rval
  <2> DEFINE B == Cardinality(Threads)
             f == [u \in Threads |-> fr[u].rval]
             g == [u \in Threads |-> fr'[u].rval]
  <2>1. f \in [Threads -> 0..B] /\ g \in [Threads -> 0..B]
    BY DEF TypeOK, Frame
  <2>2. \A u \in Threads \ {t} : g[u] = f[u]
    BY <1>1
  <2>3. /\ Claimed = {p \in Threads \X (1..B) : p[2] =< f[p[1]]}
        /\ Claimed' = {p \in Threads \X (1..B) : p[2] =< g[p[1]]}
    BY DEF Claimed
  <2>4. f[t] = fr[t].rval /\ g[t] = fr'[t].rval
    OBVIOUS
  <2>5. IsFiniteSet(Threads) /\ B \in Nat
    BY <1>0, GroupAssumption
  <2> HIDE DEF f, g, B
  <2>6. Cardinality(Claimed') = Cardinality(Claimed) + g[t] - f[t]
    BY <2>1, <2>2, <2>3, <2>5, ColumnsMove
  <2> QED
    BY <2>4, <2>6
<1>8. /\ Cardinality(Registered') = Cardinality(Registered)
           + (IF t \in Registered' THEN 1 ELSE 0) - (IF t \in Registered THEN 1 ELSE 0)
      /\ Cardinality(Entering') = Cardinality(Entering)
           + (IF t \in Entering' THEN 1 ELSE 0) - (IF t \in Entering THEN 1 ELSE 0)
  BY <1>0, <1>2, <1>3, CountMoves
<1>9. /\ Cardinality(ReleasingWake') = Cardinality(ReleasingWake)
           + (IF t \in ReleasingWake' THEN 1 ELSE 0) - (IF t \in ReleasingWake THEN 1 ELSE 0)
      /\ Cardinality(Publishing') = Cardinality(Publishing)
           + (IF t \in Publishing' THEN 1 ELSE 0) - (IF t \in Publishing THEN 1 ELSE 0)
  BY <1>0, <1>3, <1>4, CountMoves
<1>10. /\ Cardinality(ReleasingList') = Cardinality(ReleasingList)
           + (IF t \in ReleasingList' THEN 1 ELSE 0) - (IF t \in ReleasingList THEN 1 ELSE 0)
       /\ Cardinality(Heading') = Cardinality(Heading)
           + (IF t \in Heading' THEN 1 ELSE 0) - (IF t \in Heading THEN 1 ELSE 0)
  BY <1>0, <1>5, <1>6, CountMoves
<1> QED
  BY <1>7, <1>8, <1>9, <1>10

-----------------------------------------------------------------------------
(* WaiterAccounting: a wait is counted, claimed and posted for in turn.       *)
LEMMA WaitersStep ==
  ASSUME GroupInv, life \in {"alive", "disposed"}, NEW t \in Threads, Moves(t)
  PROVE  WaiterAccounting'
<1> DEFINE In0 == IF t \in Registered THEN 1 ELSE 0
           In1 == IF t \in Registered' THEN 1 ELSE 0
<1>0. TypeOK /\ TypeOK' /\ fr[t] \in Frame /\ Frames /\ Cardinality(Threads) \in Nat
  BY TypeStep, CountsAreNat DEF GroupInv, Accounting, TypeOK
<1>1. /\ Cardinality(Registered) = dg_waiters + tokens + Cardinality(Claimed)
      /\ Cardinality(Registered') = Cardinality(Registered) + In1 - In0
      /\ Cardinality(Claimed') = Cardinality(Claimed) + fr'[t].rval - fr[t].rval
      /\ Cardinality(Registered) \in Nat /\ Cardinality(Claimed) \in Nat
      /\ dg_waiters \in Nat /\ tokens \in Nat /\ fr[t].rval \in Nat /\ fr'[t].rval \in Nat
      /\ dg_waiters' \in Nat /\ tokens' \in Nat /\ In0 \in Nat /\ In1 \in Nat
  BY <1>0, CountsMove, CountsAreNat DEF GroupInv, Accounting, WaiterAccounting, TypeOK, Frame
<1>2. /\ t \in Registered <=> fr[t].ret = "drain" \/ fr[t].pc \in
                 {"recheck", "timedwait", "undoLoad", "undoCAS", "drain"}
      /\ t \in Registered' <=> fr'[t].ret = "drain" \/ fr'[t].pc \in
                 {"recheck", "timedwait", "undoLoad", "undoCAS", "drain"}
  BY DEF Registered
<1>3. /\ fr[t].ret = "drain" => fr[t].pc \in WakeLabels \ {"release"}
      /\ fr[t].ret = "drain" => ~fr[t].needs_release
      /\ fr[t].rval > 0 <=> fr[t].pc = "post"
      /\ fr[t].ret \in {"idle", "drain"}
      /\ fr[t].pc = "release" => fr[t].needs_release
  BY <1>0 DEF Frames, Frame
<1> SUFFICES dg_waiters' + tokens' + fr'[t].rval + In0
               = dg_waiters + tokens + fr[t].rval + In1
  <2> HIDE DEF In0, In1
  <2> QED
    BY <1>1 DEF WaiterAccounting
<1>4. ASSUME t \in Registered <=> t \in Registered' PROVE In0 = In1
  BY <1>4
<1>5. ASSUME NEW f \in Frame, f.rval = 0, f.ret = "drain" => ~f.needs_release
      PROVE  /\ AfterPosts(f).ret = "drain" \/ AfterPosts(f).pc = "drain" <=> f.ret = "drain"
             /\ AfterNotify(f).ret = "drain" \/ AfterNotify(f).pc = "drain" <=> f.ret = "drain"
             /\ AfterPosts(f).rval = 0 /\ AfterNotify(f).rval = 0
             /\ AfterPosts(f).pc \notin {"recheck", "timedwait", "undoLoad", "undoCAS"}
             /\ AfterNotify(f).pc \notin {"recheck", "timedwait", "undoLoad", "undoCAS"}
  BY <1>5 DEF AfterPosts, AfterNotify, Resume, Idle, Frame
<1>a. CASE wake_head(t) \/ wake_tail(t) \/ wake_notify(t)
  <2>1. /\ fr'[t].ret = fr[t].ret /\ fr'[t].rval = fr[t].rval
        /\ fr[t].pc \in WakeLabels /\ fr'[t].pc \in WakeLabels
    <3>1. CASE wake_head(t)
      BY <1>0, <3>1 DEF wake_head, At, TypeOK, Frame, WakeLabels
    <3>2. CASE wake_tail(t)
      BY <1>0, <3>2 DEF wake_tail, SnapshotTail, At, TypeOK, Frame, WakeLabels
    <3>3. CASE wake_notify(t)
      BY <1>0, <3>3 DEF wake_notify, At, TypeOK, Frame, WakeLabels
    <3> QED
      BY <1>a, <3>1, <3>2, <3>3
  <2>2. In0 = In1
    BY <1>2, <2>1 DEF WakeLabels
  <2>3. dg_waiters' = dg_waiters /\ tokens' = tokens
    BY <1>a DEF wake_head, wake_tail, wake_notify, counts
  <2> QED
    BY <1>1, <2>1, <2>2, <2>3
<1>b. CASE wake_waiters(t)
  <2>1. fr[t].rval = 0 /\ fr[t].pc = "waiters" /\ dg_waiters' = 0 /\ tokens' = tokens
    BY <1>0, <1>3, <1>b DEF wake_waiters, At, Frame
  <2>2. CASE dg_waiters = 0
    <3>1. fr'[t] = AfterPosts(fr[t])
      BY <1>0, <1>b, <2>2 DEF wake_waiters, TypeOK
    <3>2. fr'[t].rval = 0 /\ In0 = In1
      BY <1>0, <1>2, <1>3, <1>5, <2>1, <3>1
    <3> QED
      BY <1>1, <2>1, <2>2, <3>2
  <2>3. CASE dg_waiters # 0
    <3>1. fr'[t] = [fr[t] EXCEPT !.pc = "post", !.rval = dg_waiters]
      BY <1>0, <1>b, <2>3 DEF wake_waiters, TypeOK
    <3>2. fr'[t].rval = dg_waiters /\ In0 = In1
      BY <1>0, <1>2, <2>1, <3>1 DEF Frame
    <3> QED
      BY <1>1, <2>1, <3>2
  <2> QED
    BY <2>2, <2>3
<1>c. CASE wake_post(t)
  <2>1. /\ fr[t].pc = "post" /\ fr[t].rval > 0
        /\ dg_waiters' = dg_waiters /\ tokens' = tokens + 1
    BY <1>3, <1>c DEF wake_post, At, counts
  <2>2. CASE fr[t].rval > 1
    <3>1. fr'[t] = [fr[t] EXCEPT !.rval = fr[t].rval - 1]
      BY <1>0, <1>c, <2>2 DEF wake_post, TypeOK
    <3>2. fr'[t].rval = fr[t].rval - 1 /\ In0 = In1
      BY <1>0, <1>2, <3>1 DEF Frame
    <3> QED
      BY <1>1, <2>1, <3>2
  <2>3. CASE ~(fr[t].rval > 1)
    <3>1. fr'[t] = AfterPosts([fr[t] EXCEPT !.rval = 0])
      BY <1>0, <1>c, <2>3 DEF wake_post, TypeOK
    <3>2. [fr[t] EXCEPT !.rval = 0] \in Frame
      BY <1>0 DEF Frame
    <3>3. /\ [fr[t] EXCEPT !.rval = 0].rval = 0 /\ [fr[t] EXCEPT !.rval = 0].ret = fr[t].ret
          /\ [fr[t] EXCEPT !.rval = 0].needs_release <=> fr[t].needs_release
      BY <1>0 DEF Frame
    <3>4. fr'[t].rval = 0 /\ In0 = In1
      BY ZenonT(60), <1>2, <1>3, <1>5, <2>1, <3>1, <3>2, <3>3
    <3>5. fr[t].rval = 1
      BY <1>1, <2>1, <2>3
    <3> QED
      BY <1>1, <2>1, <3>4, <3>5
  <2> QED
    BY <2>2, <2>3
<1>d. CASE wake_listRelease(t)
  <2>1. /\ fr[t].pc = "listRelease" /\ fr[t].rval = 0 /\ fr'[t] = AfterNotify(fr[t])
        /\ dg_waiters' = dg_waiters /\ tokens' = tokens
    BY <1>0, <1>3, <1>d DEF wake_listRelease, At, counts, TypeOK, Frame
  <2>2. fr'[t].rval = 0 /\ In0 = In1
    BY <1>0, <1>2, <1>3, <1>5, <2>1
  <2> QED
    BY <1>1, <2>1, <2>2
<1>e. CASE wake_release(t)
  <2>1. /\ fr[t].pc = "release" /\ fr[t].rval = 0 /\ fr'[t] = Resume(fr[t])
        /\ dg_waiters' = dg_waiters /\ tokens' = tokens
    BY <1>0, <1>3, <1>e DEF wake_release, At, counts, TypeOK, Frame
  <2>2. fr'[t].rval = 0 /\ In0 = In1
    BY <1>0, <1>2, <1>3, <2>1 DEF Resume, Idle
  <2> QED
    BY <1>1, <2>1, <2>2
<1>f. CASE wait_slow_load(t) \/ wait_slow_recheck(t) \/ wait_slow_timeout(t)
            \/ wait_slow_undoLoad(t)
  <2>1. fr'[t].rval = fr[t].rval /\ dg_waiters' = dg_waiters /\ tokens' = tokens
    BY <1>0, <1>f DEF wait_slow_load, wait_slow_recheck, wait_slow_timeout,
         wait_slow_undoLoad, WaitRecheck, UndoStart, StartWake, Goto, counts, TypeOK, Frame
  <2>2. In0 = In1
    BY <1>0, <1>2, <1>3, <1>f DEF wait_slow_load, wait_slow_recheck, wait_slow_timeout,
         wait_slow_undoLoad, WaitRecheck, UndoStart, StartWake, Goto, TypeOK, Frame, At,
         WakeLabels
  <2> QED
    BY <1>1, <2>1, <2>2
<1>g. CASE wait_slow_register(t)
  <2>1. /\ fr'[t] = [fr[t] EXCEPT !.pc = "recheck"] /\ fr[t].pc = "register"
        /\ dg_waiters' = dg_waiters + 1 /\ tokens' = tokens
    BY <1>0, <1>g DEF wait_slow_register, Goto, At, TypeOK
  <2>2. fr'[t].rval = fr[t].rval /\ In0 = 0 /\ In1 = 1
    BY <1>0, <1>2, <1>3, <2>1 DEF WakeLabels, Frame
  <2> QED
    BY <1>1, <2>1, <2>2
<1>h. CASE wait_slow_wakeup(t)
  <2>1. /\ fr'[t] = Idle /\ fr[t].pc \in {"timedwait", "drain"}
        /\ dg_waiters' = dg_waiters /\ tokens' = tokens - 1
    BY <1>0, <1>h DEF wait_slow_wakeup, Return, At, TypeOK, counts
  <2>2. fr'[t].rval = fr[t].rval /\ In0 = 1 /\ In1 = 0
    BY <1>0, <1>1, <1>2, <1>3, <2>1 DEF Idle
  <2> QED
    BY <1>1, <2>1, <2>2
<1>i. CASE wait_slow_undoCAS(t)
  <2>1. fr[t].pc = "undoCAS" /\ fr[t].rval = 0 /\ tokens' = tokens
    BY <1>1, <1>3, <1>i DEF wait_slow_undoCAS, At
  <2>2. CASE dg_waiters = fr[t].orig_waiters
    <3>1. fr'[t] = Idle /\ dg_waiters' = dg_waiters - 1
      BY <1>0, <1>i, <2>2 DEF wait_slow_undoCAS, Return, Undo, TypeOK
    <3>2. fr'[t].rval = 0 /\ In0 = 1 /\ In1 = 0
      BY <1>2, <2>1, <3>1 DEF Idle
    <3> QED
      BY <1>1, <2>1, <3>1, <3>2
  <2>3. CASE dg_waiters # fr[t].orig_waiters
    <3>1. dg_waiters' = dg_waiters /\ UndoStart(t)
      BY <1>i, <2>3 DEF wait_slow_undoCAS
    <3>2. fr'[t].rval = 0 /\ In0 = 1 /\ In1 = 1
      BY <1>0, <1>2, <2>1, <3>1 DEF UndoStart, Frame, TypeOK
    <3> QED
      BY <1>1, <2>1, <3>1, <3>2
  <2> QED
    BY <2>2, <2>3
<1>j. CASE Notify(t) \/ enter_retain(t)
  <2>1. fr'[t].rval = fr[t].rval /\ dg_waiters' = dg_waiters /\ tokens' = tokens
    BY <1>0, <1>1, <1>3, <1>j DEF Notify, notify_link, notify_retain, notify_publish, notify_check,
         NotifyCheck, enter_retain, StartWake, Goto, Return, At, counts, TypeOK, Frame, Idle
  <2>2. In0 = In1
    BY <1>0, <1>2, <1>3, <1>j DEF Notify, notify_link, notify_retain, notify_publish,
         notify_check, NotifyCheck, enter_retain, StartWake, Goto, Return, At, counts,
         TypeOK, Frame, Idle, WakeLabels
  <2> QED
    BY <1>1, <2>1, <2>2
<1>k. CASE Call(t)
  <2>1. /\ fr'[t].ret = fr[t].ret /\ fr'[t].rval = fr[t].rval /\ fr[t].pc = "idle"
        /\ fr'[t].pc \notin {"recheck", "timedwait", "undoLoad", "undoCAS", "drain"}
    <3>1. fr[t].ret = "idle"
      BY Zenon, <1>3, <1>k DEF Call, dispatch_group_enter, dispatch_group_leave,
         dispatch_group_wait, dispatch_group_notify, At, WakeLabels
    <3>2. CASE dispatch_group_enter(t)
      BY <1>0, <3>2 DEF dispatch_group_enter, At, TypeOK, Frame
    <3>3. CASE dispatch_group_leave(t)
      BY <1>0, <3>1, <3>3 DEF dispatch_group_leave, StartWake, At, TypeOK, Frame
    <3>4. CASE \E when \in Timeouts : dispatch_group_wait(t, when)
      BY <1>0, <3>4 DEF dispatch_group_wait, At, TypeOK, Frame
    <3>5. CASE \E c \in Conts : dispatch_group_notify(t, c)
      BY <1>0, <3>5 DEF dispatch_group_notify, At, TypeOK, Frame
    <3> QED
      BY SMTT(60), <1>k, <3>2, <3>3, <3>4, <3>5 DEF Call
  <2>2. In0 = In1
    BY SMTT(60), <1>2, <2>1
  <2>3. dg_waiters' = dg_waiters /\ tokens' = tokens
    BY Zenon, <1>k DEF Call, dispatch_group_enter, dispatch_group_leave, dispatch_group_wait,
         dispatch_group_notify, counts
  <2> QED
    BY <1>1, <2>1, <2>2, <2>3
<1> QED
  BY <1>a, <1>b, <1>c, <1>d, <1>e, <1>f, <1>g, <1>h, <1>i, <1>j, <1>k
  DEF Moves, Inside, Wake, WaitSlow

-----------------------------------------------------------------------------
(* Nobody runs in a group that has been disposed of.                         *)
LEMMA AliveInside ==
  ASSUME GroupInv, life \in {"alive", "disposed"}, NEW t \in Threads, Moves(t)
  PROVE  life = "alive"
<1> SUFFICES ASSUME life = "disposed" PROVE FALSE
  OBVIOUS
<1>1. /\ fr[t].pc = "idle" /\ ~client /\ dg_value = 0 /\ Cardinality(Entering) \in Nat
  BY CountsAreNat DEF GroupInv, Accounting, NoUseAfterDispose, OnReferences, In, At
<1>2. ~Inside(t)
  BY <1>1 DEF Inside, Wake, WaitSlow, Notify, At, enter_retain, wake_head, wake_tail,
       wake_waiters, wake_post, wake_notify, wake_listRelease, wake_release,
       wait_slow_load, wait_slow_register, wait_slow_recheck, wait_slow_wakeup,
       wait_slow_timeout, wait_slow_undoLoad, wait_slow_undoCAS, notify_link,
       notify_retain, notify_publish, notify_check
<1>3. ~dispatch_group_leave(t)
  <2>1. Cardinality(In("enterRetain")) \in Nat
    BY SMTT(60), <1>1 DEF Entering
  <2> QED
    BY <1>1, <2>1 DEF dispatch_group_leave
<1>4. ~Call(t)
  BY Zenon, <1>1, <1>3 DEF Call, dispatch_group_enter, dispatch_group_wait, dispatch_group_notify
<1> QED
  BY <1>2, <1>4 DEF Moves

(* A call that needs the client's reference runs on one.                     *)
LEMMA OnClientStep ==
  ASSUME GroupInv, life \in {"alive", "disposed"}, NEW t \in Threads, Moves(t)
  PROVE  client' = client /\ \A u \in Threads : OnClientRef(u)' => client'
<1> USE DEF GroupInv, Accounting
<1>0. TypeOK /\ fr[t] \in Frame /\ Frames /\ fr \in [Threads -> Frame]
  BY DEF TypeOK
<1>1. /\ fr[t].ret = "drain" => fr[t].pc \in WakeLabels \ {"release"}
      /\ fr[t].ret = "drain" => ~fr[t].needs_release
      /\ fr[t].needs_release => fr[t].pc \in WakeLabels
      /\ fr[t].pc = "release" => fr[t].needs_release
      /\ fr[t].pc # "idle" /\ ~fr[t].needs_release => client
  BY SMTT(60), <1>0 DEF Frames, OnReferences, OnClientRef, At
<1>2. client' = client
  BY Zenon DEF Moves, Inside, Wake, WaitSlow, Notify, Call, enter_retain, wake_head, wake_tail,
       wake_waiters, wake_post, wake_notify, wake_listRelease, wake_release,
       wait_slow_load, wait_slow_register, wait_slow_recheck, wait_slow_wakeup,
       wait_slow_timeout, wait_slow_undoLoad, wait_slow_undoCAS, notify_link,
       notify_retain, notify_publish, notify_check, dispatch_group_enter,
       dispatch_group_leave, dispatch_group_wait, dispatch_group_notify
<1>3. SUFFICES fr'[t].pc # "idle" /\ ~fr'[t].needs_release => client
  BY <1>2, OthersStay DEF OnReferences, OnClientRef, At
<1> DEFINE Fine(f) == f.pc # "idle" /\ ~f.needs_release => client
<1>4. ASSUME NEW f \in Frame, f.ret = "drain" => client, f.needs_release \/ client
      PROVE  Fine(AfterPosts(f)) /\ Fine(AfterNotify(f)) /\ Fine(Resume(f))
  BY <1>4 DEF AfterPosts, AfterNotify, Resume, Idle, Frame
<1>a. CASE Wake(t)
  <2>1. fr[t].needs_release \/ client
    BY <1>1, <1>a DEF Wake, wake_head, wake_tail, wake_waiters, wake_post, wake_notify,
         wake_listRelease, wake_release, At
  <2>2. CASE wake_head(t) \/ wake_tail(t)
    BY <1>0, <2>1, <2>2 DEF wake_head, wake_tail, SnapshotTail, Frame
  <2>3. fr[t].ret = "drain" => client
    BY <1>1, <2>1
  <2>4. CASE wake_waiters(t)
    BY <1>0, <1>4, <2>1, <2>3, <2>4 DEF wake_waiters, Frame
  <2>5. CASE wake_post(t)
    <3>1. CASE fr[t].rval > 1
      <4>1. fr'[t] = [fr[t] EXCEPT !.rval = fr[t].rval - 1]
        BY <1>0, <2>5, <3>1 DEF wake_post
      <4> QED
        BY <1>0, <2>1, <4>1 DEF Frame
    <3>2. CASE ~(fr[t].rval > 1)
      <4>1. fr'[t] = AfterPosts([fr[t] EXCEPT !.rval = 0])
        BY <1>0, <2>5, <3>2 DEF wake_post
      <4>2. [fr[t] EXCEPT !.rval = 0] \in Frame
        BY <1>0, CountsAreNat DEF Frame
      <4>3. /\ [fr[t] EXCEPT !.rval = 0].needs_release <=> fr[t].needs_release
            /\ [fr[t] EXCEPT !.rval = 0].ret = fr[t].ret
        BY <1>0 DEF Frame
      <4> QED
        BY <1>4, <2>1, <2>3, <4>1, <4>2, <4>3
    <3> QED
      BY <3>1, <3>2
  <2>6. CASE wake_notify(t)
    BY <1>0, <2>1, <2>6 DEF wake_notify, Frame
  <2>7. CASE wake_listRelease(t) \/ wake_release(t)
    <3>1. fr'[t] = AfterNotify(fr[t]) \/ fr'[t] = Resume(fr[t])
      BY <1>0, <2>7 DEF wake_listRelease, wake_release
    <3> QED
      BY <1>0, <1>4, <2>1, <2>3, <3>1
  <2> QED
    BY <1>a, <2>2, <2>4, <2>5, <2>6, <2>7 DEF Wake
<1>b. CASE WaitSlow(t) \/ Notify(t) \/ enter_retain(t)
  <2>1. client
    BY <1>1, <1>b DEF WaitSlow, Notify, enter_retain, wait_slow_load, wait_slow_register,
       wait_slow_recheck, wait_slow_wakeup, wait_slow_timeout, wait_slow_undoLoad,
       wait_slow_undoCAS, notify_link, notify_retain, notify_publish, notify_check, At,
       WakeLabels
  <2> QED
    BY <2>1
<1>c. CASE Call(t)
  <2>1. CASE dispatch_group_leave(t)
    BY <1>0, <2>1 DEF dispatch_group_leave, StartWake, At, Frame
  <2>2. CASE ~dispatch_group_leave(t)
    BY Zenon, <1>c, <2>2 DEF Call, dispatch_group_enter, dispatch_group_wait, dispatch_group_notify
  <2> QED
    BY <2>1, <2>2
<1> QED
  BY <1>a, <1>b, <1>c DEF Moves, Inside

-----------------------------------------------------------------------------
(* The list has one head at a time: being published, published, or taken by   *)
(* a wake that has not taken the tail yet.                                   *)
LEMMA OneHeadStep ==
  ASSUME GroupInv, life \in {"alive", "disposed"}, NEW t \in Threads, Moves(t)
  PROVE  OneHead'
<1> DEFINE In0 == IF t \in Heading THEN 1 ELSE 0
           In1 == IF t \in Heading' THEN 1 ELSE 0
<1>0. /\ TypeOK /\ TypeOK' /\ fr[t] \in Frame /\ Frames /\ fr \in [Threads -> Frame]
      /\ {dg_notify_head, dg_notify_tail} \subseteq Conts \cup {NULL}
  BY TypeStep DEF GroupInv, Accounting, TypeOK
<1>1. /\ Cardinality(Heading') = Cardinality(Heading) + In1 - In0
      /\ Cardinality(Heading) \in Nat /\ Cardinality(Heading') \in Nat
      /\ Cardinality(Heading) + BoolToNat(dg_notify_head # NULL)
           = BoolToNat(dg_notify_tail # NULL)
  <2>1. Cardinality(Heading') = Cardinality(Heading) + In1 - In0
    BY <1>0, CountsMove
  <2>2. Cardinality(Heading) \in Nat
    BY <1>0, CountsAreNat
  <2>3. Cardinality(Heading') \in Nat
    <3>1. Heading' \subseteq Threads
      BY DEF Heading
    <3> QED
      BY <3>1, GroupAssumption, FS_Subset, FS_CardinalityType
  <2> QED
    BY <2>1, <2>2, <2>3 DEF GroupInv, OneHead
<1>2. /\ t \in Heading <=> fr[t].pc \in {"notifyRetain", "publish", "tail"}
      /\ t \in Heading' <=> fr'[t].pc \in {"notifyRetain", "publish", "tail"}
  BY DEF Heading
<1>3. ASSUME NEW f \in Frame
      PROVE  /\ AfterPosts(f).pc \notin {"notifyRetain", "publish", "tail"}
             /\ AfterNotify(f).pc \notin {"notifyRetain", "publish", "tail"}
             /\ Resume(f).pc \notin {"notifyRetain", "publish", "tail"}
  BY DEF AfterPosts, AfterNotify, Resume, Idle, Frame
<1>4. ASSUME dg_notify_head' = dg_notify_head, dg_notify_tail' = dg_notify_tail,
             t \in Heading <=> t \in Heading'
      PROVE  OneHead'
  BY <1>1, <1>4 DEF OneHead
<1> USE DEF list
<1>a. CASE wake_head(t)
  <2>1. /\ dg_notify_head' = NULL /\ dg_notify_tail' = dg_notify_tail /\ In0 = 0
        /\ In1 = IF dg_notify_head = NULL THEN 0 ELSE 1
    BY <1>0, <1>2, <1>a DEF wake_head, At, Frame
  <2> QED
    BY <1>1, <2>1 DEF OneHead, BoolToNat
<1>b. CASE wake_tail(t)
  <2>1. dg_notify_head' = dg_notify_head /\ dg_notify_tail' = NULL /\ In0 = 1 /\ In1 = 0
    BY <1>0, <1>2, <1>b DEF wake_tail, SnapshotTail, At, Frame
  <2> QED
    BY <1>1, <2>1 DEF OneHead, BoolToNat
<1>c. CASE notify_publish(t)
  <2>1. /\ dg_notify_head' = fr[t].dsn /\ dg_notify_tail' = dg_notify_tail
        /\ In0 = 1 /\ In1 = 0
    BY <1>0, <1>2, <1>c DEF notify_publish, Goto, At, Frame
  <2>2. fr[t].dsn # NULL
    BY <1>0, <1>c DEF notify_publish, At, Frames
  <2> QED
    BY <1>1, <2>1, <2>2 DEF OneHead, BoolToNat
<1>d. ASSUME NEW c \in Conts, dispatch_group_notify(t, c) PROVE OneHead'
  <2>1. /\ dg_notify_head' = dg_notify_head /\ dg_notify_tail' = c /\ c # NULL /\ In0 = 0
        /\ In1 = IF dg_notify_tail = NULL THEN 1 ELSE 0
    BY <1>0, <1>2, <1>d, GroupAssumption DEF dispatch_group_notify, At, Frame
  <2> QED
    BY <1>1, <2>1 DEF OneHead, BoolToNat
<1>e. CASE wake_waiters(t)
  <2>1. fr'[t].pc \notin {"notifyRetain", "publish", "tail"}
    BY <1>0, <1>3, <1>e DEF wake_waiters, Frame
  <2> QED
    BY <1>0, <1>2, <1>4, <1>e, <2>1 DEF wake_waiters, At
<1>f. CASE wake_post(t)
  <2>1. fr'[t].pc \notin {"notifyRetain", "publish", "tail"}
    <3>1. CASE fr[t].rval > 1
      <4>1. fr'[t] = [fr[t] EXCEPT !.rval = fr[t].rval - 1]
        BY <1>0, <1>f, <3>1 DEF wake_post
      <4> QED
        BY <1>0, <1>f, <4>1 DEF wake_post, At, Frame
    <3>2. CASE ~(fr[t].rval > 1)
      <4>1. fr'[t] = AfterPosts([fr[t] EXCEPT !.rval = 0])
        BY <1>0, <1>f, <3>2 DEF wake_post
      <4>2. [fr[t] EXCEPT !.rval = 0] \in Frame
        BY <1>0, CountsAreNat DEF Frame
      <4> QED
        BY <1>3, <4>1, <4>2
    <3> QED
      BY <3>1, <3>2
  <2> QED
    BY <1>0, <1>2, <1>4, <1>f, <2>1 DEF wake_post, At
<1>g. CASE wake_notify(t)
  BY <1>0, <1>2, <1>4, <1>g DEF wake_notify, At, Frame
<1>h. CASE wake_listRelease(t) \/ wake_release(t)
  <2>1. fr'[t] = AfterNotify(fr[t]) \/ fr'[t] = Resume(fr[t])
    BY <1>0, <1>h DEF wake_listRelease, wake_release
  <2> QED
    BY <1>0, <1>2, <1>3, <1>4, <1>h, <2>1 DEF wake_listRelease, wake_release, At
<1>i. CASE WaitSlow(t)
  BY <1>0, <1>2, <1>4, <1>i
  DEF WaitSlow, wait_slow_load, wait_slow_register, wait_slow_recheck,
      wait_slow_wakeup, wait_slow_timeout, wait_slow_undoLoad, wait_slow_undoCAS,
      WaitRecheck, UndoStart, StartWake, Goto, Return, At, Frame, Idle
<1>j. CASE notify_link(t) \/ notify_retain(t) \/ notify_check(t) \/ enter_retain(t)
  BY <1>0, <1>2, <1>4, <1>j
  DEF notify_link, notify_retain, notify_check, NotifyCheck, enter_retain, StartWake,
      Goto, Return, At, Frame, Idle
<1>k. CASE dispatch_group_enter(t)
  BY <1>0, <1>2, <1>4, <1>k DEF dispatch_group_enter, At, Frame
<1>l. CASE dispatch_group_leave(t)
  BY <1>0, <1>2, <1>4, <1>l DEF dispatch_group_leave, StartWake, At, Frame
<1>m. ASSUME NEW when \in Timeouts, dispatch_group_wait(t, when) PROVE OneHead'
  BY <1>0, <1>2, <1>4, <1>m DEF dispatch_group_wait, At, Frame
<1> QED
  BY <1>a, <1>b, <1>c, <1>d, <1>e, <1>f, <1>g, <1>h, <1>i, <1>j, <1>k, <1>l, <1>m
  DEF Moves, Inside, Wake, Notify, Call

-----------------------------------------------------------------------------
(* ReferenceAccounting: no term of the sum is negative, so that the last      *)
(* release finds the group empty and nobody inside.                          *)
LEMMA ReferencesStep ==
  ASSUME GroupInv, life \in {"alive", "disposed"}, NEW t \in Threads, Moves(t)
  PROVE  ReferenceAccounting' /\ OnReferences' /\ NoUseAfterDispose'
<1> DEFINE One(b) == IF b THEN 1 ELSE 0
           e == Cardinality(Entering)      e1 == Cardinality(Entering')
           w == Cardinality(ReleasingWake) w1 == Cardinality(ReleasingWake')
           p == Cardinality(Publishing)    p1 == Cardinality(Publishing')
           l == Cardinality(ReleasingList) l1 == Cardinality(ReleasingList')
<1>0. /\ TypeOK /\ TypeOK' /\ fr[t] \in Frame /\ Frames /\ fr \in [Threads -> Frame]
      /\ life = "alive" /\ do_ref_cnt \in Int /\ client \in BOOLEAN
      /\ dg_value \in 0..LongMax /\ LongMax \in Nat
  BY TypeStep, AliveInside, GroupAssumption DEF GroupInv, Accounting, TypeOK, OnReferences
<1>1. /\ do_ref_cnt + 1 = One(client) + One(dg_value > 0) - e + w
                          + One(dg_notify_head # NULL) + p + l
      /\ e =< One(dg_value > 0) /\ e \in Nat /\ w \in Nat /\ p \in Nat /\ l \in Nat
      /\ dg_value \in Nat
  BY <1>0, CountsAreNat
  DEF GroupInv, Accounting, ReferenceAccounting, OnReferences, BoolToNat
<1>2. /\ e1 = e + One(t \in Entering') - One(t \in Entering)
      /\ w1 = w + One(t \in ReleasingWake') - One(t \in ReleasingWake)
      /\ p1 = p + One(t \in Publishing') - One(t \in Publishing)
      /\ l1 = l + One(t \in ReleasingList') - One(t \in ReleasingList)
  BY <1>0, CountsMove
<1>3. /\ t \in Entering <=> fr[t].pc = "enterRetain"
      /\ t \in ReleasingWake <=> fr[t].needs_release
      /\ t \in Publishing <=> fr[t].pc = "publish"
      /\ t \in ReleasingList <=> fr[t].pc = "listRelease" \/ fr[t].head # NULL
      /\ t \in Entering' <=> fr'[t].pc = "enterRetain"
      /\ t \in ReleasingWake' <=> fr'[t].needs_release
      /\ t \in Publishing' <=> fr'[t].pc = "publish"
      /\ t \in ReleasingList' <=> fr'[t].pc = "listRelease" \/ fr'[t].head # NULL
  BY DEF Entering, ReleasingWake, Publishing, ReleasingList, In, At
<1>4. /\ fr[t].needs_release => fr[t].pc \in WakeLabels /\ fr[t].ret = "idle"
      /\ fr[t].pc = "release" => fr[t].needs_release
      /\ fr[t].pc \in {"tail", "notify"} => fr[t].head # NULL
      /\ fr[t].head # NULL => fr[t].pc \in {"tail", "waiters", "post", "notify"}
      /\ fr[t].pc = "publish" => fr[t].dsn # NULL
      /\ fr[t].needs_release \in BOOLEAN
  BY <1>0 DEF Frames, Frame
<1>5. client' = client /\ \A u \in Threads : OnClientRef(u)' => client'
  BY OnClientStep
<1>6. /\ e > 0 => client
      /\ fr[t].pc # "idle" => client \/ fr[t].needs_release
  <2>1. ASSUME e > 0 PROVE client
    <3>1. PICK u : u \in Entering
      BY <2>1, FS_EmptySet
    <3> QED
      BY <1>0, <3>1 DEF GroupInv, OnReferences, OnClientRef, Entering, In, At, Frames,
           WakeLabels
  <2> QED
    BY <2>1 DEF GroupInv, OnReferences, OnClientRef, At
<1>7. ASSUME do_ref_cnt' + 1 = One(client') + One(dg_value' > 0) - e1 + w1
                                 + One(dg_notify_head' # NULL) + p1 + l1
      PROVE  ReferenceAccounting'
  BY <1>7 DEF ReferenceAccounting, BoolToNat
<1>8. ASSUME life' # "disposed", life' \notin {"resurrected", "overreleased", "inuse"},
             life' = "alive" => e1 =< One(dg_value' > 0) /\ dg_value' \in 0..LongMax
      PROVE  OnReferences' /\ NoUseAfterDispose'
  BY <1>5, <1>8 DEF OnReferences, NoUseAfterDispose, BoolToNat
<1> DEFINE Same ==
      /\ (t \in Entering' <=> t \in Entering) /\ (t \in ReleasingWake' <=> t \in ReleasingWake)
      /\ (t \in Publishing' <=> t \in Publishing)
      /\ (t \in ReleasingList' <=> t \in ReleasingList)
      /\ dg_value' = dg_value /\ dg_notify_head' = dg_notify_head
      /\ do_ref_cnt' = do_ref_cnt /\ life' = life
<1>9. ASSUME Same
      PROVE  ReferenceAccounting' /\ OnReferences' /\ NoUseAfterDispose'
  <2>1. e1 = e /\ w1 = w /\ p1 = p /\ l1 = l
    BY <1>1, <1>2, <1>9
  <2> HIDE DEF e, e1, w, w1, p, p1, l, l1
  <2>2. ReferenceAccounting'
    BY <1>1, <1>5, <1>7, <1>9, <2>1
  <2>3. OnReferences' /\ NoUseAfterDispose'
    BY <1>0, <1>1, <1>8, <1>9, <2>1
  <2> QED
    BY <2>2, <2>3
<1>10. ASSUME NEW f \in Frame, f.needs_release => f.ret = "idle"
       PROVE  /\ AfterPosts(f).pc \notin {"enterRetain", "publish", "listRelease"}
              /\ AfterNotify(f).pc \notin {"enterRetain", "publish", "listRelease"}
              /\ Resume(f).pc \notin {"enterRetain", "publish", "listRelease"}
              /\ AfterPosts(f).needs_release <=> f.needs_release
              /\ AfterNotify(f).needs_release <=> f.needs_release
              /\ ~Resume(f).needs_release
              /\ AfterPosts(f).head = f.head
              /\ f.head = NULL => AfterNotify(f).head = NULL
              /\ Resume(f).head = NULL
              /\ f.needs_release => Resume(f).pc = "idle"
  BY <1>10 DEF AfterPosts, AfterNotify, Resume, Idle, Frame
<1> USE DEF counts, list, refs, blocks
<1>a. CASE wake_tail(t)
  <2>1. Same
    BY <1>0, <1>3, <1>4, <1>a DEF wake_tail, SnapshotTail, At, Frame
  <2> QED
    BY <1>9, <2>1
<1>b. CASE wake_waiters(t)
  <2>1. fr'[t] = AfterPosts(fr[t]) \/ fr'[t] = [fr[t] EXCEPT !.pc = "post", !.rval = dg_waiters]
    BY <1>0, <1>b DEF wake_waiters
  <2>2. Same
    <3>1. CASE fr'[t] = AfterPosts(fr[t])
      BY <1>0, <1>3, <1>4, <1>10, <1>b, <3>1 DEF wake_waiters, At
    <3>2. CASE fr'[t] = [fr[t] EXCEPT !.pc = "post", !.rval = dg_waiters]
      BY ZenonT(60), <1>0, <1>3, <1>4, <1>b, <3>2 DEF wake_waiters, At, Frame
    <3> QED
      BY <2>1, <3>1, <3>2
  <2> QED
    BY <1>9, <2>2
<1>c. CASE wake_post(t)
  <2>1. CASE fr[t].rval > 1
    <3>1. fr'[t] = [fr[t] EXCEPT !.rval = fr[t].rval - 1]
      BY <1>0, <1>c, <2>1 DEF wake_post
    <3>2. Same
      BY <1>0, <1>3, <1>4, <1>c, <3>1 DEF wake_post, At, Frame
    <3> QED
      BY <1>9, <3>2
  <2>2. CASE ~(fr[t].rval > 1)
    <3>1. fr'[t] = AfterPosts([fr[t] EXCEPT !.rval = 0])
      BY <1>0, <1>c, <2>2 DEF wake_post
    <3>2. [fr[t] EXCEPT !.rval = 0] \in Frame
      BY <1>0, CountsAreNat DEF Frame
    <3>3. /\ [fr[t] EXCEPT !.rval = 0].needs_release <=> fr[t].needs_release
          /\ [fr[t] EXCEPT !.rval = 0].head = fr[t].head
          /\ [fr[t] EXCEPT !.rval = 0].ret = fr[t].ret
      BY <1>0 DEF Frame
    <3>4. /\ fr'[t].pc \notin {"enterRetain", "publish", "listRelease"}
          /\ fr'[t].needs_release <=> fr[t].needs_release
          /\ fr'[t].head = fr[t].head
      <4> DEFINE g == [fr[t] EXCEPT !.rval = 0]
      <4>1. /\ g \in Frame
            /\ g.needs_release <=> fr[t].needs_release
            /\ g.head = fr[t].head /\ g.ret = fr[t].ret /\ fr'[t] = AfterPosts(g)
        BY <3>1, <3>2, <3>3
      <4> HIDE DEF g
      <4> QED
        BY <1>4, <1>10, <4>1
    <3>5. Same
      BY <1>3, <1>c, <3>4 DEF wake_post, At
    <3> QED
      BY <1>9, <3>5
  <2> QED
    BY <2>1, <2>2
<1>d. CASE wake_notify(t)
  <2>1. /\ fr[t].pc = "notify" /\ fr[t].head # NULL
        /\ fr'[t].needs_release <=> fr[t].needs_release
        /\ fr'[t].pc = (IF Pop(fr[t]) = NULL THEN "listRelease" ELSE "notify")
        /\ fr'[t].head = Pop(fr[t])
    BY <1>0, <1>4, <1>d DEF wake_notify, At, Frame
  <2>2. Same
    BY <1>3, <1>d, <2>1 DEF wake_notify
  <2> QED
    BY <1>9, <2>2
<1>e. CASE WaitSlow(t)
  <2>1. ~fr[t].needs_release /\ fr[t].head = NULL
    BY <1>4, <1>e DEF WaitSlow, wait_slow_load, wait_slow_register, wait_slow_recheck,
        wait_slow_wakeup, wait_slow_timeout, wait_slow_undoLoad, wait_slow_undoCAS, At,
        WakeLabels
  <2>2. CASE wait_slow_load(t) \/ wait_slow_recheck(t)
    <3>1. Same
      BY <1>0, <1>3, <2>1, <2>2 DEF wait_slow_load, wait_slow_recheck, WaitRecheck, StartWake,
        Goto, At, Frame
    <3> QED
      BY <1>9, <3>1
  <2>3. CASE wait_slow_register(t) \/ wait_slow_timeout(t) \/ wait_slow_undoLoad(t)
    <3>1. Same
      BY <1>0, <1>3, <2>1, <2>3 DEF wait_slow_register, wait_slow_timeout, wait_slow_undoLoad,
        UndoStart, Goto, At, Frame
    <3> QED
      BY <1>9, <3>1
  <2>4. CASE wait_slow_wakeup(t) \/ wait_slow_undoCAS(t)
    <3>1. Same
      BY <1>0, <1>3, <2>1, <2>4 DEF wait_slow_wakeup, wait_slow_undoCAS, UndoStart, Return,
        Idle, At, Frame
    <3> QED
      BY <1>9, <3>1
  <2> QED
    BY <1>e, <2>2, <2>3, <2>4 DEF WaitSlow
<1>f. CASE notify_link(t) \/ notify_check(t)
  <2>1. ~fr[t].needs_release /\ fr[t].head = NULL
    BY <1>4, <1>f DEF notify_link, notify_check, At, WakeLabels
  <2>2. Same
    BY <1>0, <1>3, <1>f, <2>1 DEF notify_link, notify_check, NotifyCheck, StartWake, Return,
      Idle, At, Frame
  <2> QED
    BY <1>9, <2>2
<1>g. CASE \E when \in Timeouts : dispatch_group_wait(t, when)
  <2>1. Same
    BY <1>0, <1>3, <1>g DEF dispatch_group_wait, At, Frame
  <2> QED
    BY <1>9, <2>1
<1>h. CASE \E c \in Conts : dispatch_group_notify(t, c)
  <2>1. PICK c \in Conts : dispatch_group_notify(t, c)
    BY <1>h
  <2>2. /\ fr[t].pc = "idle" /\ fr'[t].pc \in {"notifyRetain", "link"}
        /\ fr'[t].needs_release <=> fr[t].needs_release
        /\ fr'[t].head = fr[t].head
    BY <1>0, <2>1 DEF dispatch_group_notify, At, Frame
  <2>3. Same
    BY <1>3, <2>1, <2>2 DEF dispatch_group_notify
  <2> QED
    BY <1>9, <2>3
<1>i. CASE wake_head(t)
  <2>1. /\ fr[t].pc = "head" /\ fr[t].head = NULL /\ fr'[t].head = dg_notify_head
        /\ fr'[t].needs_release <=> fr[t].needs_release
        /\ fr'[t].pc \in {"waiters", "tail"}
        /\ dg_value' = dg_value /\ dg_notify_head' = NULL /\ do_ref_cnt' = do_ref_cnt
        /\ life' = life
    BY <1>0, <1>4, <1>i DEF wake_head, At, Frame
  <2>2. /\ e1 = e /\ w1 = w /\ p1 = p /\ l1 = l + One(dg_notify_head # NULL)
    BY <1>1, <1>2, <1>3, <2>1
  <2> HIDE DEF e, e1, w, w1, p, p1, l, l1
  <2>3. ReferenceAccounting'
    BY <1>1, <1>5, <1>7, <2>1, <2>2
  <2> QED
    BY <1>0, <1>1, <1>8, <2>1, <2>2, <2>3
<1>j. CASE wake_listRelease(t)
  <2>1. /\ fr[t].pc = "listRelease" /\ fr[t].head = NULL /\ fr'[t] = AfterNotify(fr[t])
        /\ dg_value' = dg_value /\ dg_notify_head' = dg_notify_head
        /\ do_ref_cnt' = do_ref_cnt - 1
        /\ life' = IF do_ref_cnt - 1 >= 0 THEN life
                   ELSE IF do_ref_cnt - 1 < -1 THEN "overreleased"
                   ELSE IF dg_value # 0 THEN "inuse" ELSE "disposed"
    BY <1>0, <1>4, <1>j DEF wake_listRelease, Release, At
  <2>2. /\ fr'[t].pc \notin {"enterRetain", "publish", "listRelease"}
        /\ fr'[t].needs_release <=> fr[t].needs_release
        /\ fr'[t].head = NULL
    BY <1>0, <1>4, <1>10, <2>1
  <2>3. e1 = e /\ w1 = w /\ p1 = p /\ l1 = l - 1
    BY <1>1, <1>2, <1>3, <2>1, <2>2
  <2>4. client \/ w > 0
    <3>1. fr[t].needs_release => w > 0
      <4>1. fr[t].needs_release => ReleasingWake # {}
        BY DEF ReleasingWake
      <4>2. Cardinality(ReleasingWake) = 0 => ReleasingWake = {}
        BY <1>0, CountsAreNat, FS_EmptySet
      <4> QED
        BY <1>1, <4>1, <4>2
    <3> QED
      BY <1>6, <2>1, <3>1
  <2>5. l > 0
    <3>1. ReleasingList # {}
      BY <1>3, <2>1
    <3>2. Cardinality(ReleasingList) = 0 => ReleasingList = {}
      BY <1>0, CountsAreNat, FS_EmptySet
    <3> QED
      BY <1>1, <3>1, <3>2
  <2> HIDE DEF e, e1, w, w1, p, p1, l, l1
  <2>6. do_ref_cnt >= 1
    BY <1>0, <1>1, <2>4, <2>5
  <2>7. life' = life
    BY <1>0, <2>1, <2>6
  <2>8. ReferenceAccounting'
    BY <1>0, <1>1, <1>5, <1>7, <2>1, <2>3
  <2> QED
    BY <1>0, <1>1, <1>8, <2>1, <2>3, <2>7, <2>8
<1>k. CASE wake_release(t)
  <2>1. /\ fr[t].pc = "release" /\ fr[t].needs_release /\ fr[t].head = NULL
        /\ fr'[t] = Resume(fr[t])
        /\ dg_value' = dg_value /\ dg_notify_head' = dg_notify_head
        /\ do_ref_cnt' = do_ref_cnt - 1
        /\ life' = IF do_ref_cnt - 1 >= 0 THEN life
                   ELSE IF do_ref_cnt - 1 < -1 THEN "overreleased"
                   ELSE IF dg_value # 0 THEN "inuse" ELSE "disposed"
    BY <1>0, <1>4, <1>k DEF wake_release, WakeRelease, Release, At
  <2>2. fr'[t].pc = "idle" /\ ~fr'[t].needs_release /\ fr'[t].head = NULL
    BY <1>0, <1>4, <1>10, <2>1
  <2>3. e1 = e /\ w1 = w - 1 /\ p1 = p /\ l1 = l
    BY <1>1, <1>2, <1>3, <2>1, <2>2
  <2>5. w > 0
    <3>1. ReleasingWake # {}
      BY <1>3, <2>1
    <3>2. Cardinality(ReleasingWake) = 0 => ReleasingWake = {}
      BY <1>0, CountsAreNat, FS_EmptySet
    <3> QED
      BY <1>1, <3>1, <3>2
  <2>4. w1 \in Nat /\ (w1 = 0 => \A u \in Threads : ~fr'[u].needs_release)
    <3>1. ReleasingWake' \subseteq Threads
      BY DEF ReleasingWake
    <3>2. IsFiniteSet(ReleasingWake')
      BY <3>1, GroupAssumption, FS_Subset
    <3>3. Cardinality(ReleasingWake') = 0 => ReleasingWake' = {}
      BY <3>2, FS_EmptySet
    <3> QED
      BY <1>1, <2>3, <2>5, <3>2, <3>3, FS_CardinalityType DEF ReleasingWake
  <2> HIDE DEF e, e1, w, w1, p, p1, l, l1
  <2>6. ReferenceAccounting'
    BY <1>0, <1>1, <1>5, <1>7, <2>1, <2>3
  <2>7. do_ref_cnt >= 0
    BY <1>0, <1>1, <1>6, <2>5
  <2>8. CASE do_ref_cnt # 0
    <3>1. life' = life
      BY <1>0, <2>1, <2>7, <2>8
    <3> QED
      BY <1>0, <1>1, <1>8, <2>1, <2>3, <2>6, <3>1
  <2>9. CASE do_ref_cnt = 0
    <3>1. ~client /\ dg_value = 0 /\ dg_notify_head = NULL /\ w1 = 0 /\ e = 0
      BY <1>0, <1>1, <1>6, <2>3, <2>5, <2>9
    <3>2. life' = "disposed"
      BY <2>1, <2>9, <3>1
    <3>3. \A u \in Threads : fr'[u].pc = "idle"
      BY <1>5, <2>4, <3>1 DEF OnClientRef, At
    <3>4. In("idle")' = Threads /\ ~client'
      BY <1>5, <3>1, <3>3 DEF In, At
    <3>5. NoUseAfterDispose'
      BY <3>2, <3>4 DEF NoUseAfterDispose
    <3>6. OnReferences'
      BY <1>0, <1>1, <1>5, <2>1, <2>3, <3>1, <3>2 DEF OnReferences, BoolToNat, e1
    <3> QED
      BY <2>6, <3>5, <3>6
  <2> QED
    BY <2>8, <2>9
<1>l. CASE dispatch_group_enter(t)
  <2>1. /\ fr[t].pc = "idle" /\ ~fr[t].needs_release /\ fr[t].head = NULL
        /\ fr'[t].pc = (IF dg_value = 0 THEN "enterRetain" ELSE "idle")
        /\ ~fr'[t].needs_release /\ fr'[t].head = NULL
        /\ dg_value' = dg_value + 1 /\ dg_notify_head' = dg_notify_head
        /\ do_ref_cnt' = do_ref_cnt
        /\ life' = IF dg_value >= LongMax THEN "overflow" ELSE life
    BY <1>0, <1>4, <1>l DEF dispatch_group_enter, EnterNeedsRetain, At, Frame, WakeLabels
  <2>2. e1 = e + One(dg_value = 0) /\ w1 = w /\ p1 = p /\ l1 = l
    BY <1>1, <1>2, <1>3, <2>1
  <2> HIDE DEF e, e1, w, w1, p, p1, l, l1
  <2>3. ReferenceAccounting'
    BY <1>0, <1>1, <1>5, <1>7, <2>1, <2>2
  <2>4. e1 =< One(dg_value' > 0) /\ (life' = "alive" => dg_value' \in 0..LongMax)
    BY <1>0, <1>1, <2>1, <2>2
  <2> QED
    BY <1>0, <1>8, <2>1, <2>3, <2>4
<1>m. CASE dispatch_group_leave(t)
  <2>1. /\ fr[t].pc = "idle" /\ ~fr[t].needs_release /\ fr[t].head = NULL
        /\ fr'[t].pc = (IF dg_value = 1 THEN "head" ELSE "idle")
        /\ fr'[t].needs_release <=> dg_value = 1
        /\ fr'[t].head = NULL
        /\ dg_value' = dg_value - 1 /\ dg_notify_head' = dg_notify_head
        /\ do_ref_cnt' = do_ref_cnt
        /\ life' = IF dg_value - 1 < 0 THEN "unbalanced" ELSE life
        /\ dg_value > e \/ dg_value = 0
    BY <1>0, <1>1, <1>4, <1>m DEF dispatch_group_leave, StartWake, At, Frame, WakeLabels, Entering
  <2>2. e1 = e /\ w1 = w + One(dg_value = 1) /\ p1 = p /\ l1 = l
    BY <1>1, <1>2, <1>3, <2>1
  <2> HIDE DEF e, e1, w, w1, p, p1, l, l1
  <2>3. CASE dg_value > 0
    <3>1. ReferenceAccounting'
      BY <1>0, <1>1, <1>5, <1>7, <2>1, <2>2, <2>3
    <3>2. e1 =< One(dg_value' > 0) /\ dg_value' \in 0..LongMax
      BY <1>0, <1>1, <2>1, <2>2, <2>3
    <3> QED
      BY <1>0, <1>8, <2>1, <3>1, <3>2
  <2>4. CASE dg_value = 0
    <3>1. life' = "unbalanced"
      BY <2>1, <2>4
    <3> QED
      BY <1>8, <3>1 DEF ReferenceAccounting
  <2> QED
    BY <1>1, <2>3, <2>4
<1>n. CASE enter_retain(t)
  <2>1. /\ fr[t].pc = "enterRetain" /\ ~fr[t].needs_release /\ fr[t].head = NULL
        /\ fr'[t].pc = "idle" /\ ~fr'[t].needs_release /\ fr'[t].head = NULL
        /\ dg_value' = dg_value /\ dg_notify_head' = dg_notify_head
        /\ do_ref_cnt' = do_ref_cnt + 1
        /\ life' = IF do_ref_cnt + 1 =< 0 THEN "resurrected" ELSE life
    BY <1>0, <1>4, <1>n DEF enter_retain, Retain, Return, Idle, At, WakeLabels
  <2>2. e1 = e - 1 /\ w1 = w /\ p1 = p /\ l1 = l
    BY <1>1, <1>2, <1>3, <2>1
  <2> HIDE DEF e, e1, w, w1, p, p1, l, l1
  <2>3. do_ref_cnt >= 0
    BY <1>0, <1>1, <1>6, <2>1
  <2>4. life' = life /\ ReferenceAccounting'
    BY <1>0, <1>1, <1>5, <1>7, <2>1, <2>2, <2>3
  <2> QED
    BY <1>0, <1>1, <1>8, <2>1, <2>2, <2>4
<1>o. CASE notify_retain(t)
  <2>1. /\ fr[t].pc = "notifyRetain" /\ ~fr[t].needs_release /\ fr[t].head = NULL
        /\ fr'[t].pc = "publish" /\ ~fr'[t].needs_release /\ fr'[t].head = NULL
        /\ dg_value' = dg_value /\ dg_notify_head' = dg_notify_head
        /\ do_ref_cnt' = do_ref_cnt + 1
        /\ life' = IF do_ref_cnt + 1 =< 0 THEN "resurrected" ELSE life
    BY <1>0, <1>4, <1>o DEF notify_retain, Retain, Goto, At, WakeLabels, Frame
  <2>2. e1 = e /\ w1 = w /\ p1 = p + 1 /\ l1 = l
    BY <1>1, <1>2, <1>3, <2>1
  <2> HIDE DEF e, e1, w, w1, p, p1, l, l1
  <2>3. do_ref_cnt >= 0
    BY <1>0, <1>1, <1>6, <2>1
  <2>4. life' = life /\ ReferenceAccounting'
    BY <1>0, <1>1, <1>5, <1>7, <2>1, <2>2, <2>3
  <2> QED
    BY <1>0, <1>1, <1>8, <2>1, <2>2, <2>4
<1>p. CASE notify_publish(t)
  <2>1. /\ fr[t].pc = "publish" /\ ~fr[t].needs_release /\ fr[t].head = NULL
        /\ fr'[t].pc = "notifyCheck" /\ ~fr'[t].needs_release /\ fr'[t].head = NULL
        /\ dg_value' = dg_value /\ dg_notify_head' # NULL
        /\ do_ref_cnt' = do_ref_cnt /\ life' = life
    BY <1>0, <1>4, <1>p DEF notify_publish, Goto, At, WakeLabels, Frame
  <2>2. e1 = e /\ w1 = w /\ p1 = p - 1 /\ l1 = l
    BY <1>1, <1>2, <1>3, <2>1
  <2>3. dg_notify_head = NULL
    <3>1. t \in Heading
      BY <2>1 DEF Heading
    <3>2. Cardinality(Heading) \in Nat /\ Cardinality(Heading) # 0
      BY <1>0, <3>1, CountsAreNat, FS_EmptySet
    <3> QED
      BY <3>2 DEF GroupInv, OneHead, BoolToNat
  <2> HIDE DEF e, e1, w, w1, p, p1, l, l1
  <2>4. ReferenceAccounting'
    BY <1>0, <1>1, <1>5, <1>7, <2>1, <2>2, <2>3
  <2> QED
    BY <1>0, <1>1, <1>8, <2>1, <2>2, <2>4
<1> QED
  BY <1>a, <1>b, <1>c, <1>d, <1>e, <1>f, <1>g, <1>h, <1>i, <1>j, <1>k, <1>l, <1>m,
     <1>n, <1>o, <1>p
  DEF Moves, Inside, Wake, Notify, Call

(* The client gives its reference back between its calls.                     *)
LEMMA ClientReleaseStep ==
  ASSUME GroupInv, life \in {"alive", "disposed"}, client_release
  PROVE  GroupInv'
<1> DEFINE One(b) == IF b THEN 1 ELSE 0
           e == Cardinality(Entering)
           w == Cardinality(ReleasingWake)
           p == Cardinality(Publishing)
           l == Cardinality(ReleasingList)
<1> USE DEF GroupInv, Accounting
<1>0. TypeOK /\ client /\ life = "alive" /\ do_ref_cnt \in Int
  BY DEF client_release, OnReferences, TypeOK
<1>1. /\ dg_value' = dg_value /\ dg_waiters' = dg_waiters /\ tokens' = tokens /\ fr' = fr
      /\ dg_notify_head' = dg_notify_head /\ dg_notify_tail' = dg_notify_tail
      /\ do_next' = do_next /\ notified' = notified /\ submitted' = submitted
      /\ dq_refs' = dq_refs /\ client' = FALSE /\ do_ref_cnt' = do_ref_cnt - 1
      /\ life' = IF do_ref_cnt - 1 >= 0 THEN life
                 ELSE IF do_ref_cnt - 1 < -1 THEN "overreleased"
                 ELSE IF dg_value # 0 THEN "inuse" ELSE "disposed"
  BY DEF client_release, Release, counts, list, blocks
<1>2. TypeOK'
  <2>1. life' \in {"alive", "disposed", "overreleased", "inuse"} /\ do_ref_cnt' \in Int
    BY <1>0, <1>1
  <2>3. client' \in BOOLEAN
    BY <1>1
  <2>2. /\ dg_value' \in -1..LongMax + 1 /\ dg_waiters' \in Nat /\ tokens' \in Nat
        /\ {dg_notify_head, dg_notify_tail}' \subseteq Conts \cup {NULL}
        /\ do_next' \in [Conts -> Conts \cup {NULL}]
        /\ submitted' \in [Conts -> Nat] /\ notified' \subseteq Conts /\ dq_refs' \in Int
        /\ fr' \in [Threads -> Frame]
    BY <1>0, <1>1 DEF TypeOK
  <2> QED
    BY <2>1, <2>2, <2>3 DEF TypeOK
<1>3. WaiterAccounting' /\ Frames' /\ OneHead'
  BY <1>1 DEF WaiterAccounting, Registered, Claimed, Frames, OneHead, Heading
<1>4. \A u \in Threads : ~OnClientRef(u)
  BY DEF client_release
<1>5. Entering = {}
  BY <1>0, <1>4 DEF Entering, In, OnClientRef, At, Frames, WakeLabels
<1>6. e = 0 /\ w \in Nat /\ p \in Nat /\ l \in Nat /\ (w = 0 => ReleasingWake = {})
  BY <1>0, <1>5, FS_EmptySet, CountsAreNat
<1>7. do_ref_cnt + 1 = 1 + One(dg_value > 0) - e + w + One(dg_notify_head # NULL) + p + l
  BY <1>0 DEF ReferenceAccounting, BoolToNat
<1>8. /\ Entering' = Entering /\ ReleasingWake' = ReleasingWake
      /\ Publishing' = Publishing /\ ReleasingList' = ReleasingList
  BY <1>1 DEF Entering, ReleasingWake, Publishing, ReleasingList, In, At
<1>9. ReferenceAccounting'
  <2>1. do_ref_cnt' + 1 = 0 + One(dg_value' > 0) - Cardinality(Entering') + Cardinality(ReleasingWake')
          + One(dg_notify_head' # NULL) + Cardinality(Publishing') + Cardinality(ReleasingList')
    <3> HIDE DEF e, w, p, l
    <3>1. do_ref_cnt' + 1 = 0 + One(dg_value > 0) - e + w + One(dg_notify_head # NULL) + p + l
      BY <1>0, <1>1, <1>6, <1>7
    <3> QED
      BY <1>1, <1>8, <3>1 DEF e, w, p, l
  <2> QED
    BY <1>1, <2>1 DEF ReferenceAccounting, BoolToNat
<1>10. dg_value \in 0..LongMax
  BY <1>0 DEF OnReferences
<1>11. /\ do_ref_cnt >= 0
       /\ do_ref_cnt = 0 => dg_value = 0 /\ dg_notify_head = NULL /\ w = 0
  <2> HIDE DEF e, w, p, l
  <2>1. dg_value \in Nat
    BY <1>10, GroupAssumption
  <2> QED
    BY <1>0, <1>6, <1>7, <2>1
<1>12. life' \in {"alive", "disposed"} /\ (life' = "disposed" => do_ref_cnt = 0)
  BY <1>0, <1>1, <1>11
<1>13. Cardinality(Entering') =< BoolToNat(dg_value' > 0)
  BY <1>1, <1>6, <1>8 DEF BoolToNat
<1>14. OnReferences'
  BY <1>1, <1>4, <1>10, <1>11, <1>12, <1>13 DEF OnReferences, OnClientRef, At
<1>15. NoUseAfterDispose'
  <2>1. ASSUME life' = "disposed" PROVE In("idle")' = Threads
    <3>1. \A u \in Threads : ~fr[u].needs_release
      BY <1>6, <1>11, <1>12, <2>1 DEF ReleasingWake
    <3> QED
      BY <1>1, <1>4, <3>1 DEF OnClientRef, In, At
  <2> QED
    BY <1>1, <1>12, <2>1 DEF NoUseAfterDispose
<1> QED
  BY <1>2, <1>3, <1>9, <1>14, <1>15

LEMMA GroupInit == Init => GroupInv
<1> SUFFICES ASSUME Init PROVE GroupInv
  OBVIOUS
<1>0. Cardinality(Threads) \in Nat /\ Cardinality({}) = 0
  BY GroupAssumption, FS_CardinalityType, FS_EmptySet
<1>1. Idle \in Frame
  BY <1>0 DEF Idle, Frame, Labels
<1>2. dg_value \in -1..LongMax + 1 /\ dg_value \in 0..LongMax
  BY GroupAssumption DEF Init
<1>3. TypeOK
  BY <1>1, <1>2 DEF Init, TypeOK
<1>4. /\ Registered = {} /\ Entering = {} /\ ReleasingWake = {} /\ Publishing = {}
      /\ ReleasingList = {} /\ Heading = {}
  BY DEF Init, Idle, Registered, Entering, ReleasingWake, Publishing, ReleasingList,
         Heading, In, At
<1>5. Claimed = {}
  <2>1. ASSUME NEW q \in Threads \X (1..Cardinality(Threads)) PROVE ~(q[2] =< fr[q[1]].rval)
    BY <1>0 DEF Init, Idle
  <2> QED
    BY <2>1 DEF Claimed
<1>6. WaiterAccounting /\ OneHead
  BY <1>0, <1>4, <1>5 DEF Init, WaiterAccounting, OneHead, BoolToNat
<1>7. ReferenceAccounting
  BY <1>0, <1>4 DEF Init, ReferenceAccounting, BoolToNat
<1>8. Frames
  BY DEF Init, Idle, Frames
<1>9. OnReferences /\ NoUseAfterDispose
  BY <1>0, <1>2, <1>4 DEF Init, Idle, OnReferences, OnClientRef, At, NoUseAfterDispose, BoolToNat
<1> QED
  BY <1>3, <1>6, <1>7, <1>8, <1>9 DEF GroupInv, Accounting

LEMMA GroupStep == GroupInv /\ [Next]_vars => GroupInv'
<1>1. ASSUME GroupInv, life \in {"alive", "disposed"}, NEW t \in Threads, Moves(t)
      PROVE  GroupInv'
  BY <1>1, TypeStep, WaitersStep, FramesStep, OneHeadStep, ReferencesStep
  DEF GroupInv, Accounting
<1>2. ASSUME GroupInv, UNCHANGED vars PROVE GroupInv'
  <2>1. TypeOK' /\ Frames'
    BY <1>2 DEF vars, GroupInv, Accounting, TypeOK, Frames
  <2>2. WaiterAccounting' /\ ReferenceAccounting' /\ OneHead'
    BY <1>2 DEF vars, GroupInv, Accounting, WaiterAccounting, ReferenceAccounting, OneHead,
       Registered, Claimed, Entering, ReleasingWake, Publishing, ReleasingList, Heading, In, At
  <2>3. OnReferences' /\ NoUseAfterDispose'
    BY <1>2 DEF vars, GroupInv, OnReferences, OnClientRef, NoUseAfterDispose, Entering, In, At
  <2> QED
    BY <2>1, <2>2, <2>3 DEF GroupInv, Accounting
<1> QED
  BY <1>1, <1>2, ClientReleaseStep DEF Next, Moves

(* Types, waits and references: every wait that has been counted is counted   *)
(* once, by the group, by a wake or by a posted wakeup, however timeouts,     *)
(* leaves and wakes interleave; and the references of the group add up.       *)
THEOREM GroupAccounting == Spec => []Accounting
<1>1. GroupInv => Accounting
  BY DEF GroupInv
<1> QED
  BY <1>1, GroupInit, GroupStep, PTL DEF Spec

(* A group that is disposed of has nobody inside, and no interleaving of      *)
(* paired calls with the client's release meets the traps of _os_object_retain *)
(* and _os_object_release or the deallocation of a group in use.              *)
THEOREM GroupNoUseAfterDispose == Spec => []NoUseAfterDispose
<1>1. GroupInv => NoUseAfterDispose
  BY DEF GroupInv
<1> QED
  BY <1>1, GroupInit, GroupStep, PTL DEF Spec

-----------------------------------------------------------------------------
\* The list of notifications, each block with one way in and one way out.
Counted == /\ IsFiniteSet(notified)
           /\ \A c \in Conts : submitted[c] =< (IF c \in notified THEN 1 ELSE 0)
           /\ dq_refs = Cardinality({c \in notified : submitted[c] = 0})
Ways == OneWayIn /\ OneWayOut /\ Reached /\ Counted

(* What a thread that does not change the list leaves as it was.              *)
LEMMA WaysStay ==
  ASSUME Ways, UNCHANGED <<list, blocks>>, \A u \in Threads : Holds(u)' = Holds(u),
         \A u \in Threads : Ends(u)' = Ends(u) \/ Ends(u)' = NULL
  PROVE  Ways'
<1> USE DEF Ways, list, blocks
<1>1. OneWayIn'
  BY DEF OneWayIn, Awaiting
<1>2. OneWayOut'
  BY DEF OneWayOut, Awaiting
<1>3. Reached'
  BY DEF Reached
<1>4. Counted'
  BY DEF Counted
<1> QED
  BY <1>1, <1>2, <1>3, <1>4

(* How one thread's ways change while the others keep theirs.                 *)
LEMMA WaysStep ==
  ASSUME GroupInv, Ways, life \in {"alive", "disposed"}, NEW t \in Threads, Moves(t)
  PROVE  Ways'
<1> USE DEF GroupInv, Accounting
<1>0. /\ TypeOK /\ fr[t] \in Frame /\ Frames /\ fr \in [Threads -> Frame] /\ TypeOK' /\ Frames'
      /\ fr'[t] \in Frame /\ NULL \notin Conts
  BY TypeStep, FramesStep, GroupAssumption DEF TypeOK
<1>1. \A u \in Threads \ {t} : fr'[u] = fr[u] /\ Holds(u)' = Holds(u) /\ Ends(u)' = Ends(u)
  BY OthersStay DEF Holds, Ends
<1>2. /\ fr[t].pc \in {"tail", "notify"} => fr[t].head # NULL
      /\ fr[t].head # NULL => fr[t].pc \in {"tail", "waiters", "post", "notify"}
      /\ fr[t].pc \in {"notifyRetain", "publish", "link"} => fr[t].dsn # NULL
      /\ fr[t].pc = "link" => fr[t].prev # NULL
      /\ fr'[t].head # NULL => fr'[t].pc \in {"tail", "waiters", "post", "notify"}
  BY <1>0 DEF Frames
<1>3. ASSUME UNCHANGED <<list, blocks>>, Holds(t)' = Holds(t),
             Ends(t)' = Ends(t) \/ Ends(t)' = NULL
      PROVE  Ways'
  <2>1. /\ \A u \in Threads : Holds(u)' = Holds(u)
        /\ \A u \in Threads : Ends(u)' = Ends(u) \/ Ends(u)' = NULL
    BY <1>1, <1>3
  <2> QED
    BY <1>3, <2>1, WaysStay
<1>4. ASSUME UNCHANGED <<list, blocks>>,
             fr[t].pc \notin {"notifyRetain", "publish", "link", "tail"},
             fr'[t].pc \notin {"notifyRetain", "publish", "link", "tail"},
             fr'[t].head = fr[t].head, fr[t].head # NULL => fr'[t].tail = fr[t].tail
      PROVE  Ways'
  <2>1. Holds(t)' = Holds(t) /\ Ends(t)' = Ends(t)
    BY <1>4 DEF Holds, Ends
  <2> QED
    BY <1>3, <1>4, <2>1
<1>5. ASSUME NEW f \in Frame
      PROVE  /\ AfterPosts(f).pc \notin {"notifyRetain", "publish", "link", "tail"}
                  \/ AfterPosts(f).pc = f.pc
             /\ AfterNotify(f).pc \notin {"notifyRetain", "publish", "link", "tail"}
             /\ Resume(f).pc \notin {"notifyRetain", "publish", "link", "tail"}
             /\ AfterPosts(f).head = f.head
             /\ f.head # NULL => AfterPosts(f).tail = f.tail
             /\ f.head = NULL => AfterNotify(f).head = NULL
             /\ Resume(f).head = NULL
  BY DEF AfterPosts, AfterNotify, Resume, Idle, Frame
<1>a. CASE wake_waiters(t)
  <2>1. fr[t].pc = "waiters" /\ UNCHANGED <<list, blocks>>
    BY <1>a DEF wake_waiters, At
  <2>2. CASE dg_waiters = 0
    <3>1. fr'[t] = AfterPosts(fr[t])
      BY <1>0, <1>a, <2>2 DEF wake_waiters
    <3> QED
      BY <1>0, <1>4, <1>5, <2>1, <3>1
  <2>3. CASE dg_waiters # 0
    <3>1. fr'[t] = [fr[t] EXCEPT !.pc = "post", !.rval = dg_waiters]
      BY <1>0, <1>a, <2>3 DEF wake_waiters
    <3>2. fr'[t].pc = "post" /\ fr'[t].head = fr[t].head /\ fr'[t].tail = fr[t].tail
      BY <1>0, <3>1 DEF Frame
    <3> QED
      BY <1>4, <2>1, <3>2
  <2> QED
    BY <2>2, <2>3
<1>b. CASE wake_post(t)
  <2>1. fr[t].pc = "post" /\ UNCHANGED <<list, blocks>>
    BY <1>b DEF wake_post, At
  <2>2. CASE fr[t].rval > 1
    <3>1. fr'[t] = [fr[t] EXCEPT !.rval = fr[t].rval - 1]
      BY <1>0, <1>b, <2>2 DEF wake_post
    <3>2. fr'[t].pc = "post" /\ fr'[t].head = fr[t].head /\ fr'[t].tail = fr[t].tail
      BY <1>0, <2>1, <3>1 DEF Frame
    <3> QED
      BY <1>4, <2>1, <3>2
  <2>3. CASE ~(fr[t].rval > 1)
    <3> DEFINE f == [fr[t] EXCEPT !.rval = 0]
    <3>1. fr'[t] = AfterPosts(f)
      BY <1>0, <1>b, <2>3 DEF wake_post
    <3>2. f \in Frame
      BY <1>0, CountsAreNat DEF Frame
    <3>3. f.pc = "post" /\ f.head = fr[t].head /\ f.tail = fr[t].tail
      BY <1>0, <2>1 DEF Frame
    <3> HIDE DEF f
    <3>4. /\ fr'[t].pc \notin {"notifyRetain", "publish", "link", "tail"}
          /\ fr'[t].head = fr[t].head /\ (fr[t].head # NULL => fr'[t].tail = fr[t].tail)
      BY <1>5, <3>1, <3>2, <3>3
    <3> QED
      BY <1>4, <2>1, <3>4
  <2> QED
    BY <2>2, <2>3
<1>c. CASE wake_listRelease(t) \/ wake_release(t)
  <2>1. fr[t].pc \in {"listRelease", "release"} /\ fr[t].head = NULL /\ UNCHANGED <<list, blocks>>
    BY <1>2, <1>c DEF wake_listRelease, wake_release, At
  <2>2. fr'[t] = AfterNotify(fr[t]) \/ fr'[t] = Resume(fr[t])
    BY <1>0, <1>c DEF wake_listRelease, wake_release
  <2>3. fr'[t].pc \notin {"notifyRetain", "publish", "link", "tail"} /\ fr'[t].head = NULL
    BY <1>0, <1>5, <2>1, <2>2
  <2> QED
    BY <1>4, <2>1, <2>3
<1>d. CASE WaitSlow(t)
  <2>1. /\ fr[t].pc \in {"load", "register", "recheck", "timedwait", "drain", "undoLoad", "undoCAS"}
        /\ UNCHANGED <<list, blocks>>
    BY <1>d DEF WaitSlow, wait_slow_load, wait_slow_register, wait_slow_recheck,
        wait_slow_wakeup, wait_slow_timeout, wait_slow_undoLoad, wait_slow_undoCAS, At
  <2>2. /\ fr[t].head = NULL
        /\ fr'[t].pc \notin {"notifyRetain", "publish", "link", "tail", "waiters", "post", "notify"}
    BY <1>0, <1>2, <1>d, <2>1
    DEF WaitSlow, wait_slow_load, wait_slow_register, wait_slow_recheck,
        wait_slow_wakeup, wait_slow_timeout, wait_slow_undoLoad, wait_slow_undoCAS, WaitRecheck,
        UndoStart, StartWake, Goto, Return, Idle, Frame
  <2> QED
    BY <1>2, <1>4, <2>1, <2>2
<1>e. CASE enter_retain(t) \/ notify_check(t) \/ dispatch_group_leave(t)
            \/ dispatch_group_enter(t)
  <2>1. /\ fr[t].pc \in {"enterRetain", "notifyCheck", "idle"}
        /\ UNCHANGED <<list, blocks>>
    BY <1>e DEF enter_retain, notify_check, dispatch_group_leave, dispatch_group_enter, At
  <2>2. /\ fr[t].head = NULL
        /\ fr'[t].pc \notin {"notifyRetain", "publish", "link", "tail", "waiters", "post", "notify"}
    <3>1. CASE enter_retain(t) \/ notify_check(t)
      BY <1>0, <1>2, <2>1, <3>1 DEF enter_retain, notify_check, NotifyCheck, StartWake, Return,
         Idle, Frame
    <3>2. CASE dispatch_group_enter(t)
      BY <1>0, <1>2, <2>1, <3>2 DEF dispatch_group_enter, Frame
    <3>3. CASE dispatch_group_leave(t)
      BY <1>0, <1>2, <2>1, <3>3 DEF dispatch_group_leave, StartWake, Frame
    <3> QED
      BY <1>e, <3>1, <3>2, <3>3
  <2> QED
    BY <1>2, <1>4, <2>1, <2>2
<1>f. CASE \E when \in Timeouts : dispatch_group_wait(t, when)
  <2>1. /\ fr[t].pc = "idle" /\ fr'[t].pc = "load" /\ UNCHANGED <<list, blocks>>
    BY <1>0, <1>f DEF dispatch_group_wait, At, Frame
  <2> QED
    BY <1>2, <1>4, <2>1
<1>g. CASE notify_retain(t)
  <2>1. /\ fr[t].pc = "notifyRetain" /\ fr'[t].pc = "publish" /\ UNCHANGED <<list, blocks>>
        /\ fr'[t].dsn = fr[t].dsn
    BY <1>0, <1>g DEF notify_retain, Goto, At, Frame
  <2>2. fr[t].head = NULL /\ fr'[t].head = NULL
    BY <1>2, <2>1
  <2>3. Holds(t)' = Holds(t) /\ Ends(t)' = NULL
    BY <2>1, <2>2 DEF Holds, Ends
  <2> QED
    BY <1>3, <2>1, <2>3
<1>h. CASE wake_head(t)
  <2>1. /\ fr[t].pc = "head" /\ fr'[t].pc \in {"waiters", "tail"} /\ fr'[t].head = dg_notify_head
        /\ (dg_notify_head # NULL => fr'[t].pc = "tail")
        /\ dg_notify_head' = NULL /\ dg_notify_tail' = dg_notify_tail /\ do_next' = do_next
        /\ UNCHANGED blocks
    BY <1>0, <1>h DEF wake_head, At, Frame
  <2>2. Holds(t) = NULL /\ Holds(t)' = dg_notify_head /\ Ends(t)' = NULL
    BY <1>2, <2>1 DEF Holds, Ends
  <2> USE DEF blocks
  <2>3. OneWayIn'
    BY <1>1, <2>1, <2>2 DEF Ways, OneWayIn, Awaiting
  <2>4. OneWayOut'
    BY <1>1, <2>1, <2>2 DEF Ways, OneWayOut, Awaiting
  <2>5. Reached'
    BY <1>1, <2>1, <2>2 DEF Ways, Reached
  <2> QED
    BY <2>1, <2>3, <2>4, <2>5 DEF Ways, Counted
<1>i. CASE wake_tail(t)
  <2>1. /\ fr[t].pc = "tail" /\ fr'[t].pc = "waiters" /\ fr'[t].head = fr[t].head
        /\ fr'[t].tail = dg_notify_tail
        /\ dg_notify_head' = dg_notify_head /\ dg_notify_tail' = NULL /\ do_next' = do_next
        /\ UNCHANGED blocks
    BY <1>0, <1>i DEF wake_tail, SnapshotTail, At, Frame
  <2>2. Holds(t)' = Holds(t) /\ Ends(t) = NULL /\ Ends(t)' = dg_notify_tail
    BY <1>2, <2>1 DEF Holds, Ends
  <2> USE DEF blocks
  <2>3. OneWayIn'
    BY <1>1, <2>1, <2>2 DEF Ways, OneWayIn, Awaiting
  <2>4. OneWayOut'
    BY <1>1, <2>1, <2>2 DEF Ways, OneWayOut, Awaiting
  <2>5. Reached'
    BY <1>1, <2>1, <2>2 DEF Ways, Reached
  <2> QED
    BY <2>1, <2>3, <2>4, <2>5 DEF Ways, Counted
<1>j. CASE notify_publish(t)
  <2>1. /\ fr[t].pc = "publish" /\ fr'[t].pc = "notifyCheck"
        /\ dg_notify_head' = fr[t].dsn /\ dg_notify_tail' = dg_notify_tail /\ do_next' = do_next
        /\ UNCHANGED blocks
    BY <1>0, <1>j DEF notify_publish, Goto, At, Frame
  <2>2. fr[t].head = NULL /\ fr'[t].head = NULL /\ fr[t].dsn # NULL
    BY <1>2, <2>1
  <2>3. Holds(t) = fr[t].dsn /\ Holds(t)' = NULL /\ Ends(t)' = NULL
    BY <2>1, <2>2 DEF Holds, Ends
  <2>4. dg_notify_head = NULL
    <3>1. t \in Heading
      BY <2>1 DEF Heading
    <3>2. Cardinality(Heading) \in Nat /\ Cardinality(Heading) # 0
      BY <1>0, <3>1, CountsAreNat, FS_EmptySet
    <3> QED
      BY <3>2 DEF OneHead, BoolToNat
  <2> USE DEF blocks
  <2>5. OneWayIn'
    BY <1>1, <2>1, <2>2, <2>3 DEF Ways, OneWayIn, Awaiting
  <2>6. OneWayOut'
    BY <1>1, <2>1, <2>3 DEF Ways, OneWayOut, Awaiting
  <2>7. Reached'
    BY <1>1, <2>1, <2>3, <2>4, <1>0 DEF Ways, Reached, TypeOK
  <2> QED
    BY <2>1, <2>5, <2>6, <2>7 DEF Ways, Counted
<1>k. CASE notify_link(t)
  <2> DEFINE c == fr[t].dsn
             d == fr[t].prev
  <2>1. /\ fr[t].pc = "link" /\ fr'[t] = Idle /\ c \in Conts /\ d \in Conts
        /\ dg_notify_head' = dg_notify_head /\ dg_notify_tail' = dg_notify_tail
        /\ do_next' = [do_next EXCEPT ![d] = c]
        /\ UNCHANGED blocks
    BY <1>0, <1>2, <1>k DEF notify_link, Return, At, Frame
  <2>2. /\ Holds(t) = c /\ Holds(t)' = NULL /\ Ends(t) = d /\ Ends(t)' = NULL
    BY <2>1 DEF Holds, Ends, Idle
  <2>3. do_next \in [Conts -> Conts \cup {NULL}] /\ do_next'[d] = c
        /\ \A x \in Conts \ {d} : do_next'[x] = do_next[x]
    BY <1>0, <2>1 DEF TypeOK
  <2>4. Awaiting(d) /\ do_next[d] = NULL /\ d # dg_notify_tail /\ \A u \in Threads \ {t} : Ends(u) # d
    BY <1>0, <2>1, <2>2 DEF Ways, OneWayOut
  <2>5. /\ Awaiting(c) /\ c # dg_notify_head /\ (\A u \in Threads \ {t} : Holds(u) # c)
        /\ \A x \in Conts : submitted[x] = 0 => do_next[x] # c
    BY <1>0, <2>1, <2>2 DEF Ways, OneWayIn
  <2> HIDE DEF c, d
  <2> USE DEF blocks
  <2>6. OneWayIn'
    <3>1. dg_notify_head' # NULL => Awaiting(dg_notify_head)'
      BY <2>1 DEF Ways, OneWayIn, Awaiting
    <3>2. ASSUME NEW u \in Threads, Holds(u)' # NULL
          PROVE  /\ Awaiting(Holds(u))' /\ Holds(u)' # dg_notify_head'
                 /\ \A v \in Threads \ {u} : Holds(v)' # Holds(u)'
      <4>1. u # t /\ Holds(u)' = Holds(u)
        BY <1>1, <2>2, <3>2
      <4> QED
        BY <1>1, <2>1, <2>2, <3>2, <4>1 DEF Ways, OneWayIn, Awaiting
    <3>3. ASSUME NEW x \in Conts, submitted'[x] = 0, do_next'[x] # NULL
          PROVE  /\ Awaiting(do_next[x])' /\ do_next'[x] # dg_notify_head'
                 /\ \A u \in Threads : Holds(u)' # do_next'[x]
                 /\ \A y \in Conts \ {x} : submitted'[y] = 0 => do_next'[y] # do_next'[x]
      <4>1. CASE x = d
        BY <1>0, <1>1, <2>1, <2>2, <2>3, <2>5, <4>1 DEF Awaiting
      <4>2. CASE x # d
        BY <1>1, <2>1, <2>2, <2>3, <2>4, <2>5, <3>3, <4>2 DEF Ways, OneWayIn, Awaiting
      <4> QED
        BY <4>1, <4>2
    <3> QED
      BY <3>1, <3>2, <3>3 DEF OneWayIn
  <2>7. OneWayOut'
    <3>1. dg_notify_tail' # NULL => Awaiting(dg_notify_tail)' /\ do_next'[dg_notify_tail'] = NULL
      BY <1>0, <2>1, <2>3, <2>4 DEF Ways, OneWayOut, Awaiting, TypeOK
    <3>2. ASSUME NEW u \in Threads, Ends(u)' # NULL
          PROVE  /\ Awaiting(Ends(u))' /\ do_next'[Ends(u)'] = NULL /\ Ends(u)' # dg_notify_tail'
                 /\ \A v \in Threads \ {u} : Ends(v)' # Ends(u)'
      <4>1. u # t /\ Ends(u)' = Ends(u) /\ Ends(u) # d
        BY <1>1, <2>2, <2>4, <3>2
      <4>2. /\ Awaiting(Ends(u)) /\ do_next[Ends(u)] = NULL /\ Ends(u) # dg_notify_tail
            /\ \A v \in Threads \ {u} : Ends(v) # Ends(u)
        BY <3>2, <4>1 DEF Ways, OneWayOut
      <4>3. Ends(u) \in Conts
        BY <1>0, <4>2 DEF Awaiting, TypeOK
      <4> QED
        BY <1>1, <2>1, <2>2, <2>3, <3>2, <4>1, <4>2, <4>3 DEF Awaiting
    <3>3. \A x \in Conts : do_next'[x] # NULL => x \in notified'
      BY <2>1, <2>3, <2>4 DEF Ways, OneWayOut, Awaiting
    <3> QED
      BY <3>1, <3>2, <3>3 DEF OneWayOut
  <2>8. Reached'
    <3>1. ASSUME NEW x \in notified, submitted[x] = 0
          PROVE  \/ dg_notify_head = x
                 \/ \E u \in Threads : Holds(u)' = x
                 \/ \E y \in notified : submitted[y] = 0 /\ do_next'[y] = x
      <4>1. CASE x = c
        BY <2>3, <2>4, <4>1 DEF Awaiting
      <4>2. CASE \E u \in Threads : Holds(u) = x /\ x # c
        BY <1>1, <2>2, <4>2
      <4>3. CASE \E y \in notified : submitted[y] = 0 /\ do_next[y] = x
        BY <1>0, <2>3, <2>4, <3>1, <4>3 DEF TypeOK
      <4> QED
        BY <3>1, <4>1, <4>2, <4>3 DEF Ways, Reached
    <3> QED
      BY <2>1, <3>1 DEF Reached
  <2> QED
    BY <2>1, <2>6, <2>7, <2>8 DEF Ways, Counted
<1>l. CASE wake_notify(t)
  <2> DEFINE h == fr[t].head
             n == Pop(fr[t])
  <2>1. /\ fr[t].pc = "notify" /\ h \in Conts
        /\ fr'[t].head = n /\ fr'[t].tail = fr[t].tail
        /\ fr'[t].pc = (IF n = NULL THEN "listRelease" ELSE "notify")
        /\ h = fr[t].tail \/ do_next[h] # NULL
        /\ submitted' = [submitted EXCEPT ![h] = submitted[h] + 1] /\ dq_refs' = dq_refs - 1
        /\ notified' = notified /\ UNCHANGED list
    BY <1>0, <1>2, <1>l DEF wake_notify, At, Frame
  <2>2. Holds(t) = h /\ Ends(t) = fr[t].tail /\ h # NULL
    BY <1>0, <2>1 DEF Holds, Ends
  <2>3. Holds(t)' = n /\ Ends(t)' = (IF n = NULL THEN NULL ELSE fr[t].tail)
    BY <2>1 DEF Holds, Ends
  <2>4. /\ submitted[h] = 0 /\ h \in notified /\ h # dg_notify_head
        /\ \A u \in Threads \ {t} : Holds(u) # h
    BY <2>2 DEF Ways, OneWayIn, Awaiting
  <2>5. /\ \A x \in Conts : submitted[x] = 0 => do_next[x] # h
    BY <2>2, <2>1 DEF Ways, OneWayIn
  <2>6. /\ submitted'[h] = 1 /\ \A x \in Conts \ {h} : submitted'[x] = submitted[x]
        /\ \A x \in Conts : submitted'[x] = 0 <=> x # h /\ submitted[x] = 0
    BY <1>0, <2>1, <2>4 DEF TypeOK
  <2>7. n = (IF h = fr[t].tail THEN NULL ELSE do_next[h]) /\ (n = NULL => do_next[h] = NULL)
    <3>1. h = fr[t].tail => do_next[h] = NULL
      BY <2>2 DEF Ways, OneWayOut
    <3> QED
      BY <3>1 DEF Pop
  <2>8. n # NULL => do_next[h] = n
    BY <2>7
  <2>9. h # dg_notify_tail /\ \A u \in Threads \ {t} : Ends(u) # h
    BY <2>1, <2>2 DEF Ways, OneWayOut
  <2> HIDE DEF h, n
  <2> USE DEF list
  <2>10. OneWayIn'
    <3>1. dg_notify_head' # NULL => Awaiting(dg_notify_head)'
      BY <1>0, <2>1, <2>4, <2>6 DEF Ways, OneWayIn, Awaiting, TypeOK
    <3>2. ASSUME NEW u \in Threads, Holds(u)' # NULL
          PROVE  /\ Awaiting(Holds(u))' /\ Holds(u)' # dg_notify_head'
                 /\ \A v \in Threads \ {u} : Holds(v)' # Holds(u)'
      <4>1. CASE u = t
        <5>1. n # NULL /\ do_next[h] = n
          BY <2>3, <2>8, <3>2, <4>1
        <5>2. /\ Awaiting(n) /\ n # dg_notify_head /\ \A v \in Threads : Holds(v) # n
          BY <2>1, <2>4, <5>1 DEF Ways, OneWayIn
        <5>3. n \in notified' /\ submitted'[n] = 0
          BY <1>0, <2>1, <2>2, <2>6, <5>2 DEF Awaiting, TypeOK
        <5>4. Awaiting(Holds(u))' /\ Holds(u)' = n
          BY <2>3, <4>1, <5>3 DEF Awaiting
        <5> QED
          BY <1>1, <2>1, <2>3, <4>1, <5>2, <5>4
      <4>2. CASE u # t
        <5>1. /\ Holds(u)' = Holds(u) /\ Holds(u) # h
              /\ Awaiting(Holds(u)) /\ Holds(u) # dg_notify_head
              /\ \A v \in Threads \ {u} : Holds(v) # Holds(u)
          BY <1>1, <2>4, <3>2, <4>2 DEF Ways, OneWayIn
        <5>2. Awaiting(Holds(u))'
          BY <1>0, <2>1, <2>6, <5>1 DEF Awaiting, TypeOK
        <5>3. Holds(t)' # Holds(u)
          BY <2>1, <2>3, <2>4, <2>8, <3>2, <4>2, <5>1 DEF Ways, OneWayIn
        <5> QED
          BY <1>1, <2>1, <4>2, <5>1, <5>2, <5>3
      <4> QED
        BY <4>1, <4>2
    <3>3. ASSUME NEW x \in Conts, submitted'[x] = 0, do_next'[x] # NULL
          PROVE  /\ Awaiting(do_next[x])' /\ do_next'[x] # dg_notify_head'
                 /\ \A u \in Threads : Holds(u)' # do_next'[x]
                 /\ \A y \in Conts \ {x} : submitted'[y] = 0 => do_next'[y] # do_next'[x]
      <4>1. /\ x # h /\ submitted[x] = 0 /\ do_next'[x] = do_next[x] /\ do_next[x] # h
            /\ do_next[x] # NULL
        BY <2>1, <2>5, <2>6, <3>3
      <4>2. /\ Awaiting(do_next[x]) /\ do_next[x] # dg_notify_head
            /\ \A u \in Threads : Holds(u) # do_next[x]
            /\ \A y \in Conts \ {x} : submitted[y] = 0 => do_next[y] # do_next[x]
        BY <4>1 DEF Ways, OneWayIn
      <4>3. Awaiting(do_next[x])'
        BY <1>0, <2>1, <2>6, <4>1, <4>2 DEF Awaiting, TypeOK
      <4>4. n # do_next[x]
        BY <2>1, <2>4, <2>8, <4>1, <4>2
      <4> QED
        BY <1>1, <2>1, <2>3, <2>6, <4>1, <4>2, <4>3, <4>4
    <3> QED
      BY <3>1, <3>2, <3>3 DEF OneWayIn
  <2>11. OneWayOut'
    <3>1. dg_notify_tail' # NULL => Awaiting(dg_notify_tail)' /\ do_next'[dg_notify_tail'] = NULL
      BY <1>0, <2>1, <2>6, <2>9 DEF Ways, OneWayOut, Awaiting, TypeOK
    <3>2. ASSUME NEW u \in Threads, Ends(u)' # NULL
          PROVE  /\ Awaiting(Ends(u))' /\ do_next'[Ends(u)'] = NULL /\ Ends(u)' # dg_notify_tail'
                 /\ \A v \in Threads \ {u} : Ends(v)' # Ends(u)'
      <4>1. Ends(u)' = Ends(u) /\ Ends(u) # NULL /\ Ends(u) # h
        <5>1. CASE u = t
          BY <2>2, <2>3, <2>7, <3>2, <5>1
        <5>2. CASE u # t
          BY <1>1, <2>9, <3>2, <5>2
        <5> QED
          BY <5>1, <5>2
      <4>2. /\ Awaiting(Ends(u)) /\ do_next[Ends(u)] = NULL /\ Ends(u) # dg_notify_tail
            /\ \A v \in Threads \ {u} : Ends(v) # Ends(u)
        BY <4>1 DEF Ways, OneWayOut
      <4>3. Awaiting(Ends(u))'
        BY <1>0, <2>1, <2>6, <4>1, <4>2 DEF Awaiting, TypeOK
      <4>4. \A v \in Threads : Ends(v)' = Ends(v) \/ Ends(v)' = NULL
        BY <1>1, <2>2, <2>3
      <4> QED
        BY <2>1, <4>1, <4>2, <4>3, <4>4
    <3>3. \A x \in Conts : do_next'[x] # NULL => x \in notified'
      BY <2>1 DEF Ways, OneWayOut
    <3> QED
      BY <3>1, <3>2, <3>3 DEF OneWayOut
  <2>12. Reached'
    <3>1. ASSUME NEW x \in notified, submitted'[x] = 0
          PROVE  \/ dg_notify_head = x
                 \/ \E u \in Threads : Holds(u)' = x
                 \/ \E y \in notified : submitted'[y] = 0 /\ do_next[y] = x
      <4>0. x # h /\ submitted[x] = 0 /\ x \in Conts /\ notified \subseteq Conts
        BY <1>0, <2>6, <3>1 DEF TypeOK
      <4>1. CASE \E u \in Threads : Holds(u) = x
        BY <1>1, <2>2, <4>0, <4>1
      <4>2. CASE \E y \in notified : submitted[y] = 0 /\ do_next[y] = x
        <5>1. PICK y \in notified : submitted[y] = 0 /\ do_next[y] = x
          BY <4>2
        <5>2. CASE y = h
          BY <1>0, <2>3, <2>7, <2>8, <4>0, <5>1, <5>2
        <5>3. CASE y # h
          BY <2>6, <4>0, <5>1, <5>3
        <5> QED
          BY <5>2, <5>3
      <4> QED
        BY <3>1, <4>0, <4>1, <4>2 DEF Ways, Reached
    <3> QED
      BY <2>1, <3>1 DEF Reached
  <2>13. Counted'
    <3> DEFINE S == {c \in notified : submitted[c] = 0}
               R == {c \in notified : submitted'[c] = 0}
    <3>1. S \ {h} = R \ {h} /\ h \in S /\ h \notin R
      BY <1>0, <2>4, <2>6 DEF TypeOK
    <3>2. dq_refs = Cardinality(S) /\ dq_refs \in Int
      BY <1>0 DEF Ways, Counted, TypeOK
    <3>3. IsFiniteSet(notified) /\ IsFiniteSet(S)
      BY FS_Subset DEF Ways, Counted
    <3>4. \A x \in Conts : submitted'[x] =< (IF x \in notified' THEN 1 ELSE 0)
      BY <1>0, <2>1, <2>4, <2>6 DEF Ways, Counted
    <3>5. dq_refs' = Cardinality(R)
      <4> HIDE DEF S, R
      <4>1. Cardinality(S) \in Nat /\ Cardinality(R) = Cardinality(S) + 0 - 1
        BY <3>1, <3>3, CountMoves
      <4> QED
        BY <2>1, <3>2, <4>1
    <3> QED
      BY <2>1, <3>3, <3>4, <3>5 DEF Counted
  <2> QED
    BY <2>10, <2>11, <2>12, <2>13 DEF Ways
<1>m. ASSUME NEW c \in Conts, dispatch_group_notify(t, c)
      PROVE  Ways'
  <2>1. /\ fr[t].pc = "idle" /\ c \notin notified /\ notified' = notified \cup {c}
        /\ dq_refs' = dq_refs + 1 /\ submitted' = submitted
        /\ fr'[t].dsn = c /\ fr'[t].prev = dg_notify_tail /\ fr'[t].head = fr[t].head
        /\ fr'[t].pc = (IF dg_notify_tail = NULL THEN "notifyRetain" ELSE "link")
        /\ dg_notify_tail' = c /\ dg_notify_head' = dg_notify_head /\ do_next' = do_next
    BY <1>0, <1>m DEF dispatch_group_notify, At, Frame
  <2>2. fr[t].head = NULL /\ c # NULL
    BY <1>0, <1>2, <2>1
  <2>3. /\ Holds(t) = NULL /\ Ends(t) = NULL /\ Holds(t)' = c /\ Ends(t)' = dg_notify_tail
    BY <2>1, <2>2 DEF Holds, Ends
  <2>4. submitted[c] = 0 /\ do_next[c] = NULL
    BY <1>0, <2>1 DEF Ways, OneWayOut, Counted, TypeOK
  <2>5. /\ dg_notify_head # c /\ dg_notify_tail # c
        /\ \A u \in Threads : Holds(u) # c /\ Ends(u) # c
        /\ \A x \in Conts : submitted[x] = 0 => do_next[x] # c
    BY <2>1, <2>2 DEF Ways, OneWayIn, OneWayOut, Awaiting
  <2>6. OneWayIn'
    BY <1>1, <2>1, <2>3, <2>4, <2>5 DEF Ways, OneWayIn, Awaiting
  <2>7. OneWayOut'
    BY <1>1, <2>1, <2>3, <2>4, <2>5 DEF Ways, OneWayOut, Awaiting
  <2>8. Reached'
    <3>1. ASSUME NEW x \in notified', submitted'[x] = 0
          PROVE  \/ dg_notify_head = x
                 \/ \E u \in Threads : Holds(u)' = x
                 \/ \E y \in notified' : submitted'[y] = 0 /\ do_next[y] = x
      <4>1. CASE x = c
        BY <2>3, <4>1
      <4>2. CASE x # c
        <5>1. x \in notified /\ submitted[x] = 0 /\ x # NULL
          BY <1>0, <2>1, <3>1, <4>2 DEF TypeOK
        <5>2. CASE \E u \in Threads : Holds(u) = x
          BY <1>1, <2>3, <5>1, <5>2
        <5> QED
          BY <2>1, <5>1, <5>2 DEF Ways, Reached
      <4> QED
        BY <4>1, <4>2
    <3> QED
      BY <2>1, <3>1 DEF Reached
  <2>9. Counted'
    <3> DEFINE S == {x \in notified : submitted[x] = 0}
               R == {x \in notified' : submitted'[x] = 0}
    <3>1. S \ {c} = R \ {c} /\ c \in R /\ c \notin S
      BY <2>1, <2>4
    <3>2. dq_refs = Cardinality(S) /\ dq_refs \in Int
      BY <1>0 DEF Ways, Counted, TypeOK
    <3>3. IsFiniteSet(notified') /\ IsFiniteSet(S)
      BY <2>1, FS_Subset, FS_AddElement DEF Ways, Counted
    <3>4. \A x \in Conts : submitted'[x] =< (IF x \in notified' THEN 1 ELSE 0)
      BY <1>0, <2>1, <2>4 DEF Ways, Counted
    <3>5. dq_refs' = Cardinality(R)
      <4> HIDE DEF S, R
      <4>1. Cardinality(S) \in Nat /\ Cardinality(R) = Cardinality(S) + 1 - 0
        BY <3>1, <3>3, CountMoves
      <4> QED
        BY <2>1, <3>2, <4>1
    <3> QED
      BY <3>3, <3>4, <3>5 DEF Counted
  <2> QED
    BY <2>6, <2>7, <2>8, <2>9 DEF Ways
<1> QED
  BY <1>a, <1>b, <1>c, <1>d, <1>e, <1>f, <1>g, <1>h, <1>i, <1>j, <1>k, <1>l, <1>m
  DEF Moves, Inside, Wake, Notify, Call

(* The links follow the order in which the blocks were notified.              *)
Follows(r) ==
    /\ r \in [Conts -> Nat]
    /\ \A c \in Conts : do_next[c] # NULL => do_next[c] \in notified /\ r[c] < r[do_next[c]]
    /\ \A t \in Threads : fr[t].pc = "link" => r[fr[t].prev] < r[fr[t].dsn]
Ordered == \E r : Follows(r)

LEMMA OrderedStep ==
  ASSUME GroupInv, Ways, Ordered, NEW t \in Threads, Moves(t)
  PROVE  Ordered'
<1> USE DEF GroupInv, Accounting
<1>0. /\ TypeOK /\ fr[t] \in Frame /\ Frames /\ fr \in [Threads -> Frame] /\ NULL \notin Conts
      /\ do_next \in [Conts -> Conts \cup {NULL}]
  BY GroupAssumption DEF TypeOK
<1>1. PICK r : Follows(r)
  BY DEF Ordered
<1>2. \A u \in Threads \ {t} : fr'[u] = fr[u]
  BY OthersStay
<1>3. ASSUME do_next' = do_next, notified' = notified, fr'[t].pc # "link"
      PROVE  Ordered'
  <2>1. Follows(r)'
    BY <1>1, <1>2, <1>3 DEF Follows
  <2> QED
    BY <2>1 DEF Ordered
<1>4. ASSUME NEW f \in Frame
      PROVE  AfterNotify(f).pc # "link" /\ (f.pc # "link" => AfterPosts(f).pc # "link")
             /\ Resume(f).pc # "link"
  BY DEF AfterPosts, AfterNotify, Resume, Idle, Frame
<1> USE DEF list, blocks
<1>a. CASE wake_head(t) \/ wake_tail(t) \/ wake_notify(t)
  BY <1>0, <1>3, <1>a DEF wake_head, wake_tail, wake_notify, SnapshotTail, Frame
<1>b. CASE wake_waiters(t)
  <2>1. fr'[t].pc # "link"
    BY <1>0, <1>4, <1>b DEF wake_waiters, At, Frame
  <2> QED
    BY <1>3, <1>b, <2>1 DEF wake_waiters
<1>c. CASE wake_post(t)
  <2>1. fr'[t].pc # "link"
    <3>1. CASE fr[t].rval > 1
      <4>1. fr'[t] = [fr[t] EXCEPT !.rval = fr[t].rval - 1]
        BY <1>0, <1>c, <3>1 DEF wake_post
      <4> QED
        BY <1>0, <1>c, <4>1 DEF wake_post, At, Frame
    <3>2. CASE ~(fr[t].rval > 1)
      <4> DEFINE f == [fr[t] EXCEPT !.rval = 0]
      <4>1. fr'[t] = AfterPosts(f) /\ f \in Frame
        BY <1>0, <1>c, <3>2, CountsAreNat DEF wake_post, Frame
      <4>2. f.pc = "post"
        BY <1>0, <1>c DEF wake_post, At, Frame
      <4> HIDE DEF f
      <4> QED
        BY <1>4, <4>1, <4>2
    <3> QED
      BY <3>1, <3>2
  <2> QED
    BY <1>3, <1>c, <2>1 DEF wake_post
<1>d. CASE wake_listRelease(t) \/ wake_release(t)
  <2>1. fr'[t].pc # "link"
    BY <1>0, <1>4, <1>d DEF wake_listRelease, wake_release
  <2> QED
    BY <1>3, <1>d, <2>1 DEF wake_listRelease, wake_release
<1>e. CASE WaitSlow(t)
  <2>1. fr'[t].pc # "link" /\ UNCHANGED <<list, blocks>>
    BY <1>0, <1>e
    DEF WaitSlow, wait_slow_load, wait_slow_register, wait_slow_recheck,
        wait_slow_wakeup, wait_slow_timeout, wait_slow_undoLoad, wait_slow_undoCAS, WaitRecheck,
        UndoStart, StartWake, Goto, Return, Idle, Frame
  <2> QED
    BY <1>3, <2>1
<1>f. CASE enter_retain(t) \/ notify_retain(t) \/ notify_publish(t) \/ notify_check(t)
  BY <1>0, <1>3, <1>f
  DEF enter_retain, notify_retain, notify_publish, notify_check, NotifyCheck, StartWake, Goto,
      Return, Idle, Frame
<1>g. CASE dispatch_group_enter(t)
  BY <1>0, <1>3, <1>g DEF dispatch_group_enter, Frame
<1>h. CASE dispatch_group_leave(t)
  BY <1>0, <1>3, <1>h DEF dispatch_group_leave, StartWake, At, Frame
<1>i. CASE \E when \in Timeouts : dispatch_group_wait(t, when)
  BY <1>0, <1>3, <1>i DEF dispatch_group_wait, Frame
<1>j. CASE notify_link(t)
  <2> DEFINE c == fr[t].dsn
             d == fr[t].prev
  <2>1. /\ fr[t].pc = "link" /\ fr'[t] = Idle /\ c \in Conts /\ d \in Conts
        /\ do_next' = [do_next EXCEPT ![d] = c] /\ notified' = notified
    BY <1>0, <1>j DEF notify_link, Return, At, Frame, Frames
  <2>2. Awaiting(c) /\ r[d] < r[c]
    <3>1. Holds(t) = c /\ c # NULL
      BY <1>0, <2>1 DEF Holds
    <3> QED
      BY <1>1, <2>1, <3>1 DEF Ways, OneWayIn, Follows
  <2> HIDE DEF c, d
  <2>3. Follows(r)'
    BY <1>0, <1>1, <1>2, <2>1, <2>2 DEF Follows, Awaiting, Idle
  <2> QED
    BY <2>3 DEF Ordered
<1>k. ASSUME NEW c \in Conts, dispatch_group_notify(t, c)
      PROVE  Ordered'
  <2>1. /\ c \notin notified /\ notified' = notified \cup {c} /\ do_next' = do_next
        /\ fr'[t].dsn = c /\ fr'[t].prev = dg_notify_tail
        /\ fr'[t].pc = "link" => dg_notify_tail # NULL
    BY <1>0, <1>k DEF dispatch_group_notify, At, Frame
  <2>2. do_next[c] = NULL /\ dg_notify_tail # c /\ dg_notify_tail \in Conts \cup {NULL}
    BY <1>0, <2>1 DEF Ways, OneWayOut, Awaiting, TypeOK
  <2> PICK k \in Nat : k = IF dg_notify_tail = NULL THEN 0 ELSE r[dg_notify_tail] + 1
    BY <1>1, <2>2 DEF Follows
  <2> DEFINE q == [r EXCEPT ![c] = k]
  <2>3. /\ q \in [Conts -> Nat] /\ (\A x \in Conts \ {c} : q[x] = r[x])
        /\ dg_notify_tail # NULL => q[dg_notify_tail] < q[c]
    BY <1>1, <2>2 DEF Follows
  <2>4. ASSUME NEW u \in Threads, fr'[u].pc = "link" PROVE q[fr'[u].prev] < q[fr'[u].dsn]
    <3>1. CASE u = t
      BY <2>1, <2>3, <2>4, <3>1
    <3>2. CASE u # t
      <4>1. fr'[u] = fr[u] /\ fr[u] \in Frame /\ fr[u].dsn # NULL /\ fr[u].prev # NULL
        BY <1>0, <1>2, <2>4, <3>2 DEF Frames
      <4>2. Holds(u) = fr[u].dsn /\ Ends(u) = fr[u].prev
        BY <2>4, <4>1 DEF Holds, Ends
      <4>3. fr[u].dsn \in Conts \ {c} /\ fr[u].prev \in Conts \ {c}
        BY <2>1, <4>1, <4>2 DEF Ways, OneWayIn, OneWayOut, Awaiting, Frame
      <4> QED
        BY <1>1, <2>3, <2>4, <4>1, <4>3 DEF Follows
    <3> QED
      BY <3>1, <3>2
  <2>5. ASSUME NEW x \in Conts, do_next[x] # NULL
        PROVE  do_next[x] \in notified' /\ q[x] < q[do_next[x]]
    <3>1. x # c /\ do_next[x] \in notified /\ r[x] < r[do_next[x]] /\ do_next[x] \in Conts
      BY <1>0, <1>1, <2>2, <2>5 DEF Follows
    <3> QED
      BY <2>1, <2>3, <3>1
  <2>6. q \in [Conts -> Nat]
    BY <2>3
  <2> HIDE DEF q
  <2>7. Follows(q)'
    BY <2>1, <2>4, <2>5, <2>6 DEF Follows
  <2> QED
    BY <2>7 DEF Ordered
<1> QED
  BY <1>a, <1>b, <1>c, <1>d, <1>e, <1>f, <1>g, <1>h, <1>i, <1>j, <1>k
  DEF Moves, Inside, Wake, Notify, Call

(* A head on an empty group: a thread is between publishing it, or the leave  *)
(* that emptied the group, and the exchange that takes it.                    *)
LEMMA WatchedStep ==
  ASSUME GroupInv, HeadWatched, life \in {"alive", "disposed"}, NEW t \in Threads, Moves(t)
  PROVE  HeadWatched'
<1> USE DEF GroupInv, Accounting
<1>0. /\ fr[t] \in Frame /\ fr \in [Threads -> Frame] /\ dg_value \in 0..LongMax
      /\ life = "alive"
  BY AliveInside DEF TypeOK, OnReferences
<1>1. \A u \in Threads \ {t} : fr'[u] = fr[u]
  BY OthersStay
<1>2. ASSUME dg_notify_head' # NULL => dg_notify_head # NULL, dg_value' = 0 => dg_value = 0,
             fr[t].pc \notin {"notifyCheck", "head"}
      PROVE  HeadWatched'
  BY <1>0, <1>1, <1>2 DEF HeadWatched
<1> USE DEF list, counts
<1>a. CASE wake_head(t)
  BY <1>a DEF wake_head, HeadWatched
<1>b. CASE wake_tail(t) \/ wake_waiters(t) \/ wake_post(t) \/ wake_notify(t)
             \/ wake_listRelease(t) \/ wake_release(t)
  BY <1>2, <1>b DEF wake_tail, wake_waiters, wake_post, wake_notify, wake_listRelease,
       wake_release, At
<1>c. CASE WaitSlow(t)
  BY <1>2, <1>c DEF WaitSlow, wait_slow_load, wait_slow_register, wait_slow_recheck,
        wait_slow_wakeup, wait_slow_timeout, wait_slow_undoLoad, wait_slow_undoCAS, At
<1>d. CASE enter_retain(t) \/ notify_link(t) \/ notify_retain(t)
  BY <1>2, <1>d DEF enter_retain, notify_link, notify_retain, At
<1>e. CASE notify_publish(t)
  <2>1. fr'[t].pc = "notifyCheck"
    BY <1>0, <1>e DEF notify_publish, Goto, Frame
  <2> QED
    BY <2>1 DEF HeadWatched
<1>f. CASE notify_check(t)
  <2>1. dg_value = 0 => fr'[t].pc = "head"
    BY <1>0, <1>f DEF notify_check, NotifyCheck, StartWake, Frame
  <2>2. dg_value' = dg_value
    BY <1>f DEF notify_check
  <2> QED
    BY <2>1, <2>2 DEF HeadWatched
<1>g. CASE dispatch_group_enter(t)
  <2>1. dg_value' = dg_value + 1
    BY <1>g DEF dispatch_group_enter
  <2>2. dg_value' # 0
    BY <1>0, <2>1, GroupAssumption
  <2> QED
    BY <2>2 DEF HeadWatched
<1>h. CASE dispatch_group_leave(t)
  <2>1. dg_value' = dg_value - 1
    BY <1>h DEF dispatch_group_leave
  <2>2. dg_value' = 0 => fr'[t].pc = "head"
    BY <1>0, <1>h DEF dispatch_group_leave, StartWake, Frame
  <2> QED
    BY <2>2 DEF HeadWatched
<1>i. CASE \E when \in Timeouts : dispatch_group_wait(t, when)
  BY <1>2, <1>i DEF dispatch_group_wait, At
<1>j. CASE \E c \in Conts : dispatch_group_notify(t, c)
  BY <1>2, <1>j DEF dispatch_group_notify, At
<1> QED
  BY <1>a, <1>b, <1>c, <1>d, <1>e, <1>f, <1>g, <1>h, <1>i, <1>j
  DEF Moves, Inside, Wake, Notify, Call

(* Waiters counted on an empty group: a thread has the wake before it, that   *)
(* of the leave that emptied the group or that of a wait about to look again. *)
LEMMA WaitersWatchedStep ==
  ASSUME GroupInv, WaitersWatched, life \in {"alive", "disposed"}, NEW t \in Threads, Moves(t)
  PROVE  WaitersWatched'
<1> USE DEF GroupInv, Accounting
<1>0. /\ fr[t] \in Frame /\ fr \in [Threads -> Frame] /\ dg_value \in 0..LongMax
      /\ life = "alive" /\ dg_waiters \in Nat
  BY AliveInside DEF TypeOK, OnReferences
<1>1. \A u \in Threads \ {t} : fr'[u] = fr[u]
  BY OthersStay
<1>2. ASSUME dg_waiters' = dg_waiters, dg_value' = dg_value,
             fr[t].pc \notin {"recheck", "head", "tail", "waiters"}
      PROVE  WaitersWatched'
  BY <1>0, <1>1, <1>2 DEF WaitersWatched
<1>3. ASSUME fr'[t].pc \in {"recheck", "head", "tail", "waiters"}
      PROVE  WaitersWatched'
  BY <1>3 DEF WaitersWatched
<1> USE DEF list, counts
<1>a. CASE wake_head(t) \/ wake_tail(t)
  <2>1. fr'[t].pc \in {"tail", "waiters"}
    BY <1>0, <1>a DEF wake_head, wake_tail, SnapshotTail, Frame
  <2> QED
    BY <1>3, <2>1
<1>b. CASE wake_waiters(t)
  BY <1>b DEF wake_waiters, WaitersWatched
<1>c. CASE wake_post(t) \/ wake_notify(t) \/ wake_listRelease(t) \/ wake_release(t)
  BY <1>2, <1>c DEF wake_post, wake_notify, wake_listRelease, wake_release, At
<1>d. CASE enter_retain(t) \/ Notify(t)
  BY <1>2, <1>d DEF enter_retain, Notify, notify_link, notify_retain, notify_publish,
        notify_check, At
<1>e. CASE wait_slow_load(t) \/ wait_slow_wakeup(t) \/ wait_slow_timeout(t) \/ wait_slow_undoLoad(t)
  BY <1>2, <1>e DEF wait_slow_load, wait_slow_wakeup, wait_slow_timeout, wait_slow_undoLoad, At
<1>f. CASE wait_slow_register(t)
  <2>1. fr'[t].pc = "recheck"
    BY <1>0, <1>f DEF wait_slow_register, Goto, Frame
  <2> QED
    BY <1>3, <2>1
<1>g. CASE wait_slow_recheck(t)
  <2>1. dg_value' = dg_value /\ (dg_value = 0 => fr'[t].pc = "head")
    BY <1>0, <1>g DEF wait_slow_recheck, WaitRecheck, StartWake, Frame
  <2> QED
    BY <1>3, <2>1 DEF WaitersWatched
<1>h. CASE wait_slow_undoCAS(t)
  <2>1. /\ At(t, "undoCAS") /\ dg_value' = dg_value
        /\ dg_waiters' = dg_waiters \/ dg_waiters' = dg_waiters - 1
    BY <1>h DEF wait_slow_undoCAS, Undo
  <2> QED
    BY <1>0, <1>1, <2>1 DEF WaitersWatched, At
<1>i. CASE dispatch_group_enter(t)
  <2>1. dg_value' = dg_value + 1
    BY <1>i DEF dispatch_group_enter
  <2>2. dg_value' # 0
    BY <1>0, <2>1, GroupAssumption
  <2> QED
    BY <2>2 DEF WaitersWatched
<1>j. CASE dispatch_group_leave(t)
  <2>1. dg_value' = 0 => fr'[t].pc = "head"
    BY <1>0, <1>j DEF dispatch_group_leave, StartWake, Frame
  <2> QED
    BY <1>3, <2>1 DEF WaitersWatched
<1>k. CASE \E when \in Timeouts : dispatch_group_wait(t, when)
  BY <1>2, <1>k DEF dispatch_group_wait, At
<1>l. CASE \E c \in Conts : dispatch_group_notify(t, c)
  BY <1>2, <1>l DEF dispatch_group_notify, At
<1> QED
  BY <1>a, <1>b, <1>c, <1>d, <1>e, <1>f, <1>g, <1>h, <1>i, <1>j, <1>k, <1>l
  DEF Moves, Inside, Wake, WaitSlow, Call

-----------------------------------------------------------------------------
\* The whole inductive invariant.
ListsInv == GroupInv /\ Ways /\ Ordered /\ HeadWatched /\ WaitersWatched

LEMMA ListsInit == Init => ListsInv
<1> SUFFICES ASSUME Init PROVE ListsInv
  OBVIOUS
<1>1. /\ \A t \in Threads : Holds(t) = NULL /\ Ends(t) = NULL
      /\ notified = {} /\ dg_notify_head = NULL /\ dg_notify_tail = NULL
      /\ do_next = [c \in Conts |-> NULL] /\ submitted = [c \in Conts |-> 0] /\ dq_refs = 0
  BY DEF Init, Holds, Ends, Idle
<1>2. OneWayIn /\ OneWayOut /\ Reached
  BY <1>1 DEF OneWayIn, OneWayOut, Reached
<1>3. Counted
  <2>1. {c \in notified : submitted[c] = 0} = {}
    BY <1>1
  <2> QED
    BY <1>1, <2>1, FS_EmptySet DEF Counted
<1>4. Ordered
  <2>1. Follows([c \in Conts |-> 0])
    BY <1>1 DEF Follows, Init, Idle
  <2> QED
    BY <2>1 DEF Ordered
<1> QED
  BY <1>1, <1>2, <1>3, <1>4, GroupInit DEF ListsInv, Ways, HeadWatched, WaitersWatched, Init

LEMMA ListsStep == ListsInv /\ [Next]_vars => ListsInv'
<1> USE DEF ListsInv
<1>1. ASSUME ListsInv, life \in {"alive", "disposed"}, NEW t \in Threads, Moves(t)
      PROVE  Ways' /\ Ordered' /\ HeadWatched' /\ WaitersWatched'
  BY <1>1, WaysStep, OrderedStep, WatchedStep, WaitersWatchedStep
<1>2. ASSUME ListsInv, life \in {"alive", "disposed"}, client_release
      PROVE  Ways' /\ Ordered' /\ HeadWatched' /\ WaitersWatched'
  <2>1. UNCHANGED <<list, blocks>> /\ fr' = fr /\ UNCHANGED <<dg_value, dg_waiters>>
    BY <1>2 DEF client_release, counts
  <2>2. \A u \in Threads : Holds(u)' = Holds(u) /\ Ends(u)' = Ends(u)
    BY <2>1 DEF Holds, Ends
  <2>3. Ways'
    BY <1>2, <2>1, <2>2, WaysStay
  <2>4. Ordered'
    BY <1>2, <2>1 DEF Ordered, Follows, list, blocks
  <2> QED
    BY <1>2, <2>1, <2>3, <2>4 DEF HeadWatched, WaitersWatched, list
<1>3. ASSUME ListsInv, UNCHANGED vars PROVE Ways' /\ Ordered' /\ HeadWatched' /\ WaitersWatched'
  <2>1. UNCHANGED <<list, blocks>> /\ fr' = fr /\ UNCHANGED <<dg_value, dg_waiters>> /\ life' = life
    BY <1>3 DEF vars, list, blocks
  <2>2. \A u \in Threads : Holds(u)' = Holds(u) /\ Ends(u)' = Ends(u)
    BY <2>1 DEF Holds, Ends
  <2>3. Ways'
    BY <1>3, <2>1, <2>2, WaysStay
  <2>4. Ordered'
    BY <1>3, <2>1 DEF Ordered, Follows, list, blocks
  <2> QED
    BY <1>3, <2>1, <2>3, <2>4 DEF HeadWatched, WaitersWatched, list
<1> QED
  BY <1>1, <1>2, <1>3, GroupStep DEF Next, Moves

(* A block handed to dispatch_group_notify is submitted at most once, holds   *)
(* its queue alive until it is, and no later notify writes its link once it   *)
(* is: whatever wakes run at the same time, one of them pops it.              *)
THEOREM GroupNotifyAtMostOnce == Spec => []NotifyAtMostOnce
<1>1. ListsInv => NotifyAtMostOnce
  <2> SUFFICES ASSUME ListsInv PROVE NotifyAtMostOnce
    OBVIOUS
  <2>1. ASSUME NEW t \in In("link") PROVE submitted[fr[t].prev] = 0
    <3>1. t \in Threads /\ fr[t].pc = "link" /\ fr[t].prev # NULL
      BY <2>1 DEF ListsInv, GroupInv, Frames, In, At
    <3>2. Ends(t) = fr[t].prev
      BY <3>1 DEF Ends
    <3> QED
      BY <3>1, <3>2 DEF ListsInv, Ways, OneWayOut, Awaiting
  <2> QED
    BY <2>1 DEF ListsInv, Ways, Counted, NotifyAtMostOnce
<1> QED
  BY <1>1, ListsInit, ListsStep, PTL DEF Spec

(* An empty group in which nobody is at work has served everything: a block   *)
(* left over would have a pending predecessor, and that one, without end, and *)
(* a waiter left over would be counted, with a wake on its way.               *)
LEMMA LeftBehind ==
  ASSUME ListsInv
  PROVE  NothingLeftBehind
<1> SUFFICES ASSUME dg_value = 0, In("idle") \cup Asleep = Threads, life \in {"alive", "disposed"}
             PROVE  /\ dg_waiters = 0 /\ tokens = Cardinality(Asleep)
                    /\ dg_notify_head = NULL /\ dg_notify_tail = NULL
                    /\ \A c \in notified : submitted[c] = 1
  BY DEF NothingLeftBehind
<1> USE DEF ListsInv, GroupInv, Accounting
<1>1. \A t \in Threads : fr[t].pc \in {"idle", "timedwait", "drain"}
  BY DEF In, At, Asleep
<1>2. Registered = Asleep /\ Heading = {} /\ Claimed = {}
  <2>1. \A t \in Threads : fr[t].ret # "drain" /\ ~(fr[t].rval > 0)
    BY <1>1 DEF Frames, WakeLabels
  <2>2. \A t \in Threads : fr[t].rval \in Nat
    BY GroupAssumption, FS_CardinalityType DEF TypeOK, Frame
  <2> QED
    BY <1>1, <2>1, <2>2 DEF Registered, Heading, Claimed, Asleep, In, At
<1>3. dg_waiters = 0 /\ tokens = Cardinality(Asleep)
  <2>1. dg_waiters = 0
    BY <1>1 DEF WaitersWatched, TypeOK
  <2>2. Cardinality(Claimed) = 0
    BY <1>2, FS_EmptySet
  <2> QED
    BY <1>2, <2>1, <2>2 DEF WaiterAccounting, TypeOK
<1>4. dg_notify_head = NULL
  BY <1>1 DEF HeadWatched
<1>5. dg_notify_tail = NULL
  <2>1. Cardinality(Heading) = 0
    BY <1>2, FS_EmptySet
  <2> QED
    BY <1>4, <2>1 DEF OneHead, BoolToNat
<1>6. ASSUME NEW c \in notified PROVE submitted[c] = 1
  <2>0. notified \subseteq Conts /\ submitted \in [Conts -> Nat] /\ NULL \notin Conts
    BY GroupAssumption DEF TypeOK
  <2>1. submitted[c] \in Nat /\ submitted[c] =< 1
    BY <2>0 DEF Ways, Counted
  <2>2. SUFFICES ASSUME submitted[c] = 0 PROVE FALSE
    BY <2>1
  <2>3. PICK r : Follows(r)
    BY DEF Ordered
  <2> DEFINE P == {x \in notified : submitted[x] = 0}
  <2>4. ASSUME NEW x \in P PROVE \E y \in P : r[y] < r[x]
    <3>1. x # NULL /\ \A t \in Threads : Holds(t) = NULL
      BY <1>1, <2>0 DEF Holds, Frames
    <3>2. PICK y \in notified : submitted[y] = 0 /\ do_next[y] = x
      BY <1>4, <3>1 DEF Ways, Reached
    <3> QED
      BY <2>0, <2>3, <3>1, <3>2 DEF Follows
  <2>5. P \subseteq Conts /\ c \in P
    BY <2>0, <2>2
  <2> HIDE DEF P
  <2> DEFINE T == {r[x] : x \in P}
  <2>6. T \subseteq Nat /\ T # {}
    BY <2>3, <2>5 DEF Follows
  <2>7. PICK k \in T : \A j \in T : k =< j
    BY <2>6, LeastNat
  <2>8. PICK x \in P : k = r[x]
    BY <2>7
  <2>9. PICK y \in P : r[y] < r[x]
    BY <2>4
  <2>10. r[y] \in T /\ r[y] \in Nat /\ r[x] \in Nat
    BY <2>3, <2>5 DEF Follows
  <2> HIDE DEF T
  <2> QED
    BY <2>7, <2>8, <2>9, <2>10
<1> QED
  BY <1>3, <1>4, <1>5, <1>6

(* When the group is empty and every thread is outside its calls or asleep in *)
(* a wait, no waiter is counted, every sleeper has its wakeup and there is no *)
(* other, the list is empty and every block has been submitted.               *)
THEOREM GroupNothingLeftBehind == Spec => []NothingLeftBehind
<1>1. ListsInv => NothingLeftBehind
  BY LeftBehind
<1> QED
  BY <1>1, ListsInit, ListsStep, PTL DEF Spec
=============================================================================
