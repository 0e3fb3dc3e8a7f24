-------------------------- MODULE SemaphoreProofs --------------------------
(* Proofs about dispatch_semaphore_t for every set of threads, initial value *)
(* and width: the type invariant, the accounting that makes wakeups neither  *)
(* lost nor duplicated, the implementation of CountingSemaphore, and that a  *)
(* semaphore used as a lock is one.                                          *)
EXTENDS SemaphoreLock, FiniteSetTheorems, TLAPS

-----------------------------------------------------------------------------
(* The threads in a slow path are finitely many, at most LONG_MAX, and the   *)
(* counts of them are natural numbers.                                       *)
LEMMA FiniteCounts ==
  /\ IsFiniteSet(Waiters) /\ Cardinality(Waiters) \in Nat
  /\ IsFiniteSet(Posting) /\ Cardinality(Posting) \in Nat
  /\ Cardinality(Waiters) =< Cardinality(Threads)
<1>1. Waiters \in SUBSET Threads /\ Posting \in SUBSET Threads
  BY DEF Waiters, Posting
<1> QED
  BY <1>1, ThreadsAssumption, FS_Subset, FS_CardinalityType

(* dispatch_semaphore_wait entering its slow path adds one waiter.           *)
LEMMA EnterWait ==
  ASSUME TypeOK, NEW t \in Threads, op[t] = "none",
         op' = [op EXCEPT ![t] = "wait"]
  PROVE  /\ Cardinality(Waiters') = Cardinality(Waiters) + 1
         /\ Posting' = Posting
<1>1. /\ Waiters' = Waiters \cup {t} /\ t \notin Waiters
      /\ Posting' = Posting
  BY DEF TypeOK, Waiters, Posting
<1> QED
  BY <1>1, FiniteCounts, FS_AddElement

(* Returning from the slow path of wait removes one waiter.                  *)
LEMMA LeaveWait ==
  ASSUME TypeOK, NEW t \in Threads, op[t] = "wait",
         op' = [op EXCEPT ![t] = "none"]
  PROVE  /\ Cardinality(Waiters') = Cardinality(Waiters) - 1
         /\ Posting' = Posting
<1>1. /\ Waiters' = Waiters \ {t} /\ t \in Waiters
      /\ Posting' = Posting
  BY DEF TypeOK, Waiters, Posting
<1> QED
  BY <1>1, FiniteCounts, FS_RemoveElement

(* dispatch_semaphore_signal entering its slow path owes one wakeup.         *)
LEMMA EnterSignal ==
  ASSUME TypeOK, NEW t \in Threads, op[t] = "none",
         op' = [op EXCEPT ![t] = "signal"]
  PROVE  /\ Cardinality(Posting') = Cardinality(Posting) + 1
         /\ Waiters' = Waiters
<1>1. /\ Posting' = Posting \cup {t} /\ t \notin Posting
      /\ Waiters' = Waiters
  BY DEF TypeOK, Waiters, Posting
<1> QED
  BY <1>1, FiniteCounts, FS_AddElement

(* The post pays it.                                                         *)
LEMMA LeaveSignal ==
  ASSUME TypeOK, NEW t \in Threads, op[t] = "signal",
         op' = [op EXCEPT ![t] = "none"]
  PROVE  /\ Cardinality(Posting') = Cardinality(Posting) - 1
         /\ Waiters' = Waiters
<1>1. /\ Posting' = Posting \ {t} /\ t \in Posting
      /\ Waiters' = Waiters
  BY DEF TypeOK, Waiters, Posting
<1> QED
  BY <1>1, FiniteCounts, FS_RemoveElement

-----------------------------------------------------------------------------
(* Types are kept by every step of the semaphore.                            *)
LEMMA TypeStep == TypeOK /\ Labels /\ Lives /\ NoUseAfterDispose /\ [Next]_vars => TypeOK'
<1> SUFFICES ASSUME TypeOK, Labels, Lives, NoUseAfterDispose, [Next]_vars
             PROVE  TypeOK'
  OBVIOUS
<1> USE WidthAssumption DEF Long, LongMin, Inc, Dec, Goto, Return, kernel, locals
<1>1. CASE UNCHANGED vars
  BY <1>1 DEF TypeOK, vars
<1>2. ASSUME NEW t \in Threads, Step(t), life \notin {"crash", "overflow"}
      PROVE  TypeOK'
  <2>1. CASE create_port_check(t)
    BY <2>1 DEF TypeOK, create_port_check, AfterPort
  <2>2. CASE create_port_create(t)
    BY <2>2 DEF TypeOK, create_port_create
  <2>3. CASE create_port_publish(t)
    BY <2>3 DEF TypeOK, create_port_publish, PublishPort, AfterPort
  <2>4. CASE signal_slow_post(t)
    <3>1. dsema_port \in Threads
      BY <2>4 DEF TypeOK, Labels, Lives, NoUseAfterDispose, Posting, signal_slow_post
    <3>2. tokens' \in [Threads -> Nat]
      BY <2>4, <3>1 DEF TypeOK, signal_slow_post
    <3> QED
      BY <2>4, <3>2 DEF TypeOK, signal_slow_post
  <2>5. CASE wait_slow_timedwait(t) \/ wait_slow_drain(t)
    <3>1. dsema_port \in Threads
      BY <2>5 DEF TypeOK, Labels, Lives, NoUseAfterDispose, Waiters,
                  wait_slow_timedwait, wait_slow_drain
    <3>2. tokens' \in [Threads -> Nat]
      BY <2>5, <3>1 DEF TypeOK, wait_slow_timedwait, wait_slow_drain, TakeToken
    <3> QED
      BY <2>5, <3>2 DEF TypeOK, wait_slow_timedwait, wait_slow_drain, TakeToken
  <2>6. CASE wait_slow_timeout(t)
    BY <2>6 DEF TypeOK, wait_slow_timeout
  <2>7. CASE wait_slow_undoLoad(t)
    BY <2>7 DEF TypeOK, wait_slow_undoLoad, UndoLabel
  <2>8. CASE wait_slow_undoCAS(t)
    BY <2>8 DEF TypeOK, Labels, wait_slow_undoCAS, UndoCAS, UndoLabel
  <2>9. CASE dispatch_semaphore_signal(t)
    BY <2>9 DEF TypeOK, dispatch_semaphore_signal
  <2>10. ASSUME NEW when \in Timeouts, dispatch_semaphore_wait(t, when)
         PROVE  TypeOK'
    BY <2>10, TimeoutAssumption DEF TypeOK, dispatch_semaphore_wait
  <2>11. CASE semaphore_dispose(t)
    BY <2>11 DEF TypeOK, semaphore_dispose
  <2> QED
    BY <1>2, <2>1, <2>2, <2>3, <2>4, <2>5, <2>6, <2>7, <2>8, <2>9, <2>10, <2>11
    DEF Step, Inside
<1> QED
  BY <1>1, <1>2 DEF Next

-----------------------------------------------------------------------------
(* A thread that posts, or waits for a wakeup, does so on the published port. *)
LEMMA PublishedPort ==
  ASSUME Inv, NEW t \in Threads,
         pc[t] \in {"post", "timedwait", "undoLoad", "undoCAS", "drain"}
  PROVE  dsema_port \in Threads /\ Tokens = tokens[dsema_port] /\ life # "disposed"
<1>1. t \in Waiters \cup Posting
  BY DEF Inv, Labels, Waiters, Posting
<1> QED
  BY <1>1 DEF Inv, TypeOK, Labels, Lives, NoUseAfterDispose, Tokens

(* Every step keeps the inductive invariant.                                 *)
LEMMA InvStep == Inv /\ [Next]_vars => Inv'
<1> SUFFICES ASSUME Inv, [Next]_vars PROVE Inv'
  OBVIOUS
<1> USE DEF Goto, Return, kernel, locals
<1>1. CASE UNCHANGED vars
  BY <1>1 DEF Inv, vars, TypeOK, Labels, Lives, WakeupAccounting, UnitAccounting,
     NeverOverGranted, PortsSound, NoUseAfterDispose, Waiters, Posting, Publishing,
     Tokens
<1>2. ASSUME NEW t \in Threads, Step(t), life \notin {"crash", "overflow"},
             ~UNCHANGED vars
      PROVE  Inv'
  <2>0. TypeOK /\ TypeOK'
    BY TypeStep DEF Inv
  <2>1. CASE create_port_check(t)
    <3>1. Labels' /\ Lives'
      BY <2>0, <2>1, PortAssumption
      DEF TypeOK, Inv, Labels, Lives, create_port_check, AfterPort
    <3>2. Waiters' = Waiters /\ Posting' = Posting /\ Publishing' = Publishing
      BY <2>0, <2>1 DEF TypeOK, Waiters, Posting, Publishing, create_port_check, AfterPort
    <3> QED
      BY <2>0, <2>1, <3>1, <3>2 DEF Inv, WakeupAccounting, UnitAccounting, NeverOverGranted,
         PortsSound, NoUseAfterDispose, Tokens, create_port_check
  <2>2. CASE create_port_create(t)
    <3>1. Labels' /\ Lives'
      BY <2>0, <2>2 DEF TypeOK, Inv, Labels, Lives, create_port_create
    <3>2. /\ Waiters' = Waiters /\ Posting' = Posting
          /\ Publishing' = Publishing \cup {t}
      BY <2>0, <2>2 DEF TypeOK, Waiters, Posting, Publishing, create_port_create
    <3>3. life # "disposed"
      BY <2>0, <2>2 DEF Inv, TypeOK, Labels, NoUseAfterDispose, Waiters, Posting,
         create_port_create
    <3> QED
      BY <2>0, <2>2, <3>1, <3>2, <3>3 DEF Inv, WakeupAccounting, UnitAccounting,
         NeverOverGranted, PortsSound, NoUseAfterDispose, Tokens, create_port_create
  <2>3. CASE create_port_publish(t)
    <3>1. Labels' /\ Lives'
      BY <2>0, <2>3, PortAssumption
      DEF TypeOK, Inv, Labels, Lives, create_port_publish, PublishPort, AfterPort
    <3>2. /\ Waiters' = Waiters /\ Posting' = Posting
          /\ Publishing' = Publishing \ {t} /\ t \in Publishing
      BY <2>0, <2>3 DEF TypeOK, Waiters, Posting, Publishing, create_port_publish,
         PublishPort, AfterPort
    <3>3. life # "disposed" /\ dsema_port # t
      BY <2>0, <2>3 DEF Inv, TypeOK, Labels, NoUseAfterDispose, Waiters, Posting,
         create_port_publish, PublishPort
    <3>4. PortsSound'
      BY <2>0, <2>3, <3>2, <3>3, PortAssumption
      DEF Inv, TypeOK, PortsSound, create_port_publish, PublishPort
    <3>5. Tokens' = Tokens
      BY <2>0, <2>3, PortAssumption DEF Inv, TypeOK, PortsSound, Tokens,
         create_port_publish, PublishPort
    <3> QED
      BY <2>0, <2>3, <3>1, <3>2, <3>4, <3>5 DEF Inv, WakeupAccounting, UnitAccounting,
         NeverOverGranted, NoUseAfterDispose, create_port_publish
  <2>4. CASE signal_slow_post(t)
    <3>1. Labels' /\ Lives'
      BY <2>0, <2>4 DEF TypeOK, Inv, Labels, Lives, signal_slow_post
    <3>2. op[t] = "signal" /\ dsema_port \in Threads /\ life # "disposed"
      BY <2>4, PublishedPort DEF Inv, Labels, signal_slow_post
    <3>3. /\ Cardinality(Posting') = Cardinality(Posting) - 1
          /\ Waiters' = Waiters
      BY <2>0, <2>4, <3>2, LeaveSignal DEF signal_slow_post
    <3>4. Publishing' = Publishing
      BY <2>0, <2>4 DEF TypeOK, Publishing, signal_slow_post
    <3>5. Tokens \in Nat /\ Tokens' = Tokens + 1
      BY <2>0, <2>4, <3>2 DEF TypeOK, Tokens, signal_slow_post
    <3>6. PortsSound'
      BY <2>0, <2>4, <3>2, <3>4 DEF Inv, TypeOK, PortsSound, signal_slow_post
    <3> QED
      BY <2>0, <2>4, <3>1, <3>2, <3>3, <3>5, <3>6, FiniteCounts
      DEF Inv, TypeOK, WakeupAccounting, UnitAccounting, NeverOverGranted,
          NoUseAfterDispose, Long, Max0, signal_slow_post
  <2>5. CASE wait_slow_timedwait(t) \/ wait_slow_drain(t)
    <3> USE DEF wait_slow_timedwait, wait_slow_drain, TakeToken
    <3>1. Labels' /\ Lives'
      BY <2>0, <2>5 DEF TypeOK, Inv, Labels, Lives
    <3>2. op[t] = "wait" /\ dsema_port \in Threads /\ life # "disposed"
      BY <2>5, PublishedPort DEF Inv, Labels
    <3>3. /\ Cardinality(Waiters') = Cardinality(Waiters) - 1
          /\ Posting' = Posting
      BY <2>0, <2>5, <3>2, LeaveWait
    <3>4. Publishing' = Publishing
      BY <2>0, <2>5 DEF TypeOK, Publishing
    <3>5. Tokens \in Nat /\ Tokens > 0 /\ Tokens' = Tokens - 1
      BY <2>0, <2>5, <3>2 DEF TypeOK, Tokens
    <3>6. PortsSound'
      BY <2>0, <2>5, <3>2, <3>4 DEF Inv, TypeOK, PortsSound
    <3>7. WakeupAccounting' /\ UnitAccounting'
      <4>1. dsema_value' = dsema_value /\ held' = held + 1 /\ life' = life
        BY <2>5
      <4>2. dsema_value \in Int /\ held \in Int /\ Orig \in Int
        BY <2>0, WidthAssumption, OrigAssumption DEF TypeOK, Long, LongMin
      <4> QED
        BY <1>2, <3>3, <3>5, <4>1, <4>2, FiniteCounts
        DEF Inv, WakeupAccounting, UnitAccounting, Max0
    <3>8. held + 1 =< Orig
      <4>1. dsema_value = Orig - held - Cardinality(Waiters)
        BY <1>2 DEF Inv, UnitAccounting
      <4>2. Cardinality(Waiters) >= 1 + Max0(-dsema_value)
        BY <1>2, <3>5, FiniteCounts DEF Inv, TypeOK, WakeupAccounting, Max0, Long
      <4> QED
        BY <2>0, <4>1, <4>2, FiniteCounts, WidthAssumption, OrigAssumption
        DEF TypeOK, Long, LongMin, Max0
    <3> QED
      BY <2>0, <2>5, <3>1, <3>2, <3>3, <3>6, <3>7, <3>8
      DEF Inv, NeverOverGranted, NoUseAfterDispose
  <2>6. CASE wait_slow_timeout(t)
    <3>1. Labels' /\ Lives'
      BY <2>0, <2>6 DEF TypeOK, Inv, Labels, Lives, wait_slow_timeout
    <3>2. Waiters' = Waiters /\ Posting' = Posting /\ Publishing' = Publishing
      BY <2>0, <2>6 DEF TypeOK, Waiters, Posting, Publishing, wait_slow_timeout
    <3> QED
      BY <2>0, <2>6, <3>1, <3>2 DEF Inv, WakeupAccounting, UnitAccounting, NeverOverGranted,
         PortsSound, NoUseAfterDispose, Tokens, wait_slow_timeout
  <2>7. CASE wait_slow_undoLoad(t)
    <3>1. Labels' /\ Lives'
      BY <2>0, <2>7 DEF TypeOK, Inv, Labels, Lives, wait_slow_undoLoad, UndoLabel
    <3>2. Waiters' = Waiters /\ Posting' = Posting /\ Publishing' = Publishing
      BY <2>0, <2>7 DEF TypeOK, Waiters, Posting, Publishing, wait_slow_undoLoad, UndoLabel
    <3> QED
      BY <2>0, <2>7, <3>1, <3>2 DEF Inv, WakeupAccounting, UnitAccounting, NeverOverGranted,
         PortsSound, NoUseAfterDispose, Tokens, wait_slow_undoLoad
  <2>8. CASE wait_slow_undoCAS(t)
    <3> USE DEF wait_slow_undoCAS, UndoCAS
    <3>1. op[t] = "wait" /\ orig[t] < 0 /\ pc[t] = "undoCAS"
      BY <2>8 DEF Inv, Labels
    <3>2. CASE dsema_value = orig[t]
      <4>1. /\ Cardinality(Waiters') = Cardinality(Waiters) - 1
            /\ Posting' = Posting
        BY <2>0, <2>8, <3>1, <3>2, LeaveWait
      <4>2. Labels' /\ Lives'
        BY <2>0, <2>8, <3>2 DEF TypeOK, Inv, Labels, Lives
      <4>3. Publishing' = Publishing /\ Tokens' = Tokens /\ Tokens \in Nat
        BY <2>0, <2>8, <3>2 DEF TypeOK, Publishing, Tokens
      <4>4. WakeupAccounting' /\ UnitAccounting'
        BY <1>2, <2>0, <2>8, <3>1, <3>2, <4>1, <4>3, FiniteCounts, WidthAssumption, OrigAssumption
        DEF Inv, TypeOK, WakeupAccounting, UnitAccounting, Long, LongMin, Max0
      <4>5. life # "disposed"
        BY <3>1 DEF Inv, NoUseAfterDispose, Waiters
      <4> QED
        BY <2>0, <2>8, <4>2, <4>3, <4>4, <4>5
        DEF Inv, NeverOverGranted, PortsSound, NoUseAfterDispose
    <3>3. CASE dsema_value # orig[t]
      <4>1. Labels' /\ Lives'
        BY <2>0, <2>8, <3>1, <3>3 DEF TypeOK, Inv, Labels, Lives, UndoLabel
      <4>2. Waiters' = Waiters /\ Posting' = Posting /\ Publishing' = Publishing
        BY <2>0, <2>8, <3>3 DEF TypeOK, Waiters, Posting, Publishing, UndoLabel
      <4> QED
        BY <2>0, <2>8, <3>3, <4>1, <4>2 DEF Inv, WakeupAccounting, UnitAccounting,
           NeverOverGranted, PortsSound, NoUseAfterDispose, Tokens
    <3> QED
      BY <3>2, <3>3
  <2>9. CASE dispatch_semaphore_signal(t)
    <3> USE DEF dispatch_semaphore_signal, Inc, SignalIsFast
    <3>1. /\ Cardinality(Waiters) = Tokens + Cardinality(Posting) + Max0(-dsema_value)
          /\ dsema_value = Orig - held - Cardinality(Waiters)
          /\ held =< Orig /\ held \in Int /\ dsema_value \in Int /\ Tokens \in Nat
          /\ dsema_value =< LongMax /\ dsema_value >= LongMin
      BY <1>2, <2>0, WidthAssumption DEF Inv, TypeOK, WakeupAccounting, UnitAccounting,
         NeverOverGranted, Tokens, Long, LongMin
    <3>2. /\ Labels' /\ Lives' /\ Publishing' = Publishing /\ Tokens' = Tokens
      BY <2>0, <2>9 DEF TypeOK, Inv, Labels, Lives, Publishing, Tokens
    <3>3. PortsSound' /\ life # "disposed" /\ life' # "disposed"
      BY <2>9, <3>2 DEF Inv, PortsSound
    <3>4. CASE dsema_value = LongMax
      <4>1. life' = "overflow"
        BY <2>9, <3>4, WidthAssumption DEF LongMin
      <4> QED
        BY <2>0, <3>2, <3>3, <4>1 DEF Inv, WakeupAccounting, UnitAccounting,
           NeverOverGranted, NoUseAfterDispose
    <3>5. CASE dsema_value # LongMax /\ dsema_value >= 0
      <4>1. dsema_value' = dsema_value + 1 /\ op' = op /\ held' = held - 1
        BY <2>9, <3>1, <3>5, WidthAssumption DEF LongMin
      <4>2. Waiters' = Waiters /\ Posting' = Posting
        BY <4>1 DEF Waiters, Posting
      <4> QED
        BY <2>0, <3>1, <3>2, <3>3, <3>5, <4>1, <4>2, FiniteCounts, OrigAssumption
        DEF Inv, WakeupAccounting, UnitAccounting, NeverOverGranted,
            NoUseAfterDispose, Max0
    <3>6. CASE dsema_value < 0
      <4>1. /\ dsema_value' = dsema_value + 1 /\ held' = held - 1
            /\ op' = [op EXCEPT ![t] = "signal"]
        BY <2>9, <3>1, <3>6, WidthAssumption DEF LongMin
      <4>2. /\ Cardinality(Posting') = Cardinality(Posting) + 1
            /\ Waiters' = Waiters
        BY <2>0, <2>9, <4>1, EnterSignal DEF Inv, Labels
      <4> QED
        BY <2>0, <3>1, <3>2, <3>3, <3>6, <4>1, <4>2, FiniteCounts, OrigAssumption
        DEF Inv, WakeupAccounting, UnitAccounting, NeverOverGranted,
            NoUseAfterDispose, Max0
    <3> QED
      BY <3>1, <3>4, <3>5, <3>6
  <2>10. ASSUME NEW when \in Timeouts, dispatch_semaphore_wait(t, when)
         PROVE  Inv'
    <3> USE <2>10 DEF dispatch_semaphore_wait, Dec, WaitIsFast
    <3>1. /\ Cardinality(Waiters) = Tokens + Cardinality(Posting) + Max0(-dsema_value)
          /\ dsema_value = Orig - held - Cardinality(Waiters)
          /\ held =< Orig /\ held \in Int /\ dsema_value \in Int /\ Tokens \in Nat
      BY <1>2, <2>0, WidthAssumption DEF Inv, TypeOK, WakeupAccounting, UnitAccounting,
         NeverOverGranted, Tokens, Long, LongMin
    <3>2. dsema_value' = dsema_value - 1
      <4>1. dsema_value >= -Cardinality(Waiters)
        BY <3>1, FiniteCounts DEF Max0
      <4> QED
        BY SMTT(60), <3>1, <4>1, FiniteCounts, ThreadsAssumption, WidthAssumption, FS_CardinalityType
        DEF LongMin
    <3>3. Labels' /\ Lives' /\ Publishing' = Publishing /\ Tokens' = Tokens
      BY <2>0 DEF TypeOK, Inv, Labels, Lives, Publishing, Tokens
    <3>4. PortsSound' /\ life # "disposed" /\ life' = life
      BY <3>3 DEF Inv, PortsSound
    <3>5. CASE dsema_value > 0
      <4>1. op' = op /\ held' = held + 1
        BY <3>1, <3>2, <3>5
      <4>2. Waiters' = Waiters /\ Posting' = Posting
        BY <4>1 DEF Waiters, Posting
      <4> QED
        BY <2>0, <3>1, <3>2, <3>3, <3>4, <3>5, <4>1, <4>2, FiniteCounts, OrigAssumption
        DEF Inv, WakeupAccounting, UnitAccounting, NeverOverGranted,
            NoUseAfterDispose, Max0
    <3>6. CASE dsema_value =< 0
      <4>1. op' = [op EXCEPT ![t] = "wait"] /\ held' = held
        BY <3>1, <3>2, <3>6
      <4>2. /\ Cardinality(Waiters') = Cardinality(Waiters) + 1
            /\ Posting' = Posting
        BY <2>0, <4>1, EnterWait DEF Inv, Labels
      <4> QED
        BY <2>0, <3>1, <3>2, <3>3, <3>4, <3>6, <4>1, <4>2, FiniteCounts, OrigAssumption
        DEF Inv, WakeupAccounting, UnitAccounting, NeverOverGranted,
            NoUseAfterDispose, Max0
    <3> QED
      BY <3>1, <3>5, <3>6
  <2>11. CASE semaphore_dispose(t)
    <3> USE DEF semaphore_dispose, CanDispose
    <3>1. /\ Waiters' = Waiters /\ Posting' = Posting /\ Publishing' = Publishing
          /\ Waiters = {} /\ Cardinality(Waiters) = 0
      BY <2>11, FS_EmptySet DEF Waiters, Posting, Publishing
    <3>2. Cardinality(Posting) = 0 /\ Tokens = 0
      BY <1>2, <2>0, <3>1, FiniteCounts, WidthAssumption
      DEF Inv, TypeOK, WakeupAccounting, Tokens, Max0, Long, LongMin
    <3>3. Posting = {} /\ Publishing = {}
      <4>1. Posting = {}
        BY <3>2, FiniteCounts, FS_EmptySet
      <4> QED
        BY <2>0, <4>1, <3>1 DEF Inv, TypeOK, Labels, Posting, Publishing, Waiters
    <3>4. \A p \in Threads : tokens[p] = 0
      BY <2>0, <3>2 DEF Inv, TypeOK, PortsSound, Tokens
    <3>5. Labels' /\ Lives'
      BY <2>0, <2>11, PortAssumption DEF Inv, TypeOK, Labels, Lives
    <3>6. PortsSound' /\ Tokens' = 0
      BY <2>0, <2>11, <3>1, <3>3, <3>4, PortAssumption
      DEF Inv, TypeOK, PortsSound, Tokens
    <3> QED
      BY <1>2, <2>0, <2>11, <3>1, <3>2, <3>3, <3>5, <3>6
      DEF Inv, WakeupAccounting, UnitAccounting, NeverOverGranted, NoUseAfterDispose
  <2> QED
    BY <1>2, <2>1, <2>2, <2>3, <2>4, <2>5, <2>6, <2>7, <2>8, <2>9, <2>10, <2>11
    DEF Step, Inside
<1> QED
  BY <1>1, <1>2 DEF Next

(* The invariant holds initially.                                            *)
LEMMA InvInit == Init => Inv
<1> SUFFICES ASSUME Init PROVE Inv
  OBVIOUS
<1>1. Waiters = {} /\ Posting = {} /\ Publishing = {} /\ Tokens = 0
  BY PortAssumption DEF Init, Waiters, Posting, Publishing, Tokens
<1>2. TypeOK /\ Labels /\ Lives
  BY WidthAssumption, OrigAssumption, PortAssumption
  DEF Init, TypeOK, Labels, Lives, Long, LongMin
<1> QED
  BY <1>1, <1>2, FS_EmptySet, OrigAssumption, WidthAssumption, PortAssumption
  DEF Init, Inv, WakeupAccounting, UnitAccounting, NeverOverGranted, PortsSound,
      NoUseAfterDispose, Max0

(* The accounting of dispatch_semaphore_signal and dispatch_semaphore_wait,   *)
(* the soundness of lazy port creation and the absence of use after dispose   *)
(* hold in every reachable state, for any number of threads, any width and   *)
(* any initial value.                                                        *)
THEOREM SemaphoreInvariant == Spec => []Inv
<1> QED
  BY InvInit, InvStep, PTL DEF Spec

(* The types of the semaphore's fields and of each caller's locals hold in    *)
(* every reachable state.                                                    *)
THEOREM SemaphoreTypeOK == Spec => []TypeOK
<1>1. Inv => TypeOK
  BY DEF Inv
<1> QED
  BY <1>1, SemaphoreInvariant, PTL

(* No wakeup is lost or left over: waiters, posted wakeups, owed posts and    *)
(* the negative part of dsema_value always balance.                          *)
THEOREM SemaphoreWakeups == Spec => []WakeupAccounting
<1>1. Inv => WakeupAccounting
  BY DEF Inv
<1> QED
  BY <1>1, SemaphoreInvariant, PTL

(* No unit is handed out twice: callers never hold more units than there     *)
(* are, on every path through wait.                                          *)
THEOREM SemaphoreNeverOverGrants == Spec => []NeverOverGranted
<1>1. Inv => NeverOverGranted
  BY DEF Inv
<1> QED
  BY <1>1, SemaphoreInvariant, PTL

(* The counter is what the semaphore started with, less the units held and    *)
(* one for every thread in the slow path of wait.                            *)
THEOREM SemaphoreUnits == Spec => []UnitAccounting
<1>1. Inv => UnitAccounting
  BY DEF Inv
<1> QED
  BY <1>1, SemaphoreInvariant, PTL

(* _dispatch_semaphore_create_port leaks no port and strands no wakeup,       *)
(* however many threads race to create it.                                   *)
THEOREM SemaphorePortsSound == Spec => []PortsSound
<1>1. Inv => PortsSound
  BY DEF Inv
<1> QED
  BY <1>1, SemaphoreInvariant, PTL

(* The port that signals and waits use never changes before dispose.         *)
THEOREM SemaphorePortIsStable == Spec => PortIsStable
<1>1. ASSUME Inv, [Next]_vars, dsema_port \in Threads
      PROVE  dsema_port' \in {dsema_port, DeadPort}
  <2>1. dsema_port # NoPort
    BY <1>1, PortAssumption
  <2>2. CASE UNCHANGED vars
    BY <2>2 DEF vars
  <2>3. ASSUME NEW t \in Threads, Step(t)
        PROVE  dsema_port' \in {dsema_port, DeadPort}
    BY <2>1, <2>3
    DEF Step, Inside, kernel, create_port_check, create_port_create,
        create_port_publish, PublishPort, signal_slow_post, wait_slow_timedwait,
        wait_slow_drain, TakeToken, wait_slow_timeout, wait_slow_undoLoad,
        wait_slow_undoCAS, dispatch_semaphore_signal, dispatch_semaphore_wait,
        semaphore_dispose
  <2> QED
    BY <1>1, <2>2, <2>3 DEF Next
<1>2. Inv /\ [Next]_vars =>
        [(dsema_port \in Threads) => (dsema_port' \in {dsema_port, DeadPort})]_vars
  BY <1>1
<1> QED
  BY <1>2, SemaphoreInvariant, PTL DEF Spec, PortIsStable

(* No thread inside a call of the semaphore runs on a disposed object.       *)
THEOREM SemaphoreNoUseAfterDispose == Spec => []NoUseAfterDispose
<1>1. Inv => NoUseAfterDispose
  BY DEF Inv
<1> QED
  BY <1>1, SemaphoreInvariant, PTL

(* dispose traps exactly for unbalanced clients.                             *)
THEOREM SemaphoreDisposeTraps == Spec => DisposeTrapsIffUnbalanced
<1>1. ASSUME Inv, NEW t \in Threads, semaphore_dispose(t)
      PROVE  life' = "crash" <=> held > 0
  <2>1. Cardinality(Waiters) = 0 /\ life = "alive"
    BY <1>1, FS_EmptySet DEF semaphore_dispose, CanDispose
  <2>2. dsema_value = Orig - held /\ held \in Int /\ Orig \in Int
    BY <1>1, <2>1, OrigAssumption DEF Inv, TypeOK, UnitAccounting
  <2> QED
    BY <1>1, <2>2 DEF semaphore_dispose, InUse
<1>2. Inv => [(\E t \in Threads : semaphore_dispose(t))
                => (life' = "crash" <=> held > 0)]_vars
  BY <1>1
<1> QED
  BY <1>2, SemaphoreInvariant, PTL DEF DisposeTrapsIffUnbalanced

-----------------------------------------------------------------------------
(* The abstract pool counts the queue with the same Cardinality.             *)
LEMMA AbsCardinality == ASSUME NEW S PROVE Abs!Cardinality(S) = Cardinality(S)
  BY Zenon DEF Abs!Cardinality, Cardinality

(* The implementation of CountingSemaphore. Only the steps that change the    *)
(* counter or consume a wakeup are steps of the abstract pool; publishing a   *)
(* port, timing out and posting are not visible in it.                       *)
LEMMA AbsInit == Init => Abs!Init
<1> SUFFICES ASSUME Init PROVE Abs!Init
  OBVIOUS
<1>1. Waiters = {} /\ Posting = {} /\ Tokens = 0
  BY PortAssumption DEF Init, Waiters, Posting, Tokens
<1> QED
  BY <1>1, FS_EmptySet, OrigAssumption, WidthAssumption DEF Init, Abs!Init, Max0

(* Every step of the semaphore is a step of the abstract pool or leaves it    *)
(* unchanged: the compare-and-swap of a timed-out wait, for one, is GiveUp.   *)
LEMMA AbsStep == Inv /\ Inv' /\ [Next]_vars => [Abs!Next]_(Abs!vars)
<1> SUFFICES ASSUME Inv, Inv', Next, ~UNCHANGED vars
             PROVE  Abs!Next \/ UNCHANGED Abs!vars
  BY DEF vars, Abs!vars, Waiters, Posting, Tokens
<1> DEFINE Avail == Max0(dsema_value) + Tokens + Cardinality(Posting)
<1> USE DEF Goto, Return, kernel, locals
<1>1. PICK t \in Threads : Step(t)
  BY DEF Next
<1>2. /\ life \notin {"crash", "overflow"} /\ TypeOK
      /\ Cardinality(Waiters) = Tokens + Cardinality(Posting) + Max0(-dsema_value)
      /\ dsema_value \in Int /\ Tokens \in Nat
      /\ dsema_value =< LongMax /\ dsema_value >= LongMin
  BY WidthAssumption DEF Next, Inv, TypeOK, WakeupAccounting, Tokens, Long, LongMin
<1>3. ASSUME Avail' = Avail, Waiters' = Waiters, life' # "overflow"
      PROVE  UNCHANGED Abs!vars
  BY <1>2, <1>3 DEF Abs!vars
<1>4. CASE \/ create_port_check(t) \/ create_port_create(t)
           \/ wait_slow_timeout(t) \/ wait_slow_undoLoad(t)
  BY <1>2, <1>3, <1>4 DEF Waiters, Posting, Tokens, create_port_check,
     create_port_create, wait_slow_timeout, wait_slow_undoLoad
<1>5. CASE create_port_publish(t)
  <2>1. Tokens' = Tokens
    BY <1>2, <1>5, PortAssumption DEF Inv, TypeOK, PortsSound, Tokens,
       create_port_publish, PublishPort
  <2> QED
    BY <1>2, <1>3, <1>5, <2>1 DEF Waiters, Posting, create_port_publish
<1>6. CASE signal_slow_post(t)
  <2>1. op[t] = "signal" /\ dsema_port \in Threads
    BY <1>6, PublishedPort DEF Inv, Labels, signal_slow_post
  <2>2. Cardinality(Posting') = Cardinality(Posting) - 1 /\ Waiters' = Waiters
    BY <1>2, <1>6, <2>1, LeaveSignal DEF signal_slow_post
  <2>3. Tokens' = Tokens + 1 /\ dsema_value' = dsema_value /\ life' = life
    BY <1>2, <1>6, <2>1 DEF TypeOK, Tokens, signal_slow_post
  <2> QED
    BY <1>2, <1>3, <2>2, <2>3, FiniteCounts DEF Max0
<1>7. CASE wait_slow_timedwait(t) \/ wait_slow_drain(t)
  <2> USE DEF wait_slow_timedwait, wait_slow_drain, TakeToken
  <2>1. op[t] = "wait" /\ dsema_port \in Threads
    BY <1>7, PublishedPort DEF Inv, Labels
  <2>2. Waiters' = Waiters \ {t} /\ t \in Waiters /\ Posting' = Posting
    BY <1>2, <1>7, <2>1 DEF TypeOK, Waiters, Posting
  <2>3. /\ Tokens > 0 /\ Tokens' = Tokens - 1
        /\ dsema_value' = dsema_value /\ life' = life
    BY <1>2, <1>7, <2>1 DEF TypeOK, Tokens
  <2>4. Avail > 0 /\ Avail' = Avail - 1
    BY <1>2, <2>2, <2>3, FiniteCounts DEF Max0
  <2>5. Abs!Grant(t)
    BY <1>2, <2>2, <2>3, <2>4 DEF Abs!Grant
  <2> QED
    BY <1>2, <2>5 DEF Abs!Next
<1>8. CASE wait_slow_undoCAS(t) /\ dsema_value # orig[t]
  BY <1>2, <1>3, <1>8 DEF Waiters, Posting, Tokens, wait_slow_undoCAS, UndoCAS
<1>9. CASE wait_slow_undoCAS(t) /\ dsema_value = orig[t]
  <2> USE DEF wait_slow_undoCAS, UndoCAS
  <2>1. op[t] = "wait" /\ dsema_value < 0
    BY <1>9 DEF Inv, Labels
  <2>2. Waiters' = Waiters \ {t} /\ t \in Waiters /\ Posting' = Posting
    BY <1>2, <1>9, <2>1 DEF TypeOK, Waiters, Posting
  <2>3. /\ Tokens' = Tokens /\ life' = life
        /\ dsema_value' = dsema_value + 1
    BY <1>9 DEF Tokens
  <2>4. Avail < Cardinality(Waiters) /\ Avail' = Avail
    BY <1>2, <2>1, <2>2, <2>3, FiniteCounts DEF Max0
  <2>5. Abs!GiveUp(t)
    BY <1>2, <2>2, <2>3, <2>4, AbsCardinality DEF Abs!GiveUp
  <2> QED
    BY <1>2, <2>5 DEF Abs!Next
<1>10. CASE dispatch_semaphore_signal(t)
  <2> USE DEF dispatch_semaphore_signal, Inc, SignalIsFast
  <2>1. Avail - Cardinality(Waiters) = dsema_value /\ Avail \in Int
    BY <1>2, FiniteCounts DEF Max0
  <2>2. CASE dsema_value = LongMax
    <3>1. life' = "overflow"
      BY <1>10, <2>2, WidthAssumption DEF LongMin
    <3>2. Abs!Overflow
      BY <2>1, <2>2, <3>1, AbsCardinality DEF Abs!Overflow
    <3> QED
      BY <1>2, <3>2 DEF Abs!Next
  <2>3. CASE dsema_value # LongMax
    <3>1. dsema_value' = dsema_value + 1 /\ Tokens' = Tokens /\ life' = life
      BY <1>2, <1>10, <2>3, WidthAssumption DEF LongMin, Tokens
    <3>2. Waiters' = Waiters /\ Avail' = Avail + 1
      <4>1. CASE dsema_value >= 0
        <5>1. op' = op
          BY <1>2, <1>10, <2>3, <4>1, WidthAssumption DEF LongMin
        <5>2. Waiters' = Waiters /\ Posting' = Posting
          BY <5>1 DEF Waiters, Posting
        <5> QED
          BY <1>2, <3>1, <4>1, <5>2, FiniteCounts DEF Max0
      <4>2. CASE dsema_value < 0
        <5>1. op' = [op EXCEPT ![t] = "signal"]
          BY <1>2, <1>10, <2>3, <4>2, WidthAssumption DEF LongMin
        <5>2. /\ Cardinality(Posting') = Cardinality(Posting) + 1
              /\ Waiters' = Waiters
          BY <1>2, <1>10, <5>1, EnterSignal DEF Inv, Labels
        <5> QED
          BY <1>2, <3>1, <4>2, <5>2, FiniteCounts DEF Max0
      <4> QED
        BY <1>2, <4>1, <4>2
    <3>3. Avail - Cardinality(Waiters) < LongMax
      BY <1>2, <2>1, <2>3, WidthAssumption
    <3>4. Abs!Signal
      BY <3>1, <3>2, <3>3, AbsCardinality DEF Abs!Signal
    <3> QED
      BY <1>2, <3>4 DEF Abs!Next
  <2> QED
    BY <2>2, <2>3
<1>11. ASSUME NEW when \in Timeouts, dispatch_semaphore_wait(t, when)
       PROVE  Abs!Next
  <2> USE <1>11 DEF dispatch_semaphore_wait, Dec, WaitIsFast
  <2>1. dsema_value' = dsema_value - 1 /\ Tokens' = Tokens /\ life' = life
    <3>1. dsema_value >= -Cardinality(Waiters)
      BY <1>2, FiniteCounts DEF Max0
    <3> QED
      BY <1>2, <3>1, FiniteCounts, ThreadsAssumption, WidthAssumption, FS_CardinalityType
      DEF LongMin, Tokens
  <2>2. t \notin Waiters
    BY DEF Inv, Labels, Waiters
  <2>3. CASE dsema_value > 0
    <3>1. Waiters' = Waiters /\ Posting' = Posting
      BY <1>2, <2>1, <2>3 DEF Waiters, Posting
    <3>2. Avail > Cardinality(Waiters) /\ Avail' = Avail - 1
      BY <1>2, <2>1, <2>3, <3>1, FiniteCounts DEF Max0
    <3>3. Abs!Acquire(t)
      BY <2>1, <2>2, <3>1, <3>2, AbsCardinality DEF Abs!Acquire
    <3> QED
      BY <1>2, <3>3 DEF Abs!Next
  <2>4. CASE dsema_value =< 0
    <3>1. op' = [op EXCEPT ![t] = "wait"]
      BY <1>2, <2>1, <2>4
    <3>2. Waiters' = Waiters \cup {t} /\ Posting' = Posting
      BY <1>2, <2>2, <3>1 DEF TypeOK, Inv, Labels, Waiters, Posting
    <3>3. Avail =< Cardinality(Waiters) /\ Avail' = Avail
      BY <1>2, <2>1, <2>4, <3>2, FiniteCounts DEF Max0
    <3>4. Abs!Enqueue(t)
      BY <2>1, <2>2, <3>2, <3>3, AbsCardinality DEF Abs!Enqueue
    <3> QED
      BY <1>2, <3>4 DEF Abs!Next
  <2> QED
    BY <1>2, <2>3, <2>4
<1>12. CASE semaphore_dispose(t)
  <2> USE DEF semaphore_dispose, CanDispose
  <2>1. Waiters' = Waiters /\ Posting' = Posting /\ Cardinality(Waiters) = 0
    BY <1>12, FS_EmptySet DEF Waiters, Posting
  <2>2. Tokens = 0
    BY <1>2, <2>1, FiniteCounts DEF Max0
  <2>3. Tokens' = 0
    BY <1>12, <2>2, PortAssumption DEF Tokens
  <2> QED
    BY <1>2, <1>3, <1>12, <2>1, <2>2, <2>3
<1> QED
  BY <1>1, <1>4, <1>5, <1>6, <1>7, <1>8, <1>9, <1>10, <1>11, <1>12 DEF Step, Inside

(* dispatch_semaphore_t implements the abstract counting semaphore: units    *)
(* are neither created nor lost, the fast path never takes a unit meant for  *)
(* a queued caller, and a timed-out wait gives up only when no unit is there *)
(* for it.                                                                   *)
THEOREM SemaphoreImplementsPool == Spec => AbsSpec
<1>1. Inv /\ Inv' /\ [Next]_vars => [Abs!Next]_(Abs!vars)
  BY AbsStep
<1> QED
  BY <1>1, AbsInit, SemaphoreInvariant, PTL DEF Spec, AbsSpec, Abs!Spec
-----------------------------------------------------------------------------
(* What the clients of SemaphoreLock do with the semaphore is what any        *)
(* client of it may do, so all theorems about it hold of them.               *)
LEMMA LockUsesSemaphore == [LockNext]_lockVars => [Next]_vars
<1>1. ASSUME LockNext PROVE Next
  <2>1. PICK t \in Threads : LockStep(t)
    BY <1>1 DEF LockNext
  <2>2. Step(t)
    BY <2>1, LockAssumption
    DEF LockStep, LockSlow, Lock, Unlock, LockRelease, Step
  <2> QED
    BY <1>1, <2>2 DEF LockNext, Next
<1> QED
  BY <1>1 DEF lockVars

(* The invariant of dispatch_semaphore_t holds of the lock.                  *)
LEMMA LockKeepsInv == LockSpec => []Inv
<1>1. LockInit => Inv
  BY InvInit DEF LockInit
<1>2. Inv /\ [LockNext]_lockVars => Inv'
  BY LockUsesSemaphore, InvStep
<1> QED
  BY <1>1, <1>2, PTL DEF LockSpec

(* The section gains and loses one thread at a time.                         *)
LEMMA SectionCounts ==
  ASSUME critical \subseteq Threads, NEW t \in Threads
  PROVE  /\ Cardinality(critical) \in Nat
         /\ Cardinality({}) = 0
         /\ t \notin critical => Cardinality(critical \cup {t}) = Cardinality(critical) + 1
         /\ t \in critical => Cardinality(critical \ {t}) = Cardinality(critical) - 1
<1>1. IsFiniteSet(critical)
  BY ThreadsAssumption, FS_Subset
<1> QED
  BY <1>1, FS_EmptySet, FS_CardinalityType, FS_AddElement, FS_RemoveElement

(* dispatch_semaphore_wait lets a thread in at once, or leaves it outside    *)
(* with no timeout.                                                          *)
LEMMA TiedLock ==
  ASSUME Inv, Tied, locking, locking', NEW t \in Threads, Lock(t)
  PROVE  Tied'
<1> USE DEF Tied, Waiters
<1>1. /\ op[t] = "none" /\ t \notin critical /\ life' = life /\ held \in Int
      /\ op \in [Threads -> {"none", "signal", "wait"}]
      /\ pc \in [Threads -> {"idle", "port", "create", "publish", "post",
                             "timedwait", "undoLoad", "undoCAS", "drain"}]
      /\ timeout \in [Threads -> {"now", "finite", "forever"}]
  BY DEF Lock, dispatch_semaphore_wait, Inv, TypeOK, Labels
<1>2. CASE op' = op
  <2>1. /\ critical' = critical \cup {t} /\ held' = held + 1
        /\ UNCHANGED <<op, pc, timeout>>
    BY <1>1, <1>2 DEF Lock, dispatch_semaphore_wait
  <2> QED
    BY <1>1, <2>1, SectionCounts
<1>3. CASE op' # op
  <2>1. /\ op' = [op EXCEPT ![t] = "wait"] /\ held' = held
        /\ pc' = [pc EXCEPT ![t] = "port"]
        /\ timeout' = [timeout EXCEPT ![t] = "forever"]
    BY <1>1, <1>3 DEF Lock, dispatch_semaphore_wait, Goto
  <2>2. critical' = critical
    BY <1>1, <2>1 DEF Lock
  <2> QED
    BY <1>1, <2>1, <2>2
<1> QED
  BY <1>2, <1>3

(* dispatch_semaphore_signal lets a thread out, and cannot overflow.         *)
LEMMA TiedUnlock ==
  ASSUME Inv, Tied, locking, locking', NEW t \in Threads, Unlock(t)
  PROVE  Tied'
<1> USE DEF Tied, Waiters
<1>1. /\ t \in critical /\ op[t] = "none" /\ life = "alive" /\ held \in Int
      /\ dsema_value \in Long
      /\ op \in [Threads -> {"none", "signal", "wait"}]
      /\ pc \in [Threads -> {"idle", "port", "create", "publish", "post",
                             "timedwait", "undoLoad", "undoCAS", "drain"}]
  BY DEF Unlock, dispatch_semaphore_signal, Inv, TypeOK, Labels
<1>2. /\ held' = held - 1 /\ critical' = critical \ {t}
      /\ timeout' = timeout
  BY DEF Unlock, dispatch_semaphore_signal, locals
<1>3. dsema_value < LongMax
  <2>1. Cardinality(critical) >= 1
    <3>1. critical \ {t} \in SUBSET Threads
      BY DEF Tied
    <3>2. Cardinality(critical \ {t}) \in Nat
      BY <3>1, ThreadsAssumption, FS_Subset, FS_CardinalityType
    <3> QED
      BY <1>1, <3>2, SectionCounts
  <2>2. dsema_value = Orig - held - Cardinality({u \in Threads : op[u] = "wait"})
    BY <1>1 DEF Inv, UnitAccounting
  <2> QED
    BY <1>1, <2>1, <2>2, FiniteCounts, OrigAssumption, WidthAssumption
<1>4. /\ life' = "alive"
      /\ \/ UNCHANGED <<op, pc>>
         \/ op' = [op EXCEPT ![t] = "signal"] /\ pc' = [pc EXCEPT ![t] = "port"]
  BY <1>1, <1>3, WidthAssumption
  DEF Unlock, dispatch_semaphore_signal, Inc, Long, LongMin, Goto
<1> QED
  BY <1>1, <1>2, <1>4, SectionCounts

(* Inside a slow path, only the wait that consumes a wakeup lets its thread   *)
(* in; a wait without a timeout never undoes itself.                         *)
LEMMA TiedSlow ==
  ASSUME Inv, Tied, locking, locking', NEW t \in Threads, LockSlow(t)
  PROVE  Tied'
<1> USE DEF Tied, Waiters
<1>1. /\ op \in [Threads -> {"none", "signal", "wait"}] /\ held \in Int
      /\ pc \in [Threads -> {"idle", "port", "create", "publish", "post",
                             "timedwait", "undoLoad", "undoCAS", "drain"}]
      /\ timeout \in [Threads -> {"now", "finite", "forever"}]
      /\ pc[t] # "idle" => op[t] # "none"
      /\ pc[t] = "post" => op[t] = "signal"
      /\ pc[t] = "drain" => op[t] = "wait"
  BY DEF Inv, TypeOK, Labels
<1>2. CASE create_port_check(t) \/ create_port_create(t) \/ create_port_publish(t)
  <2>1. /\ UNCHANGED <<op, timeout, life, held>>
        /\ \E l \in {"create", "publish", "post", "drain"} : pc' = [pc EXCEPT ![t] = l]
    BY <1>1, <1>2
    DEF create_port_check, create_port_create, create_port_publish, PublishPort,
        AfterPort, Goto, locals
  <2>2. critical' = critical
    BY <2>1 DEF LockSlow
  <2> QED
    BY <1>1, <2>1, <2>2
<1>3. CASE signal_slow_post(t)
  <2>1. /\ op[t] = "signal" /\ op' = [op EXCEPT ![t] = "none"]
        /\ pc' = [pc EXCEPT ![t] = "idle"] /\ timeout' = [timeout EXCEPT ![t] = "forever"]
        /\ UNCHANGED <<life, held>>
    BY <1>1, <1>3 DEF signal_slow_post, Return, Goto
  <2>2. critical' = critical
    BY <2>1 DEF LockSlow
  <2> QED
    BY <1>1, <2>1, <2>2
<1>4. CASE wait_slow_drain(t)
  <2>1. /\ op[t] = "wait" /\ op' = [op EXCEPT ![t] = "none"]
        /\ pc' = [pc EXCEPT ![t] = "idle"] /\ timeout' = [timeout EXCEPT ![t] = "forever"]
        /\ life' = life /\ held' = held + 1
    BY <1>1, <1>4 DEF wait_slow_drain, TakeToken, Return, Goto
  <2>2. critical' = critical \cup {t} /\ t \notin critical
    BY <1>1, <2>1 DEF LockSlow
  <2> QED
    BY <1>1, <2>1, <2>2, SectionCounts
<1> QED
  BY <1>1, <1>2, <1>3, <1>4
  DEF LockSlow, Inside, wait_slow_timedwait, wait_slow_timeout, wait_slow_undoLoad,
      wait_slow_undoCAS, UndoCAS

(* The owner's release of its reference does not trap: with nobody in the     *)
(* section the value is back where it started.                               *)
LEMMA TiedRelease ==
  ASSUME Inv, Tied, locking, locking', NEW t \in Threads, LockRelease(t)
  PROVE  Tied'
<1>1. /\ life = "alive" /\ held = 0 /\ Waiters = {} /\ Cardinality(Waiters) = 0
  BY FS_EmptySet DEF LockRelease, semaphore_dispose, CanDispose, Tied
<1>2. ~InUse
  BY <1>1, OrigAssumption DEF Inv, UnitAccounting, InUse
<1>3. /\ life' = "disposed"
      /\ UNCHANGED <<op, pc, timeout, held, critical>>
  BY <1>1, <1>2 DEF LockRelease, semaphore_dispose, locals
<1> QED
  BY <1>3 DEF Tied, Waiters

(* The threads between their wait and their signal are as many as the units  *)
(* held.                                                                     *)
LEMMA LockIsTied == LockSpec => []Tied
<1>1. LockInit => Tied
  BY FS_EmptySet DEF LockInit, Init, Tied, Waiters
<1>2. Inv /\ Tied /\ [LockNext]_lockVars => Tied'
  <2> SUFFICES ASSUME Inv, Tied, [LockNext]_lockVars PROVE Tied'
    OBVIOUS
  <2>1. CASE LockNext /\ locking
    <3>1. PICK t \in Threads : LockStep(t)
      BY <2>1 DEF LockNext
    <3> QED
      BY <2>1, <3>1, TiedLock, TiedUnlock, TiedSlow, TiedRelease DEF LockNext, LockStep
  <2>2. CASE LockNext /\ ~locking
    BY <2>2 DEF LockNext, Tied
  <2>3. CASE UNCHANGED lockVars
    BY <2>3 DEF lockVars, vars, Tied, Waiters
  <2> QED
    BY <2>1, <2>2, <2>3
<1> QED
  BY <1>1, <1>2, LockKeepsInv, PTL DEF LockSpec

(* At most dsema_orig threads are between dispatch_semaphore_wait and        *)
(* dispatch_semaphore_signal, whichever paths let them in, and neither signal *)
(* nor dispose traps.                                                        *)
THEOREM LockMutualExclusion == LockSpec => []MutualExclusion
<1>1. Inv /\ Tied => MutualExclusion
  BY DEF Inv, NeverOverGranted, Tied, MutualExclusion
<1> QED
  BY <1>1, LockKeepsInv, LockIsTied, PTL
=============================================================================
