------------------------- MODULE CancellationProofs -------------------------
(* Theorems on the three components whose work the client may cancel while   *)
(* it runs: dispatch block objects, for any number of threads, executions,   *)
(* waits and notifications, the downloads of HalfTunes, for a song of any    *)
(* size and any number of tasks, and dispatch sources, for any sets of       *)
(* clients, workers and managers. The three share no variable.               *)
EXTENDS DispatchBlock, HalfTunesDownload, DispatchSource, Counting

(*---------------------------- dispatch blocks -----------------------------*)
(* Threads at a label can be counted.                                        *)
LEMMA AtNat == ASSUME NEW m PROVE At(m) \in Nat
BY ThreadsAssumption, FS_Subset, FS_CardinalityType DEF At

(* A thread that moves is counted at its new place and not at its old one.   *)
LEMMA AtMoves ==
  ASSUME TypeOK, NEW t \in Threads, NEW l, NEW m, pc' = [pc EXCEPT ![t] = l]
  PROVE  /\ At(m) \in Nat
         /\ At(m)' = At(m) + (IF l = m THEN 1 ELSE 0) - (IF pc[t] = m THEN 1 ELSE 0)
<1> DEFINE S == {u \in Threads : pc[u] = m}
           R == {u \in Threads : pc'[u] = m}
<1>1. IsFiniteSet(S) /\ Cardinality(S) \in Nat
  BY ThreadsAssumption, FS_Subset, FS_CardinalityType DEF S
<1> HIDE DEF S, R
<1>5. At(m) = Cardinality(S) /\ At(m)' = Cardinality(R)
  BY DEF At, S, R
<1>2. CASE l = m /\ pc[t] # m
  <2>1. R = S \cup {t} /\ t \notin S
    BY <1>2 DEF TypeOK, S, R
  <2> QED
    BY SMTT(60), <1>1, <1>2, <1>5, <2>1, FS_AddElement
<1>3. CASE l # m /\ pc[t] = m
  <2>1. R = S \ {t} /\ t \in S
    BY <1>3 DEF TypeOK, S, R
  <2> QED
    BY <1>1, <1>3, <1>5, <2>1, FS_RemoveElement
<1>4. CASE l = m <=> pc[t] = m
  <2>1. R = S
    BY <1>4 DEF TypeOK, S, R
  <2> QED
    BY <1>1, <1>4, <1>5, <2>1
<1> QED
  BY <1>2, <1>3, <1>4
\* One step of a thread, as in Next.
Moves(t) == \/ Inside(t) \/ block_wait_timeout(t)
            \/ Submit(t, "async") \/ Submit(t, "sync")
            \/ invoke_direct(t) \/ dispatch_block_wait(t)

\* What the threads on their way have still to give back, less what they have
\* still to take; and the part of a thread at a label.
Owed == At("release") + At("consume") - At("retain")
Part(l) == IF l \in {"release", "consume"} THEN 1 ELSE IF l = "retain" THEN -1 ELSE 0

(* A thread that moves takes its part of the references with it.             *)
LEMMA OwedMoves ==
  ASSUME TypeOK, NEW t \in Threads, NEW l, pc' = [pc EXCEPT ![t] = l]
  PROVE  Owed \in Int /\ Owed' = Owed + Part(l) - Part(pc[t])
<1>1. \A m \in {"release", "consume", "retain"} :
        /\ At(m) \in Nat
        /\ At(m)' = At(m) + (IF l = m THEN 1 ELSE 0) - (IF pc[t] = m THEN 1 ELSE 0)
  BY AtMoves
<1> QED
  BY <1>1 DEF Owed, Part

(* The initial state is well typed.                                          *)
LEMMA BlockInit == Init => TypeOK
<1> SUFFICES ASSUME Init PROVE TypeOK
  OBVIOUS
<1>1. /\ canceled \in BOOLEAN /\ waiting \in BOOLEAN /\ waited \in BOOLEAN
      /\ queue \in BOOLEAN /\ thread \in BOOLEAN
      /\ observed \in BOOLEAN /\ crashed \in BOOLEAN
      /\ boosted \in [Threads -> BOOLEAN]
  BY Zenon DEF Init
<1>2. /\ performed \in Nat /\ left \in Nat /\ pending \in Nat
      /\ execs \in Nat /\ waits \in Nat /\ notes \in Nat /\ fired \in Nat
      /\ refs \in Int /\ brefs \in Int
  BY SMT DEF Init
<1> QED
  BY <1>1, <1>2, Zenon DEF Init, TypeOK

(* Every step of a thread keeps the types.                                   *)
LEMMA BlockTypeStep ==
  ASSUME TypeOK, NEW t \in Threads, Moves(t)
  PROVE  TypeOK'
<1> USE DEF TypeOK, Goto, flagVars, client
<1>1. CASE init_slow_retain(t)
  BY <1>1 DEF init_slow_retain
<1>2. CASE Push(t)
  BY <1>2 DEF Push
<1>3. CASE Dequeue(t)
  BY <1>3 DEF Dequeue, Start
<1>4. CASE invoke_flags(t)
  BY <1>4 DEF invoke_flags
<1>5. CASE invoke_body(t)
  BY <1>5 DEF invoke_body
<1>6. CASE invoke_performed(t)
  BY <1>6 DEF invoke_performed, Leaves
<1>7. CASE invoke_queue(t)
  BY <1>7 DEF invoke_queue
<1>8. CASE invoke_release(t)
  BY <1>8 DEF invoke_release
<1>9. CASE invoke_free(t)
  <2>1. CASE op[t] = "item" /\ brefs = 1
    <3>1. left' \in Nat /\ refs' \in Int /\ queue' = FALSE /\ brefs' \in Int
      BY <1>9, <2>1 DEF invoke_free, BlockRelease, LeftByDestructor
    <3>2. /\ pc' = [pc EXCEPT ![t] = "idle"] /\ op' = [op EXCEPT ![t] = "none"]
          /\ UNCHANGED <<flagVars, performed, thread, pending, boosted, client, crashed>>
      BY <1>9 DEF invoke_free
    <3> QED
      BY <3>1, <3>2
  <2>2. CASE op[t] = "item" /\ brefs # 1
    BY <1>9, <2>2 DEF invoke_free, BlockRelease
  <2>3. CASE op[t] # "item"
    BY <1>9, <2>3 DEF invoke_free
  <2> QED
    BY <2>1, <2>2, <2>3
<1>10. CASE block_wait_boost(t)
  BY <1>10 DEF block_wait_boost
<1>11. CASE block_wait_consume(t)
  BY <1>11 DEF block_wait_consume
<1>12. CASE block_wait_check(t)
  BY <1>12 DEF block_wait_check
<1>13. CASE block_wait_done(t)
  BY <1>13 DEF block_wait_done, Completed
<1>14. CASE block_wait_timeout(t)
  BY <1>14 DEF block_wait_timeout, QueueAfterTimeout, WaitingAfterTimeout
<1>15. CASE invoke_direct(t)
  BY <1>15 DEF invoke_direct, Start
<1>16. CASE dispatch_block_wait(t)
  BY <1>16 DEF dispatch_block_wait, Start
<1>17. ASSUME NEW o \in {"async", "sync"}, Submit(t, o) PROVE TypeOK'
  BY <1>17 DEF Submit, Start
<1> QED
  BY <1>1, <1>2, <1>3, <1>4, <1>5, <1>6, <1>7, <1>8, <1>9, <1>10, <1>11, <1>12, <1>13, <1>14,
     <1>15, <1>16, <1>17 DEF Moves, Inside

(* Every step of a thread that takes, hands over or gives back the reference *)
(* of the queue does so for dbpd_queue, for itself, or from refs.            *)
LEMMA BlockBalanceStep ==
  ASSUME QueueBalanced, NEW t \in Threads, Moves(t)
  PROVE  refs' = (IF queue' THEN 1 ELSE 0) + Owed'
<1>0. /\ TypeOK /\ queue \in BOOLEAN /\ refs \in Int
      /\ refs = (IF queue THEN 1 ELSE 0) + Owed
  BY AtNat DEF QueueBalanced, Owed, TypeOK
<1>1. CASE init_slow_retain(t)
  <2>1. /\ pc[t] = "retain" /\ pc' = [pc EXCEPT ![t] = "push"]
        /\ refs' = refs + 1 /\ queue' = queue
    BY <1>1 DEF init_slow_retain, Goto
  <2>2. Owed \in Int /\ Owed' = Owed + Part("push") - Part("retain")
    BY <1>0, <2>1, OwedMoves
  <2> QED
    BY <1>0, <2>1, <2>2 DEF Part
<1>2. CASE Push(t)
  <2>1. CASE op[t] = "async"
    <3>1. /\ pc[t] = "push" /\ pc' = [pc EXCEPT ![t] = "idle"]
          /\ UNCHANGED <<refs, queue>>
      BY <1>2, <2>1 DEF Push, Goto
    <3>2. Owed \in Int /\ Owed' = Owed + Part("idle") - Part("push")
      BY <1>0, <3>1, OwedMoves
    <3> QED
      BY <1>0, <2>1, <3>1, <3>2 DEF Part
  <2>2. CASE op[t] # "async"
    <3>1. /\ pc[t] = "push" /\ pc' = [pc EXCEPT ![t] = "invoke"]
          /\ UNCHANGED <<refs, queue>>
      BY <1>2, <2>2 DEF Push, Goto
    <3>2. Owed \in Int /\ Owed' = Owed + Part("invoke") - Part("push")
      BY <1>0, <3>1, OwedMoves
    <3> QED
      BY <1>0, <2>2, <3>1, <3>2 DEF Part
  <2> QED
    BY <1>0, <2>1, <2>2
<1>3. CASE Dequeue(t)
  <2>1. /\ pc[t] = "idle" /\ pc' = [pc EXCEPT ![t] = "invoke"]
        /\ UNCHANGED <<refs, queue>>
    BY <1>3 DEF Dequeue, Start, Goto
  <2>2. Owed \in Int /\ Owed' = Owed + Part("invoke") - Part("idle")
    BY <1>0, <2>1, OwedMoves
  <2> QED
    BY <1>0, <2>1, <2>2 DEF Part
<1>4. CASE invoke_flags(t)
  <2>1. CASE canceled
    <3>1. /\ pc[t] = "invoke" /\ pc' = [pc EXCEPT ![t] = "performed"]
          /\ UNCHANGED <<refs, queue>>
      BY <1>4, <2>1 DEF invoke_flags, Goto
    <3>2. Owed \in Int /\ Owed' = Owed + Part("performed") - Part("invoke")
      BY <1>0, <3>1, OwedMoves
    <3> QED
      BY <1>0, <2>1, <3>1, <3>2 DEF Part
  <2>2. CASE ~canceled
    <3>1. /\ pc[t] = "invoke" /\ pc' = [pc EXCEPT ![t] = "body"]
          /\ UNCHANGED <<refs, queue>>
      BY <1>4, <2>2 DEF invoke_flags, Goto
    <3>2. Owed \in Int /\ Owed' = Owed + Part("body") - Part("invoke")
      BY <1>0, <3>1, OwedMoves
    <3> QED
      BY <1>0, <2>2, <3>1, <3>2 DEF Part
  <2> QED
    BY <1>0, <2>1, <2>2
<1>5. CASE invoke_body(t)
  <2>1. /\ pc[t] = "body" /\ pc' = [pc EXCEPT ![t] = "performed"]
        /\ UNCHANGED <<refs, queue>>
    BY <1>5 DEF invoke_body, Goto
  <2>2. Owed \in Int /\ Owed' = Owed + Part("performed") - Part("body")
    BY <1>0, <2>1, OwedMoves
  <2> QED
    BY <1>0, <2>1, <2>2 DEF Part
<1>6. CASE invoke_performed(t)
  <2>1. CASE op[t] = "direct"
    <3>1. /\ pc[t] = "performed" /\ pc' = [pc EXCEPT ![t] = "idle"]
          /\ UNCHANGED <<refs, queue>>
      BY <1>6, <2>1 DEF invoke_performed, Goto
    <3>2. Owed \in Int /\ Owed' = Owed + Part("idle") - Part("performed")
      BY <1>0, <3>1, OwedMoves
    <3> QED
      BY <1>0, <2>1, <3>1, <3>2 DEF Part
  <2>2. CASE op[t] # "direct"
    <3>1. /\ pc[t] = "performed" /\ pc' = [pc EXCEPT ![t] = "queue"]
          /\ UNCHANGED <<refs, queue>>
      BY <1>6, <2>2 DEF invoke_performed, Goto
    <3>2. Owed \in Int /\ Owed' = Owed + Part("queue") - Part("performed")
      BY <1>0, <3>1, OwedMoves
    <3> QED
      BY <1>0, <2>2, <3>1, <3>2 DEF Part
  <2> QED
    BY <1>0, <2>1, <2>2
<1>7. CASE invoke_queue(t)
  <2>1. CASE queue
    <3>1. /\ pc[t] = "queue" /\ pc' = [pc EXCEPT ![t] = "release"]
          /\ queue' = FALSE /\ refs' = refs
      BY <1>7, <2>1 DEF invoke_queue, Goto
    <3>2. Owed \in Int /\ Owed' = Owed + Part("release") - Part("queue")
      BY <1>0, <3>1, OwedMoves
    <3> QED
      BY <1>0, <2>1, <3>1, <3>2 DEF Part
  <2>2. CASE ~queue
    <3>1. /\ pc[t] = "queue" /\ pc' = [pc EXCEPT ![t] = "free"]
          /\ queue' = FALSE /\ refs' = refs
      BY <1>7, <2>2 DEF invoke_queue, Goto
    <3>2. Owed \in Int /\ Owed' = Owed + Part("free") - Part("queue")
      BY <1>0, <3>1, OwedMoves
    <3> QED
      BY <1>0, <2>2, <3>1, <3>2 DEF Part
  <2> QED
    BY <1>0, <2>1, <2>2
<1>8. CASE invoke_release(t)
  <2>1. /\ pc[t] = "release" /\ pc' = [pc EXCEPT ![t] = "free"]
        /\ refs' = refs - 1 /\ queue' = queue
    BY <1>8 DEF invoke_release, Goto
  <2>2. Owed \in Int /\ Owed' = Owed + Part("free") - Part("release")
    BY <1>0, <2>1, OwedMoves
  <2> QED
    BY <1>0, <2>1, <2>2 DEF Part
<1>9. CASE invoke_free(t)
  <2>1. /\ pc[t] = "free" /\ pc' = [pc EXCEPT ![t] = "idle"]
        /\ (UNCHANGED <<refs, queue>>) \/ (refs' = (IF queue THEN refs - 1 ELSE refs) /\ queue' = FALSE)
    BY <1>9 DEF invoke_free, BlockRelease, Goto
  <2>2. Owed \in Int /\ Owed' = Owed + Part("idle") - Part("free")
    BY <1>0, <2>1, OwedMoves
  <2> QED
    BY <1>0, <2>1, <2>2 DEF Part
<1>10. CASE block_wait_boost(t)
  <2>1. CASE queue
    <3>1. /\ pc[t] = "boost" /\ pc' = [pc EXCEPT ![t] = "consume"]
          /\ queue' = FALSE /\ refs' = refs
      BY <1>10, <2>1 DEF block_wait_boost, Goto
    <3>2. Owed \in Int /\ Owed' = Owed + Part("consume") - Part("boost")
      BY <1>0, <3>1, OwedMoves
    <3> QED
      BY <1>0, <2>1, <3>1, <3>2 DEF Part
  <2>2. CASE ~queue
    <3>1. /\ pc[t] = "boost" /\ pc' = [pc EXCEPT ![t] = "check"]
          /\ queue' = FALSE /\ refs' = refs
      BY <1>10, <2>2 DEF block_wait_boost, Goto
    <3>2. Owed \in Int /\ Owed' = Owed + Part("check") - Part("boost")
      BY <1>0, <3>1, OwedMoves
    <3> QED
      BY <1>0, <2>2, <3>1, <3>2 DEF Part
  <2> QED
    BY <1>0, <2>1, <2>2
<1>11. CASE block_wait_consume(t)
  <2>1. /\ pc[t] = "consume" /\ pc' = [pc EXCEPT ![t] = "check"]
        /\ refs' = refs - 1 /\ queue' = queue
    BY <1>11 DEF block_wait_consume, Goto
  <2>2. Owed \in Int /\ Owed' = Owed + Part("check") - Part("consume")
    BY <1>0, <2>1, OwedMoves
  <2> QED
    BY <1>0, <2>1, <2>2 DEF Part
<1>12. CASE block_wait_check(t)
  <2>1. /\ pc[t] = "check" /\ pc' = [pc EXCEPT ![t] = "group"]
        /\ UNCHANGED <<refs, queue>>
    BY <1>12 DEF block_wait_check, Goto
  <2>2. Owed \in Int /\ Owed' = Owed + Part("group") - Part("check")
    BY <1>0, <2>1, OwedMoves
  <2> QED
    BY <1>0, <2>1, <2>2 DEF Part
<1>13. CASE block_wait_done(t)
  <2>1. /\ pc[t] = "group" /\ pc' = [pc EXCEPT ![t] = "idle"]
        /\ UNCHANGED <<refs, queue>>
    BY <1>13 DEF block_wait_done, Goto
  <2>2. Owed \in Int /\ Owed' = Owed + Part("idle") - Part("group")
    BY <1>0, <2>1, OwedMoves
  <2> QED
    BY <1>0, <2>1, <2>2 DEF Part
<1>14. CASE block_wait_timeout(t)
  <2>1. /\ pc[t] = "group" /\ pc' = [pc EXCEPT ![t] = "idle"]
        /\ UNCHANGED <<refs, queue>>
    BY <1>14 DEF block_wait_timeout, QueueAfterTimeout, Goto
  <2>2. Owed \in Int /\ Owed' = Owed + Part("idle") - Part("group")
    BY <1>0, <2>1, OwedMoves
  <2> QED
    BY <1>0, <2>1, <2>2 DEF Part
<1>15. CASE invoke_direct(t)
  <2>1. /\ pc[t] = "idle" /\ pc' = [pc EXCEPT ![t] = "invoke"]
        /\ UNCHANGED <<refs, queue>>
    BY <1>15 DEF invoke_direct, Start, Goto
  <2>2. Owed \in Int /\ Owed' = Owed + Part("invoke") - Part("idle")
    BY <1>0, <2>1, OwedMoves
  <2> QED
    BY <1>0, <2>1, <2>2 DEF Part
<1>16. CASE dispatch_block_wait(t)
  <2>1. /\ pc[t] = "idle" /\ pc' = [pc EXCEPT ![t] = "boost"]
        /\ UNCHANGED <<refs, queue>>
    BY <1>16 DEF dispatch_block_wait, Start, Goto
  <2>2. Owed \in Int /\ Owed' = Owed + Part("boost") - Part("idle")
    BY <1>0, <2>1, OwedMoves
  <2> QED
    BY <1>0, <2>1, <2>2 DEF Part
<1>17. ASSUME NEW o, Submit(t, o) PROVE refs' = (IF queue' THEN 1 ELSE 0) + Owed'
  <2>1. CASE queue
    <3>1. /\ pc[t] = "idle" /\ pc' = [pc EXCEPT ![t] = "push"]
          /\ UNCHANGED <<refs, queue>>
      BY <1>0, <1>17, <2>1 DEF Submit, Start, Goto
    <3>2. Owed \in Int /\ Owed' = Owed + Part("push") - Part("idle")
      BY <1>0, <3>1, OwedMoves
    <3> QED
      BY <1>0, <2>1, <3>1, <3>2 DEF Part
  <2>2. CASE ~queue
    <3>1. /\ pc[t] = "idle" /\ pc' = [pc EXCEPT ![t] = "retain"]
          /\ queue' = TRUE /\ refs' = refs
      BY <1>0, <1>17, <2>2 DEF Submit, Start, Goto
    <3>2. Owed \in Int /\ Owed' = Owed + Part("retain") - Part("idle")
      BY <1>0, <3>1, OwedMoves
    <3> QED
      BY <1>0, <2>2, <3>1, <3>2 DEF Part
  <2> QED
    BY <1>0, <2>1, <2>2
<1> QED
  BY <1>1, <1>2, <1>3, <1>4, <1>5, <1>6, <1>7, <1>8, <1>9, <1>10, <1>11, <1>12, <1>13, <1>14,
     <1>15, <1>16, <1>17 DEF Moves, Inside

(* So does the client's Block_release, whose destructor takes dbpd_queue.    *)
LEMMA BlockClientStep ==
  ASSUME QueueBalanced,
         ClientRelease \/ dispatch_block_cancel \/ dispatch_block_notify \/ NotifyFires
  PROVE  QueueBalanced'
<1>1. At("release") \in Nat /\ At("consume") \in Nat /\ At("retain") \in Nat
  BY AtNat
<1>2. pc' = pc
  BY DEF ClientRelease, dispatch_block_cancel, dispatch_block_notify, NotifyFires
<1>3. /\ At("release")' = At("release") /\ At("consume")' = At("consume")
      /\ At("retain")' = At("retain")
  BY <1>2 DEF At
<1>4. CASE ClientRelease
  <2>1. CASE brefs = 1
    <3>1. /\ refs' = (IF queue THEN refs - 1 ELSE refs) /\ queue' = FALSE
          /\ left' \in Nat /\ brefs' \in Int
      BY <1>4, <2>1 DEF QueueBalanced, TypeOK, ClientRelease, BlockRelease, LeftByDestructor
    <3>2. refs' \in Int /\ refs' = At("release") + At("consume") - At("retain")
      BY <1>1, <3>1 DEF QueueBalanced, TypeOK
    <3>3. TypeOK'
      BY <1>4, <3>1, <3>2 DEF QueueBalanced, TypeOK, ClientRelease, flagVars, client
    <3> QED
      BY <1>1, <1>3, <3>1, <3>2, <3>3 DEF QueueBalanced
  <2>2. CASE brefs # 1
    BY <1>1, <1>3, <1>4, <2>2
    DEF QueueBalanced, TypeOK, ClientRelease, BlockRelease, flagVars, client
  <2> QED
    BY <2>1, <2>2
<1>5. CASE dispatch_block_cancel
  BY <1>3, <1>5 DEF QueueBalanced, TypeOK, dispatch_block_cancel, flagVars, client
<1>6. CASE dispatch_block_notify
  BY <1>3, <1>6 DEF QueueBalanced, TypeOK, dispatch_block_notify, flagVars, client
<1>7. CASE NotifyFires
  BY <1>3, <1>7 DEF QueueBalanced, TypeOK, NotifyFires, flagVars, client
<1> QED
  BY <1>4, <1>5, <1>6, <1>7

(* The reference that submitting a block object takes on its queue is given  *)
(* back exactly once, by the execution, a wait or the destructor.            *)
THEOREM BlockQueueBalanced == Spec => []QueueBalanced
<1>1. Init => QueueBalanced
  <2> SUFFICES ASSUME Init PROVE QueueBalanced
    OBVIOUS
  <2>1. ASSUME NEW m \in {"release", "consume", "retain"} PROVE At(m) = 0
    <3>1. {t \in Threads : pc[t] = m} = {}
      BY DEF Init
    <3> QED
      BY <3>1, FS_EmptySet DEF At
  <2>2. At("release") = 0 /\ At("consume") = 0 /\ At("retain") = 0
    BY <2>1
  <2> QED
    <3>1. TypeOK
      BY BlockInit
    <3>2. refs = 0 /\ queue = FALSE
      BY DEF Init
    <3> QED
      BY <2>2, <3>1, <3>2 DEF QueueBalanced
<1>2. QueueBalanced /\ [Next]_vars => QueueBalanced'
  <2> SUFFICES ASSUME QueueBalanced, [Next]_vars PROVE QueueBalanced'
    OBVIOUS
  <2>1. ASSUME NEW t \in Threads, Moves(t) PROVE QueueBalanced'
    <3>1. TypeOK'
      BY <2>1, BlockTypeStep DEF QueueBalanced
    <3>2. refs' = (IF queue' THEN 1 ELSE 0) + Owed'
      BY <2>1, BlockBalanceStep
    <3>3. /\ At("release")' \in Nat /\ At("consume")' \in Nat /\ At("retain")' \in Nat
      BY ThreadsAssumption, FS_Subset, FS_CardinalityType DEF At
    <3> QED
      BY <3>1, <3>2, <3>3 DEF QueueBalanced, Owed, TypeOK
  <2>2. CASE UNCHANGED vars
    BY <2>2 DEF vars, flagVars, client, QueueBalanced, TypeOK, At
  <2> QED
    BY <2>1, <2>2, BlockClientStep DEF Next, Moves
<1> QED
  BY <1>1, <1>2, PTL DEF Spec

-----------------------------------------------------------------------------
\* What a thread at its label counts for.
Runs(t)  == IF pc[t] \in {"retain", "push", "invoke", "body", "performed"} THEN 1 ELSE 0
Holds(t) == IF op[t] = "item" \/ (op[t] = "async" /\ pc[t] # "idle") THEN 1 ELSE 0

(* A step of one thread moves no other.                                      *)
LEMMA OthersStay ==
  ASSUME TypeOK, NEW t \in Threads, Moves(t)
  PROVE  \A u \in Threads \ {t} :
           pc'[u] = pc[u] /\ op'[u] = op[u] /\ boosted'[u] = boosted[u]
<1> USE DEF TypeOK, Goto
<1>1. CASE init_slow_retain(t) \/ Push(t) \/ Dequeue(t) \/ invoke_flags(t) \/ invoke_body(t)
  BY <1>1 DEF init_slow_retain, Push, Dequeue, invoke_flags, invoke_body, Start
<1>2. CASE invoke_performed(t) \/ invoke_queue(t) \/ invoke_release(t) \/ invoke_free(t)
  BY <1>2 DEF invoke_performed, invoke_queue, invoke_release, invoke_free
<1>3. CASE \/ block_wait_boost(t) \/ block_wait_consume(t) \/ block_wait_check(t)
           \/ block_wait_done(t) \/ block_wait_timeout(t) \/ dispatch_block_wait(t)
  BY <1>3 DEF block_wait_boost, block_wait_consume, block_wait_check, block_wait_done,
              block_wait_timeout, dispatch_block_wait, Start
<1>4. CASE invoke_direct(t) \/ Submit(t, "async") \/ Submit(t, "sync")
  BY <1>4 DEF invoke_direct, Submit, Start
<1> QED
  BY <1>1, <1>2, <1>3, <1>4 DEF Moves, Inside

(* So the executions on their way and the holders of references change by    *)
(* what the thread that moves counts for.                                    *)
LEMMA CountsMove ==
  ASSUME TypeOK, NEW t \in Threads, Moves(t)
  PROVE  /\ Cardinality(Running) \in Nat /\ Cardinality(Running)' \in Nat
         /\ Cardinality(Running)' = Cardinality(Running) + Runs(t)' - Runs(t)
         /\ Cardinality(Holders) \in Nat /\ Cardinality(Holders)' \in Nat
         /\ Cardinality(Holders)' = Cardinality(Holders) + Holds(t)' - Holds(t)
<1>1. IsFiniteSet(Running) /\ IsFiniteSet(Holders)
  BY ThreadsAssumption, FS_Subset DEF Running, Holders
<1>2. Running \ {t} = Running' \ {t} /\ Holders \ {t} = Holders' \ {t}
  BY OthersStay DEF Running, Holders
<1>3. Cardinality(Running)' = Cardinality(Running') /\ Cardinality(Holders)' = Cardinality(Holders')
  OBVIOUS
<1>4. /\ Cardinality(Running) \in Nat /\ Cardinality(Running') \in Nat
      /\ Cardinality(Running') = Cardinality(Running) + (IF t \in Running' THEN 1 ELSE 0)
                                                      - (IF t \in Running THEN 1 ELSE 0)
  BY <1>1, <1>2, CountMoves
<1>5. /\ Cardinality(Holders) \in Nat /\ Cardinality(Holders') \in Nat
      /\ Cardinality(Holders') = Cardinality(Holders) + (IF t \in Holders' THEN 1 ELSE 0)
                                                      - (IF t \in Holders THEN 1 ELSE 0)
  BY <1>1, <1>2, CountMoves
<1>6. /\ (IF t \in Running THEN 1 ELSE 0) = Runs(t)
      /\ (IF t \in Running' THEN 1 ELSE 0) = Runs(t)'
  BY DEF Runs, Running
<1>7. /\ (IF t \in Holders THEN 1 ELSE 0) = Holds(t)
      /\ (IF t \in Holders' THEN 1 ELSE 0) = Holds(t)'
  BY DEF Holds, Holders
<1> QED
  BY <1>3, <1>4, <1>5, <1>6, <1>7

(* Whoever is counted makes the count positive.                              *)
LEMMA CountedOnce ==
  ASSUME NEW t \in Threads
  PROVE  /\ Cardinality(Running) \in Nat /\ Cardinality(Holders) \in Nat
         /\ t \in Running => Cardinality(Running) > 0
         /\ t \in Holders => Cardinality(Holders) > 0
<1>1. IsFiniteSet(Running) /\ IsFiniteSet(Holders)
  BY ThreadsAssumption, FS_Subset DEF Running, Holders
<1> QED
  BY <1>1, FS_EmptySet, FS_CardinalityType

(* The call a thread is in says where it can be.                             *)
LEMMA LabelsStep ==
  ASSUME TypeOK, Labels, NEW t \in Threads, Moves(t)
  PROVE  Labels'
<1> USE DEF TypeOK, Goto, Labels
<1>1. CASE init_slow_retain(t) \/ Push(t) \/ Dequeue(t) \/ invoke_flags(t) \/ invoke_body(t)
  BY <1>1 DEF init_slow_retain, Push, Dequeue, invoke_flags, invoke_body, Start
<1>2. CASE invoke_performed(t) \/ invoke_queue(t) \/ invoke_release(t) \/ invoke_free(t)
  BY <1>2 DEF invoke_performed, invoke_queue, invoke_release, invoke_free
<1>3. CASE \/ block_wait_boost(t) \/ block_wait_consume(t) \/ block_wait_check(t)
           \/ block_wait_done(t) \/ block_wait_timeout(t) \/ dispatch_block_wait(t)
  BY <1>3 DEF block_wait_boost, block_wait_consume, block_wait_check, block_wait_done,
              block_wait_timeout, dispatch_block_wait, Start
<1>4. CASE invoke_direct(t) \/ Submit(t, "async") \/ Submit(t, "sync")
  BY <1>4 DEF invoke_direct, Submit, Start
<1> QED
  BY <1>1, <1>2, <1>3, <1>4 DEF Moves, Inside

(* Every execution that was begun is queued, on its way or performed.        *)
LEMMA ExecutionsStep ==
  ASSUME TypeOK, Labels, ExecutionsAddUp, NEW t \in Threads, Moves(t)
  PROVE  ExecutionsAddUp'
<1> DEFINE r == Cardinality(Running)
<1>1. r \in Nat /\ r' \in Nat /\ r' = r + Runs(t)' - Runs(t)
  BY CountsMove
<1>2. performed + pending + r = execs
  BY DEF ExecutionsAddUp
<1> HIDE DEF r
<1> SUFFICES performed' + pending' + r' = execs'
  BY DEF ExecutionsAddUp, r
<1> USE <1>1, <1>2 DEF TypeOK, Labels, Runs, Goto
<1>3. CASE init_slow_retain(t) \/ Push(t) \/ Dequeue(t) \/ invoke_flags(t) \/ invoke_body(t)
  BY <1>3 DEF init_slow_retain, Push, Dequeue, invoke_flags, invoke_body, Start, client
<1>4. CASE invoke_performed(t) \/ invoke_queue(t) \/ invoke_release(t) \/ invoke_free(t)
  BY <1>4 DEF invoke_performed, invoke_queue, invoke_release, invoke_free, client
<1>5. CASE \/ block_wait_boost(t) \/ block_wait_consume(t) \/ block_wait_check(t)
           \/ block_wait_done(t) \/ block_wait_timeout(t) \/ dispatch_block_wait(t)
  BY <1>5 DEF block_wait_boost, block_wait_consume, block_wait_check, block_wait_done,
              block_wait_timeout, dispatch_block_wait, Start, client
<1>6. CASE invoke_direct(t) \/ Submit(t, "async") \/ Submit(t, "sync")
  BY <1>6 DEF invoke_direct, Submit, Start, client
<1> QED
  BY <1>3, <1>4, <1>5, <1>6 DEF Moves, Inside

\* The client's own reference, 1 or 0.
Owner == brefs - pending - Cardinality(Holders)

(* A thread passes references on without losing or inventing one, and calls  *)
(* on the client's behalf only while the client has its own.                 *)
LEMMA ReferencesStep ==
  ASSUME TypeOK, Labels, ReferencesAddUp, NEW t \in Threads, Moves(t)
  PROVE  ReferencesAddUp'
<1> DEFINE h == Cardinality(Holders)
<1>1. h \in Nat /\ h' \in Nat /\ h' = h + Holds(t)' - Holds(t)
  BY CountsMove
<1>2. Owner = brefs - pending - h /\ Owner' = brefs' - pending' - h'
  BY DEF Owner
<1>3. ClientRef => brefs > pending + h
  BY DEF ClientRef, Holders
<1> HIDE DEF h
<1>4. Owner \in {0, 1} /\ ((\E u \in Threads : ClientCall(u)) => Owner = 1)
  BY DEF Owner, ReferencesAddUp
<1>5. Owner' = Owner
  <2> USE <1>1, <1>2 DEF TypeOK, Labels, Holds, Goto
  <2>1. CASE init_slow_retain(t)
    BY <2>1 DEF init_slow_retain
  <2>8. CASE invoke_flags(t)
    BY <2>8 DEF invoke_flags
  <2>9. CASE invoke_body(t)
    BY <2>9 DEF invoke_body
  <2>6. CASE Push(t)
    BY <2>6 DEF Push
  <2>7. CASE Dequeue(t)
    BY <2>7 DEF Dequeue, Start
  <2>2. CASE invoke_performed(t) \/ invoke_queue(t) \/ invoke_release(t)
    BY <2>2 DEF invoke_performed, invoke_queue, invoke_release, client
  <2>3. CASE invoke_free(t)
    BY <2>3 DEF invoke_free, BlockRelease
  <2>4. CASE \/ block_wait_boost(t) \/ block_wait_consume(t) \/ block_wait_check(t)
             \/ block_wait_done(t) \/ block_wait_timeout(t) \/ dispatch_block_wait(t)
    BY <2>4 DEF block_wait_boost, block_wait_consume, block_wait_check, block_wait_done,
                block_wait_timeout, dispatch_block_wait, Start, client
  <2>5. CASE invoke_direct(t) \/ Submit(t, "async") \/ Submit(t, "sync")
    BY <2>5 DEF invoke_direct, Submit, Start, client
  <2> QED
    BY <2>1, <2>2, <2>3, <2>4, <2>5, <2>6, <2>7, <2>8, <2>9 DEF Moves, Inside
<1>6. ASSUME NEW u \in Threads, ClientCall(u)' PROVE ClientCall(u) \/ ClientRef
  <2>1. CASE u # t
    BY <1>6, <2>1, OthersStay DEF ClientCall
  <2>2. CASE u = t
    <3> USE <1>6, <2>2 DEF TypeOK, Labels, ClientCall, Goto
    <3>1. CASE init_slow_retain(t) \/ Push(t) \/ Dequeue(t) \/ invoke_flags(t) \/ invoke_body(t)
      BY <3>1 DEF init_slow_retain, Push, Dequeue, invoke_flags, invoke_body, Start
    <3>2. CASE invoke_performed(t) \/ invoke_queue(t) \/ invoke_release(t) \/ invoke_free(t)
      BY <3>2 DEF invoke_performed, invoke_queue, invoke_release, invoke_free
    <3>3. CASE \/ block_wait_boost(t) \/ block_wait_consume(t) \/ block_wait_check(t)
               \/ block_wait_done(t) \/ block_wait_timeout(t)
      BY <3>3 DEF block_wait_boost, block_wait_consume, block_wait_check,
                  block_wait_done, block_wait_timeout
    <3>4. CASE dispatch_block_wait(t) \/ invoke_direct(t) \/ Submit(t, "async") \/ Submit(t, "sync")
      BY <3>4 DEF dispatch_block_wait, invoke_direct, Submit
    <3> QED
      BY <3>1, <3>2, <3>3, <3>4 DEF Moves, Inside
  <2> QED
    BY <2>1, <2>2
<1>7. ClientRef => Owner = 1
  BY <1>1, <1>2, <1>3, <1>4 DEF TypeOK
<1> QED
  BY <1>4, <1>5, <1>6, <1>7 DEF ReferencesAddUp, Owner

(* A block object is alive while a call or a continuation holds it, and a     *)
(* thread that is waiting or executing is one of the executions begun.       *)
LEMMA AliveInside ==
  ASSUME CompletionInv, NEW t \in Threads
  PROVE  /\ op[t] # "none" => brefs > 0
         /\ ClientRef => brefs > 0
         /\ pc[t] \in {"retain", "push", "invoke", "body", "performed"} =>
              performed + pending < execs
         /\ performed =< execs
<1>1. /\ Cardinality(Running) \in Nat /\ Cardinality(Holders) \in Nat
      /\ t \in Running => Cardinality(Running) > 0
      /\ t \in Holders => Cardinality(Holders) > 0
  BY CountedOnce
<1>2. ClientRef => brefs > pending + Cardinality(Holders)
  BY DEF ClientRef, Holders
<1>3. op[t] # "none" => t \in Holders \/ ClientCall(t)
  BY DEF ClientCall, Holders, CompletionInv, TypeOK
<1>4. /\ brefs - pending - Cardinality(Holders) \in {0, 1}
      /\ ClientCall(t) => brefs - pending - Cardinality(Holders) = 1
  BY DEF CompletionInv, ReferencesAddUp
<1>5. performed + pending + Cardinality(Running) = execs
  BY DEF CompletionInv, ExecutionsAddUp
<1>6. brefs \in Int /\ pending \in Nat /\ performed \in Nat /\ execs \in Nat
  BY DEF CompletionInv, TypeOK
<1>7. op[t] # "none" => brefs > 0
  BY <1>1, <1>3, <1>4, <1>6
<1>8. ClientRef => brefs > 0
  BY <1>1, <1>2, <1>6
<1>9. /\ pc[t] \in {"retain", "push", "invoke", "body", "performed"} =>
            performed + pending < execs
      /\ performed =< execs
  BY <1>1, <1>5, <1>6 DEF Running
<1> QED
  BY <1>7, <1>8, <1>9

(* The group is left by the first execution, or by the destructor.           *)
LEMMA LeftStep ==
  ASSUME CompletionInv, NEW t \in Threads, Moves(t)
  PROVE  LeftAsPerformed'
<1> USE DEF CompletionInv, LeftAsPerformed, TypeOK
<1>1. CASE init_slow_retain(t) \/ Push(t) \/ Dequeue(t) \/ invoke_flags(t) \/ invoke_body(t)
  BY <1>1 DEF init_slow_retain, Push, Dequeue, invoke_flags, invoke_body
<1>2. CASE invoke_queue(t) \/ invoke_release(t) \/ invoke_direct(t)
  BY <1>2 DEF invoke_queue, invoke_release, invoke_direct
<1>3. CASE \/ block_wait_boost(t) \/ block_wait_consume(t) \/ block_wait_check(t)
           \/ block_wait_done(t) \/ block_wait_timeout(t) \/ dispatch_block_wait(t)
  BY <1>3 DEF block_wait_boost, block_wait_consume, block_wait_check, block_wait_done,
              block_wait_timeout, dispatch_block_wait
<1>4. CASE invoke_performed(t)
  <2>1. op[t] # "none" /\ brefs > 0
    BY <1>4, AliveInside DEF invoke_performed, Labels
  <2> QED
    BY <1>4, <2>1 DEF invoke_performed, Leaves
<1>5. CASE invoke_free(t)
  <2>1. brefs > 0
    BY <1>5, AliveInside DEF invoke_free, Labels
  <2> QED
    BY <1>5, <2>1 DEF invoke_free, BlockRelease, LeftByDestructor
<1>6. ASSUME NEW o, Submit(t, o) PROVE LeftAsPerformed'
  BY <1>6, AliveInside DEF Submit
<1> QED
  BY <1>1, <1>2, <1>3, <1>4, <1>5, <1>6 DEF Moves, Inside

(* A block object that somebody waits for or observes is executed once, and  *)
(* a wait that ends by completion saw that execution end.                    *)
LEMMA ObservedStep ==
  ASSUME CompletionInv, NEW t \in Threads, Moves(t)
  PROVE  ObservedOnce'
<1> USE DEF CompletionInv, ObservedOnce, TypeOK, Goto
<1>1. CASE init_slow_retain(t) \/ invoke_flags(t) \/ invoke_body(t)
  BY <1>1 DEF init_slow_retain, invoke_flags, invoke_body, flagVars, client
<1>2. CASE Push(t)
  BY <1>2 DEF Push, flagVars, client, Labels
<1>3. CASE Dequeue(t)
  BY <1>3 DEF Dequeue, Start, flagVars, client, Labels
<1>4. CASE invoke_performed(t)
  <2>1. ~waited
    BY <1>4, AliveInside DEF invoke_performed
  <2> QED
    BY <1>4, <2>1 DEF invoke_performed, flagVars, client, Labels
<1>5. CASE invoke_queue(t) \/ invoke_release(t)
  BY <1>5 DEF invoke_queue, invoke_release, flagVars, client
<1>6. CASE invoke_free(t)
  BY <1>6 DEF invoke_free, flagVars, client, Labels
<1>7. CASE block_wait_boost(t) \/ block_wait_consume(t) \/ block_wait_check(t)
  BY <1>7 DEF block_wait_boost, block_wait_consume, block_wait_check, flagVars, client
<1>8. CASE block_wait_done(t)
  <2>1. op[t] = "wait" /\ brefs > 0 /\ performed =< execs
    BY <1>8, AliveInside DEF block_wait_done, Labels
  <2>2. observed /\ performed = 1
    BY <1>8, <2>1 DEF block_wait_done, Completed, LeftAsPerformed
  <2> QED
    BY <1>8, <2>2 DEF block_wait_done, client
<1>9. CASE block_wait_timeout(t)
  BY <1>9 DEF block_wait_timeout, WaitingAfterTimeout, client
<1>10. CASE dispatch_block_wait(t)
  BY <1>10 DEF dispatch_block_wait, Start, MayObserve
<1>11. CASE invoke_direct(t)
  BY <1>11 DEF invoke_direct, Start, MayExecute, flagVars, Labels
<1>12. ASSUME NEW o \in {"async", "sync"}, Submit(t, o) PROVE ObservedOnce'
  BY <1>12 DEF Submit, Start, MayExecute, flagVars, Labels
<1> QED
  BY <1>1, <1>2, <1>3, <1>4, <1>5, <1>6, <1>7, <1>8, <1>9, <1>10, <1>11, <1>12
  DEF Moves, Inside

(* A block object that was executed once was either called or submitted.     *)
LEMMA OneWayStep ==
  ASSUME CompletionInv, NEW t \in Threads, Moves(t)
  PROVE  ExecutedOneWay'
<1> USE DEF CompletionInv, ExecutedOneWay, Called, Submitted, TypeOK, Goto
<1>1. CASE init_slow_retain(t) \/ invoke_body(t)
  BY <1>1 DEF init_slow_retain, invoke_body, client
<1>2. CASE invoke_flags(t)
  BY <1>2 DEF invoke_flags, client
<1>3. CASE Push(t) \/ Dequeue(t)
  BY <1>3 DEF Push, Dequeue, Start, client
<1>4. CASE invoke_performed(t)
  BY <1>4 DEF invoke_performed, client
<1>5. CASE invoke_queue(t) \/ invoke_release(t) \/ invoke_free(t)
  BY <1>5 DEF invoke_queue, invoke_release, invoke_free, BlockRelease, client
<1>6. CASE block_wait_boost(t)
  BY <1>6 DEF block_wait_boost, client
<1>7. CASE block_wait_consume(t) \/ block_wait_check(t)
  BY <1>7 DEF block_wait_consume, block_wait_check, client
<1>8. CASE block_wait_done(t) \/ block_wait_timeout(t)
  BY <1>8 DEF block_wait_done, block_wait_timeout, QueueAfterTimeout, client
<1>9. CASE dispatch_block_wait(t)
  BY <1>9 DEF dispatch_block_wait, Start
<1>10. CASE invoke_direct(t)
  BY <1>10 DEF invoke_direct, Start
<1>11. ASSUME NEW o \in {"async", "sync"}, Submit(t, o) PROVE ExecutedOneWay'
  BY <1>11 DEF Submit, Start
<1> QED
  BY <1>1, <1>2, <1>3, <1>4, <1>5, <1>6, <1>7, <1>8, <1>9, <1>10, <1>11
  DEF Moves, Inside

(* None of the traps is met.                                                 *)
LEMMA NoCrashStep ==
  ASSUME CompletionInv, NEW t \in Threads, Moves(t)
  PROVE  ~crashed'
<1> USE DEF CompletionInv, TypeOK
<1>1. CASE invoke_flags(t)
  <2>1. performed + pending < execs
    BY <1>1, AliveInside DEF invoke_flags
  <2> QED
    BY <1>1, <2>1 DEF invoke_flags, ObservedOnce
<1>2. CASE block_wait_check(t)
  <2>1. op[t] = "wait" /\ performed =< execs
    BY <1>2, AliveInside DEF block_wait_check, Labels
  <2> QED
    BY <1>2, <2>1 DEF block_wait_check, ObservedOnce, ExecutedOneWay, Called, Submitted
<1>3. CASE dispatch_block_wait(t)
  BY <1>3 DEF dispatch_block_wait, ObservedOnce
<1>4. CASE init_slow_retain(t) \/ Push(t) \/ Dequeue(t) \/ invoke_body(t) \/ invoke_performed(t)
  BY <1>4 DEF init_slow_retain, Push, Dequeue, invoke_body, invoke_performed
<1>5. CASE invoke_queue(t) \/ invoke_release(t) \/ invoke_free(t) \/ invoke_direct(t)
  BY <1>5 DEF invoke_queue, invoke_release, invoke_free, invoke_direct
<1>6. CASE \/ block_wait_boost(t) \/ block_wait_consume(t)
           \/ block_wait_done(t) \/ block_wait_timeout(t)
  BY <1>6 DEF block_wait_boost, block_wait_consume, block_wait_done, block_wait_timeout
<1>7. ASSUME NEW o, Submit(t, o) PROVE ~crashed'
  BY <1>7 DEF Submit
<1> QED
  BY <1>1, <1>2, <1>3, <1>4, <1>5, <1>6, <1>7 DEF Moves, Inside

(* The client's release, its cancel and its notify, and the notifications,   *)
(* move no thread.                                                           *)
LEMMA CompletionClientStep ==
  ASSUME CompletionInv,
         ClientRelease \/ dispatch_block_cancel \/ dispatch_block_notify \/ NotifyFires
  PROVE  CompletionInv'
<1>1. Cardinality(Holders) \in Nat /\ Cardinality(Running) \in Nat
  BY ThreadsAssumption, FS_Subset, FS_CardinalityType DEF Holders, Running
<1>2. UNCHANGED <<pc, op, performed, pending, thread, boosted, waiting, waited, execs>>
  BY DEF ClientRelease, dispatch_block_cancel, dispatch_block_notify, NotifyFires,
         flagVars, client
<1>3. Labels' /\ ExecutionsAddUp'
  BY <1>2 DEF CompletionInv, Labels, ExecutionsAddUp, Running
<1>4. ClientRef => brefs > pending + Cardinality(Holders)
  BY DEF ClientRef, Holders
<1>5. Holders' = Holders /\ \A t \in Threads : ClientCall(t)' <=> ClientCall(t)
  BY <1>2 DEF Holders, ClientCall
<1>6. CASE ClientRelease
  <2>1. brefs > pending + Cardinality(Holders) /\ ~(\E t \in Threads : ClientCall(t))
    BY <1>4, <1>6 DEF ClientRelease
  <2>2. /\ brefs' = brefs - 1
        /\ brefs = 1 => left' = LeftByDestructor /\ queue' = FALSE
                        /\ refs' = IF queue THEN refs - 1 ELSE refs
        /\ brefs # 1 => UNCHANGED <<left, refs, queue>>
        /\ UNCHANGED <<canceled, observed, waits, notes, fired, crashed>>
    BY <1>6 DEF ClientRelease, BlockRelease, flagVars, client
  <2>3. ReferencesAddUp'
    <3>1. Cardinality(Holders)' = Cardinality(Holders) /\ brefs \in Int /\ pending \in Nat
      BY <1>5 DEF CompletionInv, TypeOK
    <3>2. brefs' - pending' - Cardinality(Holders)' = 0
      BY <1>1, <1>2, <2>1, <2>2, <3>1 DEF CompletionInv, ReferencesAddUp
    <3> QED
      BY <1>5, <2>1, <3>2 DEF ReferencesAddUp
  <2>4. LeftAsPerformed' /\ left' \in Nat /\ refs' \in Int /\ queue' \in BOOLEAN /\ brefs' \in Int
    <3>1. /\ brefs \in Int /\ brefs > 0 /\ left \in Nat /\ refs \in Int /\ queue \in BOOLEAN
          /\ performed \in Nat /\ left = IF performed > 0 THEN 1 ELSE 0
      BY <1>1, <2>1 DEF CompletionInv, LeftAsPerformed, TypeOK
    <3>2. CASE brefs = 1
      <4>1. left' = (IF performed = 0 THEN left + 1 ELSE left) /\ brefs' = 0
        BY <2>2, <3>2 DEF LeftByDestructor
      <4>2. left' = 1
        BY <3>1, <4>1
      <4>3. refs' \in Int
        BY <2>2, <3>1, <3>2
      <4>4. queue' \in BOOLEAN
        BY <2>2, <3>2, Zenon
      <4>5. LeftAsPerformed' /\ left' \in Nat /\ brefs' \in Int
        BY <4>1, <4>2 DEF LeftAsPerformed
      <4> QED
        BY <4>3, <4>4, <4>5
    <3>3. CASE brefs # 1
      BY <1>2, <2>2, <3>1, <3>3 DEF LeftAsPerformed
    <3> QED
      BY <3>2, <3>3
  <2>5. TypeOK'
    BY <1>2, <2>2, <2>4, Zenon DEF CompletionInv, TypeOK
  <2>6. ObservedOnce' /\ ExecutedOneWay'
    BY <1>2, <2>2 DEF CompletionInv, ObservedOnce, ExecutedOneWay, Called, Submitted
  <2> QED
    BY <1>3, <2>2, <2>3, <2>4, <2>5, <2>6 DEF CompletionInv
<1>7. CASE dispatch_block_cancel \/ dispatch_block_notify \/ NotifyFires
  <2>1. UNCHANGED <<brefs, left, queue, refs, waits>>
    BY <1>7 DEF dispatch_block_cancel, dispatch_block_notify, NotifyFires, client
  <2>2. TypeOK'
    <3>1. /\ canceled' \in BOOLEAN /\ notes' \in Nat /\ fired' \in Nat
          /\ observed' \in BOOLEAN /\ crashed' \in BOOLEAN
      <4> USE DEF CompletionInv, TypeOK, flagVars, client
      <4>1. CASE dispatch_block_cancel
        BY <4>1 DEF dispatch_block_cancel
      <4>2. CASE dispatch_block_notify
        BY <4>2 DEF dispatch_block_notify
      <4>3. CASE NotifyFires
        BY <4>3 DEF NotifyFires
      <4> QED
        BY <1>7, <4>1, <4>2, <4>3
    <3> QED
      BY <1>2, <2>1, <3>1, Zenon DEF CompletionInv, TypeOK
  <2>3. ReferencesAddUp' /\ LeftAsPerformed' /\ ExecutedOneWay'
    BY <1>2, <1>5, <2>1 DEF CompletionInv, ReferencesAddUp, LeftAsPerformed, ExecutedOneWay,
                            Called, Submitted
  <2>4. CASE dispatch_block_notify
    <3>1. performed =< 1
      BY <1>1, <2>4 DEF dispatch_block_notify, MayObserve, CompletionInv, ExecutionsAddUp, TypeOK
    <3>2. observed' = TRUE /\ execs =< 1 /\ crashed' = FALSE
      BY <2>4, <3>1 DEF dispatch_block_notify, MayObserve, CompletionInv, TypeOK
    <3>3. ObservedOnce'
      BY <1>2, <3>2 DEF CompletionInv, ObservedOnce
    <3> QED
      BY <1>3, <2>2, <2>3, <3>2, <3>3 DEF CompletionInv
  <2>5. CASE dispatch_block_cancel \/ NotifyFires
    <3>1. UNCHANGED <<observed, crashed>>
      BY <2>5 DEF dispatch_block_cancel, NotifyFires, client
    <3>2. ObservedOnce'
      BY <1>2, <3>1 DEF CompletionInv, ObservedOnce
    <3> QED
      BY <1>3, <2>2, <2>3, <3>1, <3>2 DEF CompletionInv
  <2> QED
    BY <1>7, <2>4, <2>5
<1> QED
  BY <1>6, <1>7

(* However submissions, direct calls, cancels, waits with timeouts,          *)
(* notifications and releases of a block object meet: its group is left once,*)
(* by the first execution or by the destructor, a wait that succeeds saw the *)
(* execution end, and a client that keeps to the rules meets no trap.        *)
THEOREM BlockCompletionSound == Spec => []CompletionSound
<1>1. Init => CompletionInv
  <2> SUFFICES ASSUME Init PROVE CompletionInv
    OBVIOUS
  <2>1. TypeOK
    BY BlockInit
  <2>2. Running = {} /\ Holders = {}
    BY DEF Init, Running, Holders
  <2>3. Cardinality(Running) = 0 /\ Cardinality(Holders) = 0
    BY <2>2, FS_EmptySet
  <2>4. Labels
    BY DEF Init, Labels
  <2>5. ExecutionsAddUp /\ ReferencesAddUp
    BY <2>3 DEF Init, ExecutionsAddUp, ReferencesAddUp, ClientCall
  <2>6. LeftAsPerformed /\ ObservedOnce /\ ~crashed
    BY DEF Init, LeftAsPerformed, ObservedOnce
  <2>7. ExecutedOneWay
    BY DEF Init, ExecutedOneWay, Called, Submitted
  <2> QED
    BY <2>1, <2>4, <2>5, <2>6, <2>7 DEF CompletionInv
<1>2. CompletionInv /\ [Next]_vars => CompletionInv'
  <2> SUFFICES ASSUME CompletionInv, [Next]_vars PROVE CompletionInv'
    OBVIOUS
  <2>1. ASSUME NEW t \in Threads, Moves(t) PROVE CompletionInv'
    <3>1. TypeOK /\ Labels /\ ExecutionsAddUp /\ ReferencesAddUp
      BY DEF CompletionInv
    <3>2. TypeOK' /\ Labels' /\ ExecutionsAddUp' /\ ReferencesAddUp'
      BY <2>1, <3>1, BlockTypeStep, LabelsStep, ExecutionsStep, ReferencesStep
    <3>3. LeftAsPerformed' /\ ObservedOnce' /\ ExecutedOneWay' /\ ~crashed'
      BY <2>1, LeftStep, ObservedStep, OneWayStep, NoCrashStep
    <3> QED
      BY <3>2, <3>3 DEF CompletionInv
  <2>2. CASE UNCHANGED vars
    BY <2>2 DEF vars, flagVars, client, CompletionInv, TypeOK, Labels, ExecutionsAddUp,
                ReferencesAddUp, LeftAsPerformed, ObservedOnce, ExecutedOneWay, Called,
                Submitted, Running, Holders, ClientCall
  <2> QED
    BY <2>1, <2>2, CompletionClientStep DEF Next, Moves
<1>3. CompletionInv => CompletionSound
  <2> SUFFICES ASSUME CompletionInv PROVE CompletionSound
    OBVIOUS
  <2>1. LeftOnce
    BY DEF CompletionInv, LeftAsPerformed, LeftOnce
  <2>2. ASSUME waited PROVE performed = 1 /\ At("body") = 0
    <3>1. performed = 1 /\ execs =< 1 /\ execs \in Nat
      BY <2>2 DEF CompletionInv, ObservedOnce, TypeOK
    <3>2. \A t \in Threads : pc[t] # "body"
      BY <3>1, AliveInside DEF CompletionInv, TypeOK
    <3>3. {t \in Threads : pc[t] = "body"} = {}
      BY <3>2
    <3> QED
      BY <3>1, <3>3, FS_EmptySet DEF At
  <2> QED
    BY <2>1, <2>2 DEF CompletionSound, WaitMeansDone, LegalUseNeverCrashes, CompletionInv
<1> QED
  BY <1>1, <1>2, <1>3, PTL DEF Spec

(*-------------------------------- downloads -------------------------------*)
(* The inductive invariant of a download, whatever the user taps and when.   *)
States == {"unused", "running", "cancelled", "finished", "failed", "over"}
Spots  == {"idle", "insert", "pause", "resume", "cancel", "remove", "reload", "configure"}
Typed ==
  /\ active \in 0..MaxTasks
  /\ dataTask \in [Task -> 0..MaxTasks] /\ resumeData \in [Task -> 0..Size]
  /\ isDownloading \in [Task -> BOOLEAN]
  /\ state \in [Task -> States] /\ got \in [Task -> 0..Size]
  /\ handlers \subseteq Task \X (0..Size)
  /\ main \in [at : Spots, download : 0..MaxTasks]
  /\ callback \in [at : {"idle", "clear", "copy", "post"}, task : 0..MaxTasks,
                   download : 0..MaxTasks]
  /\ reloads \in Nat /\ downloaded \in BOOLEAN /\ unseen \in BOOLEAN
  /\ hurried \subseteq Task

\* Tasks are handed out in order, and each belongs to one Download, which is named
\* after the first of them.
Used == {k \in Task : state[k] # "unused"}
Tasks ==
  /\ Used = 1..Cardinality(Used)
  /\ \A d \in Task : dataTask[d] # None => state[d] # "unused" /\ state[dataTask[d]] # "unused"
  /\ \A d, e \in Task : dataTask[d] # None /\ dataTask[d] = dataTask[e] => d = e
  /\ \A d \in Task : isDownloading[d] \/ Expects(d) => dataTask[d] # None
  /\ active # None => dataTask[active] # None
  /\ callback.at # "idle" => callback.task \in Task /\ state[callback.task] = "over"

\* What the main thread found is in the table, unless a finish took it since.
Mains ==
  /\ main.at = "insert" =>
       /\ active = None /\ main.download # None /\ dataTask[main.download] = main.download
       /\ isDownloading[main.download] /\ state[main.download] # "cancelled"
  /\ main.at \in {"pause", "resume", "cancel", "remove"} =>
       main.download # None /\ dataTask[main.download] # None
  /\ main.at \in {"pause", "resume", "cancel", "remove", "configure"} =>
       active \in {main.download, None}
  /\ main.at = "resume" => ~isDownloading[main.download] /\ NewTask \in Task
  /\ main.at = "remove" => state[dataTask[main.download]] # "running"

\* The buttons fit the Download in the table if there is one; if there is none any
\* more, the row will be reloaded or the finish had seen none.
Coming == reloads > 0 \/ (callback.at \in {"copy", "post"} /\ callback.download # None) \/ unseen
Rows ==
  /\ main.at = "idle" => /\ active # None => cell = Buttons(active)
                         /\ cell = Buttons(active) \/ Coming
  /\ main.at = "configure" => main.download = active \/ Coming

\* A paused Download runs no task, and its data are on their way or there; one that
\* was cancelled is not touched again.
Kept(d) == /\ \A h \in handlers : h[1] = d => h[2] = got[dataTask[d]]
           /\ Expects(d) \/ resumeData[d] = got[dataTask[d]]
PausedRight(d) ==
  /\ isDownloading[d] /\ Expects(d) => d \in hurried
  /\ ~isDownloading[d] => state[dataTask[d]] # "running"
  /\ ~isDownloading[d] /\ state[dataTask[d]] = "cancelled" /\ d \notin hurried => Kept(d)
  /\ isDownloading[d] /\ state[dataTask[d]] = "cancelled" =>
       /\ active = d => main.at = "remove"
       /\ main.download = d => main.at \notin {"insert", "pause", "resume", "cancel"}
Pauses == \A d \in Task : dataTask[d] # None => PausedRight(d)

TrackInv == Typed /\ Tasks /\ Mains /\ Rows /\ Pauses

(* The session hands out its tasks in order, each one once.                  *)
LEMMA NewTaskIs ==
  ASSUME Typed, Tasks
  PROVE  /\ NewTask \in Nat \ {0}
         /\ \A k \in Task : state[k] # "unused" <=> k < NewTask
<1> DEFINE n == Cardinality(Used)
<1>1. IsFiniteSet(Task) /\ Used \subseteq Task
  BY SongAssumption, FS_Interval DEF Task, Used
<1>2. n \in Nat
  BY <1>1, FS_Subset, FS_CardinalityType
<1>3. NewTask = n + 1 /\ Used = 1..n
  BY DEF NewTask, Tasks, Used
<1> HIDE DEF n
<1>4. \A k \in Task : state[k] # "unused" <=> k \in 1..n
  BY <1>3 DEF Used
<1> QED
  BY <1>2, <1>3, <1>4, SongAssumption DEF Task

(* A task that is created is the next one, and the only new one.             *)
LEMMA Created ==
  ASSUME Typed, Tasks, NewTask \in Task, NEW o \in 0..Size, Resume(o)
  PROVE  /\ state[NewTask] = "unused" /\ NewTask # None /\ dataTask[NewTask] = None
         /\ \A d \in Task : dataTask[d] # NewTask
         /\ state' \in [Task -> States] /\ got' \in [Task -> 0..Size]
         /\ state'[NewTask] = "running" /\ got'[NewTask] = o
         /\ \A k \in Task : k # NewTask => state'[k] = state[k] /\ got'[k] = got[k]
         /\ Used' = 1..Cardinality(Used')
<1> DEFINE m == NewTask
<1>1. m \in Nat \ {0} /\ \A k \in Task : state[k] # "unused" <=> k < m
  BY NewTaskIs
<1>2. /\ state' = [state EXCEPT ![m] = "running"] /\ got' = [got EXCEPT ![m] = o]
      /\ m \in Task
  BY DEF Resume
<1> HIDE DEF m
<1>3. /\ state[m] = "unused" /\ m # None
      /\ state' \in [Task -> States] /\ got' \in [Task -> 0..Size]
      /\ state'[m] = "running" /\ got'[m] = o
      /\ \A k \in Task : k # m => state'[k] = state[k] /\ got'[k] = got[k]
  BY <1>1, <1>2 DEF Typed, States, None
<1>4. \A k \in Task : state'[k] # "unused" <=> k <= m
  <2> TAKE k \in Task
  <2>1. CASE k = m
    BY <1>1, <1>3, <2>1
  <2>2. CASE k # m
    BY SMTT(60), <1>1, <1>3, <2>2, SongAssumption DEF Task
  <2> QED
    BY <2>1, <2>2
<1>5. Used' = {k \in Task : k <= m}
  BY <1>4 DEF Used
<1>6. Used' = 1..m
  BY <1>1, <1>2, <1>5, SongAssumption DEF Task
<1>7. Cardinality(1..m) = m
  BY <1>1, FS_Interval
<1>8. dataTask[m] = None /\ \A d \in Task : dataTask[d] # m
  BY <1>2, <1>3 DEF Tasks, None
<1> QED
  BY <1>3, <1>6, <1>7, <1>8 DEF m

(* A step that creates no task leaves the used ones used.                    *)
LEMMA UsedStays ==
  ASSUME Tasks, \A k \in Task : state'[k] = "unused" <=> state[k] = "unused"
  PROVE  Used' = 1..Cardinality(Used') /\ NewTask' = NewTask
<1>1. Used' = Used
  BY DEF Used
<1>2. NewTask = Cardinality(Used) + 1 /\ NewTask' = Cardinality(Used') + 1
  BY DEF NewTask, Used
<1> QED
  BY <1>1, <1>2 DEF Tasks

(* cancel() stops a task that runs, and no other.                            *)
LEMMA Cancelled ==
  ASSUME Typed, NEW j \in Task, Cancel(j)
  PROVE  /\ state' \in [Task -> States]
         /\ state'[j] = (IF state[j] = "running" THEN "cancelled" ELSE state[j])
         /\ \A k \in Task : k # j => state'[k] = state[k]
BY DEF Typed, Cancel, States

(* What each tap does to the Download it found.                              *)
LEMMA Started ==
  ASSUME Typed, Tasks, downloadTapped
  PROVE  /\ NewTask \in Task /\ NewTask # None /\ 0 \in 0..Size /\ Resume(0)
         /\ dataTask' = [dataTask EXCEPT ![NewTask] = NewTask]
         /\ isDownloading' = [isDownloading EXCEPT ![NewTask] = TRUE]
         /\ main' = [at |-> "insert", download |-> NewTask]
         /\ main.at = "idle" /\ cell = "download"
         /\ UNCHANGED <<active, resumeData, handlers, callback, view, noted>>
BY SongAssumption DEF downloadTapped, Task, None

LEMMA Paused ==
  ASSUME Typed, Tasks, Mains, pauseDownload
  PROVE  /\ main.at = "pause" /\ main' = [main EXCEPT !.at = "reload"]
         /\ main.download \in Task /\ dataTask[main.download] \in Task
         /\ UNCHANGED <<active, dataTask, resumeData, got, callback, view, noted>>
         /\ \/ ~isDownloading[main.download] /\ UNCHANGED <<state, handlers, isDownloading>>
            \/ /\ isDownloading[main.download]
               /\ Cancel(dataTask[main.download])
               /\ handlers' = handlers \cup {<<main.download, DataOf(dataTask[main.download])>>}
               /\ isDownloading' = [isDownloading EXCEPT ![main.download] = FALSE]
BY SMTT(60), SongAssumption DEF pauseDownload, Proceed, Mains, Typed, Task, None

LEMMA Resumed ==
  ASSUME Typed, Tasks, Mains, resumeDownload
  PROVE  /\ main.at = "resume" /\ NewTask \in Task /\ main' = [main EXCEPT !.at = "reload"]
         /\ main.download \in Task /\ dataTask[main.download] \in Task
         /\ ~isDownloading[main.download] /\ active \in {main.download, None}
         /\ resumeData[main.download] \in 0..Size /\ Resume(resumeData[main.download])
         /\ dataTask' = [dataTask EXCEPT ![main.download] = NewTask]
         /\ isDownloading' = [isDownloading EXCEPT ![main.download] = TRUE]
         /\ hurried' = IF Expects(main.download) THEN hurried \cup {main.download} ELSE hurried
         /\ UNCHANGED <<active, resumeData, handlers, callback, view, unseen>>
BY SMTT(60), SongAssumption DEF resumeDownload, Proceed, Offset, Mains, Typed, Task, None

(* The step keeps the types.                                                 *)
LEMMA TypedStep ==
  ASSUME Typed, Tasks, Mains, DownloadNext PROVE Typed'
<1>0. /\ Task \subseteq 0..MaxTasks /\ 0 \in 0..MaxTasks /\ 0 \in 0..Size
      /\ \A j \in 0..MaxTasks : j # 0 => j \in Task
      /\ \A i \in 0..Size : i < Size => i + 1 \in 0..Size
  BY SongAssumption DEF Task
<1> USE DEF None, view, noted, model, session
<1>1. ASSUME downloadTapped PROVE Typed'
  <2>1. state' \in [Task -> States] /\ got' \in [Task -> 0..Size] /\ NewTask \in 0..MaxTasks
    BY <1>0, <1>1, Started, Created
  <2>2. dataTask' \in [Task -> 0..MaxTasks] /\ isDownloading' \in [Task -> BOOLEAN]
    <3>1. /\ NewTask \in Task /\ dataTask' = [dataTask EXCEPT ![NewTask] = NewTask]
          /\ isDownloading' = [isDownloading EXCEPT ![NewTask] = TRUE]
      BY <1>1, Started
    <3> QED
      BY <2>1, <3>1 DEF Typed
  <2>3. main' \in [at : Spots, download : 0..MaxTasks]
    BY <1>1, <2>1, Started DEF Spots
  <2>4. UNCHANGED <<active, resumeData, handlers, callback, reloads, downloaded, hurried, unseen>>
    BY <1>1 DEF downloadTapped
  <2> QED
    BY <2>1, <2>2, <2>3, <2>4 DEF Typed
<1>2. ASSUME startDownload_insert PROVE Typed'
  BY <1>0, <1>2 DEF startDownload_insert, Proceed, Typed, Spots
<1>3. ASSUME pauseTapped PROVE Typed'
  BY <1>0, <1>3 DEF pauseTapped, LookUp, Typed, Spots
<1>4. ASSUME resumeTapped PROVE Typed'
  BY <1>0, <1>4 DEF resumeTapped, LookUp, Typed, Spots
<1>5. ASSUME cancelTapped PROVE Typed'
  BY <1>0, <1>5 DEF cancelTapped, LookUp, Typed, Spots
<1>6. ASSUME pauseDownload PROVE Typed'
  <2> DEFINE d == main.download
  <2>1. CASE isDownloading[d]
    <3>1. /\ d \in Task /\ dataTask[d] \in Task /\ Cancel(dataTask[d])
          /\ handlers' = handlers \cup {<<d, DataOf(dataTask[d])>>}
      BY <1>6, <2>1, Paused
    <3>2. state' \in [Task -> States]
      BY <3>1, Cancelled
    <3>3. DataOf(dataTask[d]) \in 0..Size
      BY <1>0, <3>1 DEF DataOf, Typed
    <3>4. handlers' \subseteq Task \X (0..Size)
      BY <3>1, <3>3 DEF Typed
    <3> HIDE DEF d
    <3> QED
      BY ZenonT(60), <1>0, <1>6, <2>1, <3>1, <3>2, <3>4, Paused DEF Typed, Spots, d
  <2>2. CASE ~isDownloading[d]
    BY <1>0, <1>6, <2>2, Paused DEF Typed, Spots
  <2> QED
    BY <2>1, <2>2
<1>7. ASSUME resumeDownload PROVE Typed'
  <2> DEFINE d == main.download
  <2>1. Resume(resumeData[d]) /\ resumeData[d] \in 0..Size /\ NewTask \in Task
    BY <1>7, Resumed
  <2>2. state' \in [Task -> States] /\ got' \in [Task -> 0..Size] /\ NewTask \in 0..MaxTasks
    BY <1>0, <2>1, Created
  <2>3. d \in Task /\ dataTask' = [dataTask EXCEPT ![d] = NewTask]
        /\ isDownloading' = [isDownloading EXCEPT ![d] = TRUE]
        /\ main' = [main EXCEPT !.at = "reload"]
        /\ hurried' = IF Expects(d) THEN hurried \cup {d} ELSE hurried
    BY <1>7, Resumed
  <2>4. UNCHANGED <<active, resumeData, handlers, callback, reloads, downloaded, unseen>>
    BY <1>7 DEF resumeDownload
  <2> HIDE DEF d
  <2>5. dataTask' \in [Task -> 0..MaxTasks] /\ isDownloading' \in [Task -> BOOLEAN]
    BY <2>2, <2>3 DEF Typed
  <2>6. main' \in [at : Spots, download : 0..MaxTasks]
    BY <2>3 DEF Typed, Spots
  <2>7. hurried' \subseteq Task
    BY <2>3 DEF Typed
  <2> QED
    BY <2>2, <2>4, <2>5, <2>6, <2>7 DEF Typed
<1>8. ASSUME cancelDownload PROVE Typed'
  <2>1. dataTask[main.download] \in Task /\ Cancel(dataTask[main.download])
    BY <1>0, <1>8 DEF cancelDownload, Cancelling, Mains, Typed
  <2>2. state' \in [Task -> States]
    BY <2>1, Cancelled
  <2> QED
    BY <1>0, <1>8, <2>2 DEF cancelDownload, Proceed, Typed, Spots
<1>9. ASSUME cancelDownload_remove PROVE Typed'
  BY <1>0, <1>9 DEF cancelDownload_remove, Proceed, Typed, Spots
<1>10. ASSUME cellForRowAt PROVE Typed'
  BY <1>0, <1>10 DEF cellForRowAt, Typed, Spots
<1>11. ASSUME configure PROVE Typed'
  BY <1>0, <1>11 DEF configure, Resting, Buttons, Typed, Spots
<1>12. ASSUME reloadRows PROVE Typed'
  BY <1>0, <1>12 DEF reloadRows, Proceed, Typed, Spots
<1>13. ASSUME resumeDataHandler PROVE Typed'
  <2>1. PICK h \in handlers : /\ handlers' = handlers \ {h}
                              /\ resumeData' = [resumeData EXCEPT ![h[1]] = h[2]]
    BY <1>13 DEF resumeDataHandler
  <2>2. h[1] \in Task /\ h[2] \in 0..Size /\ handlers' \subseteq Task \X (0..Size)
    BY <2>1 DEF Typed
  <2> QED
    BY <1>13, <2>1, <2>2 DEF resumeDataHandler, Typed
<1>14. ASSUME didFinish_clear PROVE Typed'
  BY <1>0, <1>14 DEF didFinish_clear, Cleared, Typed, Spots
<1>15. ASSUME didFinish_copy PROVE Typed'
  BY <1>0, <1>15 DEF didFinish_copy, Typed, Spots
<1>16. ASSUME didFinish_reload PROVE Typed'
  BY <1>0, <1>16 DEF didFinish_reload, Reload, NotFinishing, Typed, Spots
<1>17. ASSUME NEW k \in Task, DataArrives(k) PROVE Typed'
  <2>1. got[k] + 1 \in 0..Size /\ got' = [got EXCEPT ![k] = got[k] + 1]
    BY <1>0, <1>17 DEF DataArrives, Typed
  <2> QED
    BY <1>17, <2>1 DEF DataArrives, Typed
<1>18. ASSUME NEW k \in Task, TaskEnds(k) PROVE Typed'
  BY <1>0, <1>18 DEF TaskEnds, Typed, Spots, States
<1>19. ASSUME NEW k \in Task, didFinish_lookup(k) PROVE Typed'
  BY <1>0, <1>19 DEF didFinish_lookup, Typed, Spots, States
<1> QED
  BY <1>1, <1>2, <1>3, <1>4, <1>5, <1>6, <1>7, <1>8, <1>9, <1>10, <1>11, <1>12, <1>13, <1>14,
     <1>15, <1>16, <1>17, <1>18, <1>19 DEF DownloadNext


(* Steps that create no task and give no Download another one.               *)
LEMMA TasksStay ==
  ASSUME Typed, Tasks, \A k \in Task : state'[k] = "unused" <=> state[k] = "unused",
         dataTask' = dataTask, active' \in {active, None},
         \A d \in Task : isDownloading'[d] \/ Expects(d)' => isDownloading[d] \/ Expects(d),
         callback'.at # "idle" => callback'.task \in Task /\ state'[callback'.task] = "over"
  PROVE  Tasks'
<1>1. Used' = 1..Cardinality(Used')
  BY UsedStays
<1>2. \A d \in Task : dataTask[d] # None => state'[d] # "unused" /\ state'[dataTask[d]] # "unused"
  <2>1. ASSUME NEW d \in Task, dataTask[d] # None
        PROVE  state'[d] # "unused" /\ state'[dataTask[d]] # "unused"
    <3>1. dataTask[d] \in Task
      BY SMTT(60), <2>1, SongAssumption DEF Typed, Task, None
    <3> QED
      BY <2>1, <3>1 DEF Tasks
  <2> QED
    BY <2>1
<1> QED
  BY <1>1, <1>2 DEF Tasks

(* Tasks are handed out one by one, and none belongs to two Downloads.       *)
LEMMA TasksStep ==
  ASSUME Typed, Tasks, Mains, DownloadNext PROVE Tasks'
<1>0. Task \subseteq 0..MaxTasks /\ \A j \in 0..MaxTasks : j \in Task <=> j # None
  BY SongAssumption DEF Task, None
<1> USE DEF view, noted, model, session
<1>1. ASSUME downloadTapped PROVE Tasks'
  <2> DEFINE m == NewTask
  <2>1. /\ m \in Task /\ m # None /\ Resume(0) /\ 0 \in 0..Size
        /\ dataTask' = [dataTask EXCEPT ![m] = m]
        /\ isDownloading' = [isDownloading EXCEPT ![m] = TRUE]
        /\ active' = active /\ handlers' = handlers /\ callback' = callback
    BY <1>1, Started
  <2>2. /\ state[m] = "unused" /\ dataTask[m] = None /\ \A d \in Task : dataTask[d] # m
        /\ state'[m] = "running" /\ \A k \in Task : k # m => state'[k] = state[k]
        /\ Used' = 1..Cardinality(Used')
    BY <2>1, Created
  <2> HIDE DEF m
  <2>3. /\ dataTask'[m] = m /\ \A d \in Task : d # m => dataTask'[d] = dataTask[d]
        /\ isDownloading'[m] /\ \A d \in Task : d # m => isDownloading'[d] = isDownloading[d]
        /\ \A d \in Task : Expects(d)' <=> Expects(d)
    BY <2>1 DEF Typed, Expects
  <2>4. ASSUME NEW d \in Task, dataTask'[d] # None
        PROVE  state'[d] # "unused" /\ state'[dataTask'[d]] # "unused"
    <3>1. CASE d = m
      BY <2>2, <2>3, <3>1
    <3>2. CASE d # m
      <4>1. dataTask[d] # None /\ dataTask[d] \in Task /\ dataTask'[d] = dataTask[d]
        BY <1>0, <2>3, <2>4, <3>2 DEF Typed
      <4>2. state[d] # "unused" /\ state[dataTask[d]] # "unused"
        BY <4>1 DEF Tasks
      <4> QED
        BY <2>2, <4>1, <4>2
    <3> QED
      BY <3>1, <3>2
  <2>5. \A d, e \in Task : dataTask'[d] # None /\ dataTask'[d] = dataTask'[e] => d = e
    BY <2>2, <2>3 DEF Tasks
  <2>6. \A d \in Task : isDownloading'[d] \/ Expects(d)' => dataTask'[d] # None
    BY <2>1, <2>3 DEF Tasks
  <2>7. active' # None => dataTask'[active'] # None
    BY <2>1, <2>3, <1>0 DEF Tasks, Typed
  <2>8. callback'.at # "idle" => callback'.task \in Task /\ state'[callback'.task] = "over"
    BY <2>1, <2>2 DEF Tasks
  <2> QED
    BY <2>2, <2>4, <2>5, <2>6, <2>7, <2>8 DEF Tasks
<1>2. ASSUME startDownload_insert PROVE Tasks'
  <2>1. /\ active' = main.download /\ dataTask[main.download] # None
        /\ UNCHANGED <<dataTask, isDownloading, state, handlers, callback>>
    BY <1>2 DEF startDownload_insert, Mains
  <2>2. Used' = 1..Cardinality(Used')
    BY <2>1, UsedStays
  <2>3. \A d \in Task : Expects(d)' <=> Expects(d)
    BY <2>1 DEF Expects
  <2> QED
    BY <2>1, <2>2, <2>3 DEF Tasks
<1>3. ASSUME pauseTapped PROVE Tasks'
  <2>1. /\ dataTask' = dataTask /\ active' \in {active, None}
        /\ \A j \in Task : state'[j] = "unused" <=> state[j] = "unused"
        /\ \A d \in Task : isDownloading'[d] \/ Expects(d)' => isDownloading[d] \/ Expects(d)
        /\ callback'.at # "idle" => callback'.task \in Task /\ state'[callback'.task] = "over"
    BY <1>0, <1>3 DEF pauseTapped, LookUp, Expects, Tasks
  <2> QED
    BY <2>1, TasksStay
<1>4. ASSUME resumeTapped PROVE Tasks'
  <2>1. /\ dataTask' = dataTask /\ active' \in {active, None}
        /\ \A j \in Task : state'[j] = "unused" <=> state[j] = "unused"
        /\ \A d \in Task : isDownloading'[d] \/ Expects(d)' => isDownloading[d] \/ Expects(d)
        /\ callback'.at # "idle" => callback'.task \in Task /\ state'[callback'.task] = "over"
    BY <1>0, <1>4 DEF resumeTapped, LookUp, Expects, Tasks
  <2> QED
    BY <2>1, TasksStay
<1>5. ASSUME cancelTapped PROVE Tasks'
  <2>1. /\ dataTask' = dataTask /\ active' \in {active, None}
        /\ \A j \in Task : state'[j] = "unused" <=> state[j] = "unused"
        /\ \A d \in Task : isDownloading'[d] \/ Expects(d)' => isDownloading[d] \/ Expects(d)
        /\ callback'.at # "idle" => callback'.task \in Task /\ state'[callback'.task] = "over"
    BY <1>0, <1>5 DEF cancelTapped, LookUp, Expects, Tasks
  <2> QED
    BY <2>1, TasksStay
<1>6. ASSUME pauseDownload PROVE Tasks'
  <2> DEFINE d == main.download
  <2>0. /\ d \in Task /\ dataTask[d] \in Task /\ active' = active
        /\ dataTask' = dataTask /\ callback' = callback
    BY <1>6, Paused
  <2>1. CASE isDownloading[d]
    <3>1. /\ Cancel(dataTask[d]) /\ isDownloading' = [isDownloading EXCEPT ![d] = FALSE]
          /\ handlers' = handlers \cup {<<d, DataOf(dataTask[d])>>}
      BY <1>6, <2>1, Paused
    <3>2. \A j \in Task : \/ state'[j] = state[j]
                          \/ state[j] = "running" /\ state'[j] = "cancelled"
      BY <2>0, <3>1, Cancelled
    <3> HIDE DEF d
    <3>3. \A e \in Task : isDownloading'[e] \/ Expects(e)' => isDownloading[e] \/ Expects(e)
      BY <2>0, <2>1, <3>1 DEF Expects, Typed
    <3>4. callback'.at # "idle" => callback'.task \in Task /\ state'[callback'.task] = "over"
      BY <2>0, <3>2 DEF Tasks
    <3> QED
      BY <2>0, <3>2, <3>3, <3>4, TasksStay
  <2>2. CASE ~isDownloading[d]
    <3>1. UNCHANGED <<state, handlers, isDownloading>>
      BY <1>6, <2>2, Paused
    <3>2. \A e \in Task : Expects(e)' <=> Expects(e)
      BY <3>1 DEF Expects
    <3> QED
      BY <2>0, <3>1, <3>2, TasksStay DEF Tasks
  <2> QED
    BY <2>1, <2>2
<1>7. ASSUME resumeDownload PROVE Tasks'
  <2> DEFINE m == NewTask
             d == main.download
  <2>1. /\ m \in Task /\ d \in Task /\ dataTask[d] \in Task
        /\ Resume(resumeData[d]) /\ resumeData[d] \in 0..Size
        /\ dataTask' = [dataTask EXCEPT ![d] = m]
        /\ isDownloading' = [isDownloading EXCEPT ![d] = TRUE]
        /\ active' = active /\ handlers' = handlers /\ callback' = callback
    BY <1>7, Resumed
  <2>2. /\ state[m] = "unused" /\ m # None /\ \A e \in Task : dataTask[e] # m
        /\ state'[m] = "running" /\ \A k \in Task : k # m => state'[k] = state[k]
        /\ Used' = 1..Cardinality(Used')
    BY <2>1, Created
  <2> HIDE DEF m, d
  <2>3. /\ dataTask'[d] = m /\ \A e \in Task : e # d => dataTask'[e] = dataTask[e]
        /\ isDownloading'[d] /\ \A e \in Task : e # d => isDownloading'[e] = isDownloading[e]
        /\ \A e \in Task : Expects(e)' <=> Expects(e)
    BY <2>1 DEF Typed, Expects
  <2>4. ASSUME NEW e \in Task, dataTask'[e] # None
        PROVE  state'[e] # "unused" /\ state'[dataTask'[e]] # "unused"
    <3>1. dataTask[d] # None
      BY <1>0, <2>1
    <3>2. CASE e = d
      BY <2>1, <2>2, <2>3, <3>1, <3>2 DEF Tasks
    <3>3. CASE e # d
      <4>1. dataTask[e] # None /\ dataTask[e] \in Task /\ dataTask'[e] = dataTask[e]
        BY <1>0, <2>3, <2>4, <3>3 DEF Typed
      <4>2. state[e] # "unused" /\ state[dataTask[e]] # "unused"
        BY <4>1 DEF Tasks
      <4> QED
        BY <2>2, <4>1, <4>2
    <3> QED
      BY <3>2, <3>3
  <2>5. \A e, f \in Task : dataTask'[e] # None /\ dataTask'[e] = dataTask'[f] => e = f
    BY <2>2, <2>3 DEF Tasks
  <2>6. \A e \in Task : isDownloading'[e] \/ Expects(e)' => dataTask'[e] # None
    BY <2>2, <2>3 DEF Tasks
  <2>7. active' # None => dataTask'[active'] # None
    BY <2>1, <2>2, <2>3, <1>0 DEF Tasks, Typed
  <2>8. callback'.at # "idle" => callback'.task \in Task /\ state'[callback'.task] = "over"
    BY <2>1, <2>2 DEF Tasks
  <2> QED
    BY <2>2, <2>4, <2>5, <2>6, <2>7, <2>8 DEF Tasks
<1>8. ASSUME cancelDownload PROVE Tasks'
  <2>1. /\ dataTask[main.download] \in Task /\ Cancel(dataTask[main.download])
        /\ UNCHANGED <<active, model, handlers, callback>>
    BY <1>0, <1>8 DEF cancelDownload, Cancelling, Mains, Typed
  <2>2. \A j \in Task : state'[j] = state[j] \/ (state[j] = "running" /\ state'[j] = "cancelled")
    BY <2>1, Cancelled
  <2>3. \A d \in Task : Expects(d)' <=> Expects(d)
    BY <2>1 DEF Expects
  <2>4. callback'.at # "idle" => callback'.task \in Task /\ state'[callback'.task] = "over"
    BY <2>1, <2>2 DEF Tasks
  <2> QED
    BY <2>1, <2>2, <2>3, <2>4, TasksStay DEF model
<1>9. ASSUME cancelDownload_remove PROVE Tasks'
  <2>1. /\ dataTask' = dataTask /\ active' \in {active, None}
        /\ \A j \in Task : state'[j] = "unused" <=> state[j] = "unused"
        /\ \A d \in Task : isDownloading'[d] \/ Expects(d)' => isDownloading[d] \/ Expects(d)
        /\ callback'.at # "idle" => callback'.task \in Task /\ state'[callback'.task] = "over"
    BY <1>0, <1>9 DEF cancelDownload_remove, Proceed, Expects, Tasks
  <2> QED
    BY <2>1, TasksStay
<1>10. ASSUME cellForRowAt PROVE Tasks'
  <2>1. /\ dataTask' = dataTask /\ active' \in {active, None}
        /\ \A j \in Task : state'[j] = "unused" <=> state[j] = "unused"
        /\ \A d \in Task : isDownloading'[d] \/ Expects(d)' => isDownloading[d] \/ Expects(d)
        /\ callback'.at # "idle" => callback'.task \in Task /\ state'[callback'.task] = "over"
    BY <1>0, <1>10 DEF cellForRowAt, Expects, Tasks
  <2> QED
    BY <2>1, TasksStay
<1>11. ASSUME configure PROVE Tasks'
  <2>1. /\ dataTask' = dataTask /\ active' \in {active, None}
        /\ \A j \in Task : state'[j] = "unused" <=> state[j] = "unused"
        /\ \A d \in Task : isDownloading'[d] \/ Expects(d)' => isDownloading[d] \/ Expects(d)
        /\ callback'.at # "idle" => callback'.task \in Task /\ state'[callback'.task] = "over"
    BY <1>0, <1>11 DEF configure, Resting, Buttons, Expects, Tasks
  <2> QED
    BY <2>1, TasksStay
<1>12. ASSUME reloadRows PROVE Tasks'
  <2>1. /\ dataTask' = dataTask /\ active' \in {active, None}
        /\ \A j \in Task : state'[j] = "unused" <=> state[j] = "unused"
        /\ \A d \in Task : isDownloading'[d] \/ Expects(d)' => isDownloading[d] \/ Expects(d)
        /\ callback'.at # "idle" => callback'.task \in Task /\ state'[callback'.task] = "over"
    BY <1>0, <1>12 DEF reloadRows, Proceed, Expects, Tasks
  <2> QED
    BY <2>1, TasksStay
<1>13. ASSUME resumeDataHandler PROVE Tasks'
  <2>1. /\ dataTask' = dataTask /\ active' \in {active, None}
        /\ \A j \in Task : state'[j] = "unused" <=> state[j] = "unused"
        /\ \A d \in Task : isDownloading'[d] \/ Expects(d)' => isDownloading[d] \/ Expects(d)
        /\ callback'.at # "idle" => callback'.task \in Task /\ state'[callback'.task] = "over"
    BY <1>13 DEF resumeDataHandler, Expects, Tasks
  <2> QED
    BY <2>1, TasksStay
<1>14. ASSUME didFinish_clear PROVE Tasks'
  <2>1. /\ dataTask' = dataTask /\ active' \in {active, None}
        /\ \A j \in Task : state'[j] = "unused" <=> state[j] = "unused"
        /\ \A d \in Task : isDownloading'[d] \/ Expects(d)' => isDownloading[d] \/ Expects(d)
        /\ callback'.at # "idle" => callback'.task \in Task /\ state'[callback'.task] = "over"
    BY <1>0, <1>14 DEF didFinish_clear, Cleared, Expects, Tasks, Typed
  <2> QED
    BY <2>1, TasksStay
<1>15. ASSUME didFinish_copy PROVE Tasks'
  <2>1. /\ dataTask' = dataTask /\ active' \in {active, None}
        /\ \A j \in Task : state'[j] = "unused" <=> state[j] = "unused"
        /\ \A d \in Task : isDownloading'[d] \/ Expects(d)' => isDownloading[d] \/ Expects(d)
        /\ callback'.at # "idle" => callback'.task \in Task /\ state'[callback'.task] = "over"
    BY <1>0, <1>15 DEF didFinish_copy, Expects, Tasks
  <2> QED
    BY <2>1, TasksStay
<1>16. ASSUME didFinish_reload PROVE Tasks'
  <2>1. /\ dataTask' = dataTask /\ active' \in {active, None}
        /\ \A j \in Task : state'[j] = "unused" <=> state[j] = "unused"
        /\ \A d \in Task : isDownloading'[d] \/ Expects(d)' => isDownloading[d] \/ Expects(d)
        /\ callback'.at # "idle" => callback'.task \in Task /\ state'[callback'.task] = "over"
    BY <1>0, <1>16 DEF didFinish_reload, Reload, NotFinishing, Expects, Tasks
  <2> QED
    BY <2>1, TasksStay
<1>17. ASSUME NEW k \in Task, DataArrives(k) PROVE Tasks'
  <2>1. /\ dataTask' = dataTask /\ active' \in {active, None}
        /\ \A j \in Task : state'[j] = "unused" <=> state[j] = "unused"
        /\ \A d \in Task : isDownloading'[d] \/ Expects(d)' => isDownloading[d] \/ Expects(d)
        /\ callback'.at # "idle" => callback'.task \in Task /\ state'[callback'.task] = "over"
    BY <1>0, <1>17 DEF DataArrives, Expects, Tasks
  <2> QED
    BY <2>1, TasksStay
<1>18. ASSUME NEW k \in Task, TaskEnds(k) PROVE Tasks'
  <2>1. /\ dataTask' = dataTask /\ active' \in {active, None}
        /\ \A j \in Task : state'[j] = "unused" <=> state[j] = "unused"
        /\ \A d \in Task : isDownloading'[d] \/ Expects(d)' => isDownloading[d] \/ Expects(d)
        /\ callback'.at # "idle" => callback'.task \in Task /\ state'[callback'.task] = "over"
    BY ZenonT(60), <1>0, <1>18 DEF TaskEnds, Expects, Tasks, Typed
  <2> QED
    BY <2>1, TasksStay
<1>19. ASSUME NEW k \in Task, didFinish_lookup(k) PROVE Tasks'
  <2>1. /\ dataTask' = dataTask /\ active' \in {active, None}
        /\ \A j \in Task : state'[j] = "unused" <=> state[j] = "unused"
        /\ \A d \in Task : isDownloading'[d] \/ Expects(d)' => isDownloading[d] \/ Expects(d)
        /\ callback'.at # "idle" => callback'.task \in Task /\ state'[callback'.task] = "over"
    BY <1>19 DEF didFinish_lookup, Expects, Tasks, Typed
  <2> QED
    BY <2>1, TasksStay
<1> QED
  BY <1>1, <1>2, <1>3, <1>4, <1>5, <1>6, <1>7, <1>8, <1>9, <1>10, <1>11, <1>12, <1>13, <1>14,
     <1>15, <1>16, <1>17, <1>18, <1>19 DEF DownloadNext


(* Steps that neither pause nor resume, nor cancel a task.                   *)
LEMMA PausesStay ==
  ASSUME Typed, Pauses, UNCHANGED <<dataTask, resumeData, isDownloading, handlers, hurried>>,
         \A k \in Task : state'[k] = state[k] \/ state'[k] \notin {"running", "cancelled"},
         \A k \in Task : state[k] # "running" => got'[k] = got[k],
         active' \in {active, None} \/ (main.at = "insert" /\ active' = main.download),
         main.at = "remove" => main' = main \/ active' = None,
         \/ main' = main \/ main'.at \in {"idle", "reload", "configure"}
         \/ main.at # "remove" /\ main'.download = active
  PROVE  Pauses'
<1> SUFFICES ASSUME NEW d \in Task, dataTask[d] # None
             PROVE  PausedRight(d)'
  BY DEF Pauses
<1>0. PausedRight(d)
  BY DEF Pauses
<1>1. d # None /\ dataTask[d] \in Task
  <2>1. d # None
    BY SongAssumption DEF Task, None
  <2>2. dataTask[d] \in Task
    BY SMTT(60), SongAssumption DEF Typed, Task, None
  <2> QED
    BY <2>1, <2>2
<1>2. /\ Expects(d)' <=> Expects(d)
      /\ state'[dataTask[d]] = "running" => state[dataTask[d]] = "running"
      /\ state'[dataTask[d]] = "cancelled" => state[dataTask[d]] = "cancelled"
  BY <1>1 DEF Expects
<1>3. state[dataTask[d]] = "cancelled" /\ Kept(d) => Kept(d)'
  BY <1>1, <1>2 DEF Kept
<1>4. ASSUME isDownloading[d], state[dataTask[d]] = "cancelled"
      PROVE  /\ active' = d => main'.at = "remove"
             /\ main'.download = d => main'.at \notin {"insert", "pause", "resume", "cancel"}
  <2>1. /\ active = d => main.at = "remove"
        /\ main.download = d => main.at \notin {"insert", "pause", "resume", "cancel"}
    BY <1>0, <1>4 DEF PausedRight
  <2> QED
    BY <1>1, <2>1
<1> QED
  BY <1>0, <1>2, <1>3, <1>4 DEF PausedRight

(* A paused Download keeps what it has, and a cancelled one is left alone.   *)
LEMMA PausesStep ==
  ASSUME Typed, Tasks, Mains, Pauses, DownloadNext PROVE Pauses'
<1>0. Task \subseteq 0..MaxTasks /\ \A j \in 0..MaxTasks : j \in Task <=> j # None
  BY SongAssumption DEF Task, None
<1> USE DEF view, noted, model, session
<1>1. ASSUME downloadTapped PROVE Pauses'
  <2> DEFINE m == NewTask
  <2>1. /\ m \in Task /\ m # None /\ Resume(0) /\ 0 \in 0..Size
        /\ dataTask' = [dataTask EXCEPT ![m] = m]
        /\ isDownloading' = [isDownloading EXCEPT ![m] = TRUE]
        /\ main' = [at |-> "insert", download |-> m] /\ main.at = "idle"
        /\ UNCHANGED <<active, resumeData, handlers, hurried>>
    BY <1>1, Started DEF noted
  <2>2. /\ dataTask[m] = None /\ \A d \in Task : dataTask[d] # m
        /\ state'[m] = "running"
        /\ \A k \in Task : k # m => state'[k] = state[k] /\ got'[k] = got[k]
    BY <2>1, Created
  <2> HIDE DEF m
  <2>3. ASSUME NEW d \in Task, dataTask'[d] # None
        PROVE  PausedRight(d)'
    <3>1. CASE d = m
      <4>1. dataTask'[d] = d /\ isDownloading'[d] /\ ~Expects(d)
        BY <2>1, <2>2, <3>1 DEF Typed, Tasks
      <4>2. ~Expects(d)'
        BY <2>1, <4>1 DEF Expects
      <4> QED
        BY <2>2, <3>1, <4>1, <4>2 DEF PausedRight
    <3>2. CASE d # m
      <4>1. dataTask'[d] = dataTask[d] /\ isDownloading'[d] = isDownloading[d]
        BY <2>1, <3>2 DEF Typed
      <4>2. dataTask[d] \in Task /\ dataTask[d] # m
        BY <1>0, <2>2, <2>3, <4>1 DEF Typed
      <4>3. state'[dataTask[d]] = state[dataTask[d]] /\ got'[dataTask[d]] = got[dataTask[d]]
        BY <2>2, <4>2
      <4>4. Expects(d)' <=> Expects(d)
        BY <2>1 DEF Expects
      <4>5. Kept(d) => Kept(d)'
        BY <2>1, <4>1, <4>3, <4>4 DEF Kept
      <4>6. PausedRight(d)
        BY <2>3, <4>1 DEF Pauses
      <4> QED
        BY <2>1, <3>2, <4>1, <4>3, <4>4, <4>5, <4>6 DEF PausedRight
    <3> QED
      BY <3>1, <3>2
  <2> QED
    BY <2>3 DEF Pauses
<1>2. ASSUME startDownload_insert PROVE Pauses'
  <2>1. UNCHANGED <<dataTask, resumeData, isDownloading, handlers, hurried>>
    BY <1>2 DEF startDownload_insert, Proceed
  <2>2. /\ \A j \in Task : state'[j] = state[j] \/ state'[j] \notin {"running", "cancelled"}
        /\ \A j \in Task : state[j] # "running" => got'[j] = got[j]
    BY <1>2 DEF startDownload_insert, Proceed, Typed
  <2>3. /\ active' \in {active, None} \/ (main.at = "insert" /\ active' = main.download)
        /\ main.at = "remove" => main' = main \/ active' = None
        /\ \/ main' = main \/ main'.at \in {"idle", "reload", "configure"}
           \/ main.at # "remove" /\ main'.download = active
    BY <1>2 DEF startDownload_insert, Proceed, Typed
  <2> QED
    BY <2>1, <2>2, <2>3, PausesStay
<1>3. ASSUME pauseTapped PROVE Pauses'
  <2>1. UNCHANGED <<dataTask, resumeData, isDownloading, handlers, hurried>>
    BY <1>3 DEF pauseTapped, LookUp
  <2>2. /\ \A j \in Task : state'[j] = state[j] \/ state'[j] \notin {"running", "cancelled"}
        /\ \A j \in Task : state[j] # "running" => got'[j] = got[j]
    BY <1>3 DEF pauseTapped, LookUp, Typed
  <2>3. /\ active' \in {active, None} \/ (main.at = "insert" /\ active' = main.download)
        /\ main.at = "remove" => main' = main \/ active' = None
        /\ \/ main' = main \/ main'.at \in {"idle", "reload", "configure"}
           \/ main.at # "remove" /\ main'.download = active
    BY <1>3 DEF pauseTapped, LookUp, Typed
  <2> QED
    BY <2>1, <2>2, <2>3, PausesStay
<1>4. ASSUME resumeTapped PROVE Pauses'
  <2>1. UNCHANGED <<dataTask, resumeData, isDownloading, handlers, hurried>>
    BY <1>4 DEF resumeTapped, LookUp
  <2>2. /\ \A j \in Task : state'[j] = state[j] \/ state'[j] \notin {"running", "cancelled"}
        /\ \A j \in Task : state[j] # "running" => got'[j] = got[j]
    BY <1>4 DEF resumeTapped, LookUp, Typed
  <2>3. /\ active' \in {active, None} \/ (main.at = "insert" /\ active' = main.download)
        /\ main.at = "remove" => main' = main \/ active' = None
        /\ \/ main' = main \/ main'.at \in {"idle", "reload", "configure"}
           \/ main.at # "remove" /\ main'.download = active
    BY <1>4 DEF resumeTapped, LookUp, Typed
  <2> QED
    BY <2>1, <2>2, <2>3, PausesStay
<1>5. ASSUME cancelTapped PROVE Pauses'
  <2>1. UNCHANGED <<dataTask, resumeData, isDownloading, handlers, hurried>>
    BY <1>5 DEF cancelTapped, LookUp
  <2>2. /\ \A j \in Task : state'[j] = state[j] \/ state'[j] \notin {"running", "cancelled"}
        /\ \A j \in Task : state[j] # "running" => got'[j] = got[j]
    BY <1>5 DEF cancelTapped, LookUp, Typed
  <2>3. /\ active' \in {active, None} \/ (main.at = "insert" /\ active' = main.download)
        /\ main.at = "remove" => main' = main \/ active' = None
        /\ \/ main' = main \/ main'.at \in {"idle", "reload", "configure"}
           \/ main.at # "remove" /\ main'.download = active
    BY <1>5 DEF cancelTapped, LookUp, Typed
  <2> QED
    BY <2>1, <2>2, <2>3, PausesStay
<1>6. ASSUME pauseDownload PROVE Pauses'
  <2> DEFINE d == main.download
  <2>0. /\ d \in Task /\ dataTask[d] \in Task /\ main.at = "pause"
        /\ main' = [main EXCEPT !.at = "reload"] /\ main'.at = "reload"
        /\ UNCHANGED <<active, dataTask, resumeData, got, hurried>>
    BY <1>6, Paused DEF noted, Typed
  <2>1. CASE isDownloading[d]
    <3>1. /\ Cancel(dataTask[d]) /\ isDownloading' = [isDownloading EXCEPT ![d] = FALSE]
          /\ handlers' = handlers \cup {<<d, DataOf(dataTask[d])>>}
      BY <1>6, <2>1, Paused
    <3>2. /\ state'[dataTask[d]] = (IF state[dataTask[d]] = "running" THEN "cancelled"
                                     ELSE state[dataTask[d]])
          /\ \A k \in Task : k # dataTask[d] => state'[k] = state[k]
      BY <2>0, <3>1, Cancelled
    <3>3. dataTask[d] # None
      BY <1>0, <2>0
    <3>4. PausedRight(d) /\ state[dataTask[d]] # "cancelled"
      BY <2>0, <2>1, <3>3 DEF Pauses, PausedRight
    <3> HIDE DEF d
    <3>5. ASSUME NEW e \in Task, dataTask'[e] # None
          PROVE  PausedRight(e)'
      <4>1. CASE e = d
        <5>1. ~isDownloading'[e] /\ state'[dataTask[e]] # "running" /\ dataTask'[e] = dataTask[e]
          BY <2>0, <3>1, <3>2, <4>1 DEF Typed
        <5>2. ASSUME state'[dataTask[e]] = "cancelled", e \notin hurried
              PROVE  Kept(e)'
          <6>1. DataOf(dataTask[e]) = got[dataTask[e]]
            BY <3>2, <3>4, <4>1, <5>2 DEF DataOf
          <6>2. ~Expects(e)
            BY <2>1, <3>4, <4>1, <5>2 DEF PausedRight
          <6>3. handlers' = handlers \cup {<<e, got[dataTask[e]]>>}
            BY <3>1, <4>1, <6>1
          <6>4. Expects(e)' /\ \A h \in handlers' : h[1] = e => h[2] = got[dataTask[e]]
            <7> DEFINE x == <<e, got[dataTask[e]]>>
            <7>1. x \in handlers' /\ x[1] = e /\ x[2] = got[dataTask[e]]
              BY <6>3
            <7>2. \A h \in handlers' : h = x \/ h \in handlers
              BY <6>3
            <7> HIDE DEF x
            <7> QED
              BY <6>2, <7>1, <7>2 DEF Expects
          <6> QED
            BY <2>0, <6>4 DEF Kept
        <5> QED
          BY <2>0, <5>1, <5>2 DEF PausedRight
      <4>2. CASE e # d
        <5>1. dataTask[e] \in Task /\ dataTask[e] # dataTask[d] /\ dataTask[e] # None
          BY <1>0, <2>0, <3>5, <4>2 DEF Tasks, Typed
        <5>2. state'[dataTask[e]] = state[dataTask[e]] /\ isDownloading'[e] = isDownloading[e]
          BY <3>1, <3>2, <4>2, <5>1 DEF Typed
        <5>3. Expects(e)' <=> Expects(e)
          BY <3>1, <4>2 DEF Expects
        <5>4. Kept(e) => Kept(e)'
          BY <2>0, <3>1, <4>2, <5>3 DEF Kept
        <5>5. PausedRight(e)
          BY <5>1 DEF Pauses
        <5> QED
          BY <2>0, <5>2, <5>3, <5>4, <5>5 DEF PausedRight
      <4> QED
        BY <4>1, <4>2
    <3> QED
      BY <3>5 DEF Pauses
  <2>2. CASE ~isDownloading[d]
    BY <1>6, <2>0, <2>2, Paused, PausesStay
  <2> QED
    BY <2>1, <2>2
<1>7. ASSUME resumeDownload PROVE Pauses'
  <2> DEFINE m == NewTask
             d == main.download
  <2>1. /\ m \in Task /\ d \in Task /\ dataTask[d] \in Task
        /\ Resume(resumeData[d]) /\ resumeData[d] \in 0..Size
        /\ dataTask' = [dataTask EXCEPT ![d] = m]
        /\ isDownloading' = [isDownloading EXCEPT ![d] = TRUE]
        /\ main.at = "resume" /\ main' = [main EXCEPT !.at = "reload"] /\ main'.at = "reload"
        /\ hurried' = IF Expects(d) THEN hurried \cup {d} ELSE hurried
        /\ active' = active /\ handlers' = handlers /\ resumeData' = resumeData
    BY <1>7, Resumed DEF Typed
  <2>2. /\ \A e \in Task : dataTask[e] # m
        /\ state'[m] = "running"
        /\ \A k \in Task : k # m => state'[k] = state[k] /\ got'[k] = got[k]
    BY <2>1, Created
  <2> HIDE DEF m, d
  <2>3. ASSUME NEW e \in Task, dataTask'[e] # None
        PROVE  PausedRight(e)'
    <3>1. Expects(e)' <=> Expects(e)
      BY <2>1 DEF Expects
    <3>2. CASE e = d
      <4>1. dataTask'[d] = m /\ isDownloading'[d]
        BY <2>1 DEF Typed
      <4> QED
        BY <2>1, <2>2, <3>1, <3>2, <4>1 DEF PausedRight
    <3>3. CASE e # d
      <4>1. dataTask'[e] = dataTask[e] /\ isDownloading'[e] = isDownloading[e]
        BY <2>1, <3>3 DEF Typed
      <4>2. dataTask[e] \in Task /\ dataTask[e] # m /\ dataTask[e] # None
        BY <1>0, <2>2, <2>3, <4>1 DEF Typed
      <4>3. state'[dataTask[e]] = state[dataTask[e]] /\ got'[dataTask[e]] = got[dataTask[e]]
        BY <2>2, <4>2
      <4>4. Kept(e) => Kept(e)'
        BY <2>1, <3>1, <4>1, <4>3 DEF Kept
      <4>5. PausedRight(e)
        BY <4>2 DEF Pauses
      <4>6. e \notin hurried' => e \notin hurried
        BY <2>1
      <4> QED
        BY <2>1, <3>1, <3>3, <4>1, <4>3, <4>4, <4>5, <4>6 DEF PausedRight
    <3> QED
      BY <3>2, <3>3
  <2> QED
    BY <2>3 DEF Pauses
<1>8. ASSUME cancelDownload PROVE Pauses'
  <2> DEFINE d == main.download
  <2>1. /\ d \in Task /\ dataTask[d] \in Task /\ dataTask[d] # None /\ Cancel(dataTask[d])
        /\ main.at = "cancel" /\ main' = [main EXCEPT !.at = "remove"] /\ main'.at = "remove"
        /\ UNCHANGED <<active, model, got, handlers, hurried>>
    BY <1>0, <1>8 DEF cancelDownload, Proceed, Cancelling, Mains, Typed, noted
  <2>2. /\ state'[dataTask[d]] = (IF state[dataTask[d]] = "running" THEN "cancelled"
                                   ELSE state[dataTask[d]])
        /\ \A k \in Task : k # dataTask[d] => state'[k] = state[k]
    BY <2>1, Cancelled
  <2>3. ~isDownloading[d] => state[dataTask[d]] # "running"
    BY <2>1 DEF Pauses, PausedRight
  <2> HIDE DEF d
  <2>4. ASSUME NEW e \in Task, dataTask'[e] # None
        PROVE  PausedRight(e)'
    <3>1. dataTask[e] \in Task /\ dataTask[e] # None /\ (e # d => dataTask[e] # dataTask[d])
      BY <1>0, <2>1, <2>4 DEF Tasks, Typed, model
    <3>2. (Expects(e)' <=> Expects(e)) /\ (Kept(e) => Kept(e)')
      BY <2>1 DEF Expects, Kept, model
    <3>3. PausedRight(e)
      BY <3>1 DEF Pauses
    <3>4. CASE e = d
      BY <2>1, <2>2, <2>3, <3>2, <3>3, <3>4 DEF PausedRight, model
    <3>5. CASE e # d
      <4>1. state'[dataTask[e]] = state[dataTask[e]]
        BY <2>2, <3>1, <3>5
      <4> QED
        BY <2>1, <3>2, <3>3, <4>1 DEF PausedRight, model
    <3> QED
      BY <3>4, <3>5
  <2> QED
    BY <2>4 DEF Pauses
<1>9. ASSUME cancelDownload_remove PROVE Pauses'
  <2>1. UNCHANGED <<dataTask, resumeData, isDownloading, handlers, hurried>>
    BY <1>9 DEF cancelDownload_remove, Proceed
  <2>2. /\ \A j \in Task : state'[j] = state[j] \/ state'[j] \notin {"running", "cancelled"}
        /\ \A j \in Task : state[j] # "running" => got'[j] = got[j]
    BY <1>9 DEF cancelDownload_remove, Proceed, Typed
  <2>3. /\ active' \in {active, None} \/ (main.at = "insert" /\ active' = main.download)
        /\ main.at = "remove" => main' = main \/ active' = None
        /\ \/ main' = main \/ main'.at \in {"idle", "reload", "configure"}
           \/ main.at # "remove" /\ main'.download = active
    BY <1>9 DEF cancelDownload_remove, Proceed, Typed
  <2> QED
    BY <2>1, <2>2, <2>3, PausesStay
<1>10. ASSUME cellForRowAt PROVE Pauses'
  <2>1. UNCHANGED <<dataTask, resumeData, isDownloading, handlers, hurried>>
    BY <1>10 DEF cellForRowAt
  <2>2. /\ \A j \in Task : state'[j] = state[j] \/ state'[j] \notin {"running", "cancelled"}
        /\ \A j \in Task : state[j] # "running" => got'[j] = got[j]
    BY <1>10 DEF cellForRowAt, Typed
  <2>3. /\ active' \in {active, None} \/ (main.at = "insert" /\ active' = main.download)
        /\ main.at = "remove" => main' = main \/ active' = None
        /\ \/ main' = main \/ main'.at \in {"idle", "reload", "configure"}
           \/ main.at # "remove" /\ main'.download = active
    BY <1>10 DEF cellForRowAt, Typed
  <2> QED
    BY <2>1, <2>2, <2>3, PausesStay
<1>11. ASSUME configure PROVE Pauses'
  <2>1. UNCHANGED <<dataTask, resumeData, isDownloading, handlers, hurried>>
    BY <1>11 DEF configure, Resting, Buttons
  <2>2. /\ \A j \in Task : state'[j] = state[j] \/ state'[j] \notin {"running", "cancelled"}
        /\ \A j \in Task : state[j] # "running" => got'[j] = got[j]
    BY <1>11 DEF configure, Resting, Buttons, Typed
  <2>3. /\ active' \in {active, None} \/ (main.at = "insert" /\ active' = main.download)
        /\ main.at = "remove" => main' = main \/ active' = None
        /\ \/ main' = main \/ main'.at \in {"idle", "reload", "configure"}
           \/ main.at # "remove" /\ main'.download = active
    BY <1>11 DEF configure, Resting, Buttons, Typed
  <2> QED
    BY <2>1, <2>2, <2>3, PausesStay
<1>12. ASSUME reloadRows PROVE Pauses'
  <2>1. UNCHANGED <<dataTask, resumeData, isDownloading, handlers, hurried>>
    BY <1>12 DEF reloadRows, Proceed
  <2>2. /\ \A j \in Task : state'[j] = state[j] \/ state'[j] \notin {"running", "cancelled"}
        /\ \A j \in Task : state[j] # "running" => got'[j] = got[j]
    BY <1>12 DEF reloadRows, Proceed, Typed
  <2>3. /\ active' \in {active, None} \/ (main.at = "insert" /\ active' = main.download)
        /\ main.at = "remove" => main' = main \/ active' = None
        /\ \/ main' = main \/ main'.at \in {"idle", "reload", "configure"}
           \/ main.at # "remove" /\ main'.download = active
    BY <1>12 DEF reloadRows, Proceed, Typed
  <2> QED
    BY <2>1, <2>2, <2>3, PausesStay
<1>13. ASSUME resumeDataHandler PROVE Pauses'
  <2>1. PICK h \in handlers : /\ handlers' = handlers \ {h}
                              /\ resumeData' = [resumeData EXCEPT ![h[1]] = h[2]]
    BY <1>13 DEF resumeDataHandler
  <2>2. /\ h[1] \in Task /\ h[2] \in 0..Size
        /\ UNCHANGED <<active, dataTask, isDownloading, state, got, main, hurried>>
    BY <1>13, <2>1 DEF resumeDataHandler, Typed, noted
  <2>3. ASSUME NEW d \in Task, dataTask'[d] # None
        PROVE  PausedRight(d)'
    <3>1. Expects(d)' => Expects(d)
      BY <2>1 DEF Expects
    <3>2. Kept(d) => Kept(d)'
      <4>1. CASE h[1] = d
        BY <2>1, <2>2, <4>1 DEF Kept, Expects, Typed
      <4>2. CASE h[1] # d
        BY <2>1, <2>2, <4>2 DEF Kept, Expects, Typed
      <4> QED
        BY <4>1, <4>2
    <3>3. PausedRight(d)
      BY <2>2, <2>3 DEF Pauses
    <3> QED
      BY <2>2, <3>1, <3>2, <3>3 DEF PausedRight
  <2> QED
    BY <2>3 DEF Pauses
<1>14. ASSUME didFinish_clear PROVE Pauses'
  <2>1. UNCHANGED <<dataTask, resumeData, isDownloading, handlers, hurried>>
    BY <1>14 DEF didFinish_clear, Cleared
  <2>2. /\ \A j \in Task : state'[j] = state[j] \/ state'[j] \notin {"running", "cancelled"}
        /\ \A j \in Task : state[j] # "running" => got'[j] = got[j]
    BY <1>14 DEF didFinish_clear, Cleared, Typed
  <2>3. /\ active' \in {active, None} \/ (main.at = "insert" /\ active' = main.download)
        /\ main.at = "remove" => main' = main \/ active' = None
        /\ \/ main' = main \/ main'.at \in {"idle", "reload", "configure"}
           \/ main.at # "remove" /\ main'.download = active
    BY <1>14 DEF didFinish_clear, Cleared, Typed
  <2> QED
    BY <2>1, <2>2, <2>3, PausesStay
<1>15. ASSUME didFinish_copy PROVE Pauses'
  <2>1. UNCHANGED <<dataTask, resumeData, isDownloading, handlers, hurried>>
    BY <1>15 DEF didFinish_copy
  <2>2. /\ \A j \in Task : state'[j] = state[j] \/ state'[j] \notin {"running", "cancelled"}
        /\ \A j \in Task : state[j] # "running" => got'[j] = got[j]
    BY <1>15 DEF didFinish_copy, Typed
  <2>3. /\ active' \in {active, None} \/ (main.at = "insert" /\ active' = main.download)
        /\ main.at = "remove" => main' = main \/ active' = None
        /\ \/ main' = main \/ main'.at \in {"idle", "reload", "configure"}
           \/ main.at # "remove" /\ main'.download = active
    BY <1>15 DEF didFinish_copy, Typed
  <2> QED
    BY <2>1, <2>2, <2>3, PausesStay
<1>16. ASSUME didFinish_reload PROVE Pauses'
  <2>1. UNCHANGED <<dataTask, resumeData, isDownloading, handlers, hurried>>
    BY <1>16 DEF didFinish_reload, Reload, NotFinishing
  <2>2. /\ \A j \in Task : state'[j] = state[j] \/ state'[j] \notin {"running", "cancelled"}
        /\ \A j \in Task : state[j] # "running" => got'[j] = got[j]
    BY <1>16 DEF didFinish_reload, Reload, NotFinishing, Typed
  <2>3. /\ active' \in {active, None} \/ (main.at = "insert" /\ active' = main.download)
        /\ main.at = "remove" => main' = main \/ active' = None
        /\ \/ main' = main \/ main'.at \in {"idle", "reload", "configure"}
           \/ main.at # "remove" /\ main'.download = active
    BY <1>16 DEF didFinish_reload, Reload, NotFinishing, Typed
  <2> QED
    BY <2>1, <2>2, <2>3, PausesStay
<1>17. ASSUME NEW k \in Task, DataArrives(k) PROVE Pauses'
  <2>1. UNCHANGED <<dataTask, resumeData, isDownloading, handlers, hurried>>
    BY <1>17 DEF DataArrives
  <2>2. /\ \A j \in Task : state'[j] = state[j] \/ state'[j] \notin {"running", "cancelled"}
        /\ \A j \in Task : state[j] # "running" => got'[j] = got[j]
    BY <1>17 DEF DataArrives, Typed
  <2>3. /\ active' \in {active, None} \/ (main.at = "insert" /\ active' = main.download)
        /\ main.at = "remove" => main' = main \/ active' = None
        /\ \/ main' = main \/ main'.at \in {"idle", "reload", "configure"}
           \/ main.at # "remove" /\ main'.download = active
    BY <1>17 DEF DataArrives, Typed
  <2> QED
    BY <2>1, <2>2, <2>3, PausesStay
<1>18. ASSUME NEW k \in Task, TaskEnds(k) PROVE Pauses'
  <2>1. UNCHANGED <<dataTask, resumeData, isDownloading, handlers, hurried>>
    BY <1>18 DEF TaskEnds
  <2>2. /\ \A j \in Task : state'[j] = state[j] \/ state'[j] \notin {"running", "cancelled"}
        /\ \A j \in Task : state[j] # "running" => got'[j] = got[j]
    BY <1>18 DEF TaskEnds, Typed
  <2>3. /\ active' \in {active, None} \/ (main.at = "insert" /\ active' = main.download)
        /\ main.at = "remove" => main' = main \/ active' = None
        /\ \/ main' = main \/ main'.at \in {"idle", "reload", "configure"}
           \/ main.at # "remove" /\ main'.download = active
    BY <1>18 DEF TaskEnds, Typed
  <2> QED
    BY <2>1, <2>2, <2>3, PausesStay
<1>19. ASSUME NEW k \in Task, didFinish_lookup(k) PROVE Pauses'
  <2>1. UNCHANGED <<dataTask, resumeData, isDownloading, handlers, hurried>>
    BY <1>19 DEF didFinish_lookup
  <2>2. /\ \A j \in Task : state'[j] = state[j] \/ state'[j] \notin {"running", "cancelled"}
        /\ \A j \in Task : state[j] # "running" => got'[j] = got[j]
    BY <1>19 DEF didFinish_lookup, Typed
  <2>3. /\ active' \in {active, None} \/ (main.at = "insert" /\ active' = main.download)
        /\ main.at = "remove" => main' = main \/ active' = None
        /\ \/ main' = main \/ main'.at \in {"idle", "reload", "configure"}
           \/ main.at # "remove" /\ main'.download = active
    BY <1>19 DEF didFinish_lookup, Typed
  <2> QED
    BY <2>1, <2>2, <2>3, PausesStay
<1> QED
  BY <1>1, <1>2, <1>3, <1>4, <1>5, <1>6, <1>7, <1>8, <1>9, <1>10, <1>11, <1>12, <1>13, <1>14,
     <1>15, <1>16, <1>17, <1>18, <1>19 DEF DownloadNext


(* Steps of the session leave the main thread what it found.                 *)
LEMMA MainsStay ==
  ASSUME Typed, Tasks, Mains, UNCHANGED <<main, dataTask, isDownloading>>,
         active' \in {active, None},
         \A k \in Task : /\ state'[k] = "unused" <=> state[k] = "unused"
                         /\ state'[k] = state[k] \/ state'[k] \notin {"running", "cancelled"}
  PROVE  Mains'
<1>1. NewTask' = NewTask
  BY UsedStays
<1>2. main.download # None => main.download \in Task
  BY SongAssumption DEF Typed, Task, None
<1>3. main.download # None /\ dataTask[main.download] # None => dataTask[main.download] \in Task
  BY SMTT(60), <1>2, SongAssumption DEF Typed, Task, None
<1> QED
  BY <1>1, <1>2, <1>3 DEF Mains

(* The main thread finds what it looked up, or nothing any more.             *)
LEMMA MainsStep ==
  ASSUME Typed, Tasks, Mains, Rows, DownloadNext PROVE Mains'
<1>0. Task \subseteq 0..MaxTasks /\ \A j \in 0..MaxTasks : j \in Task <=> j # None
  BY SongAssumption DEF Task, None
<1> USE DEF view, noted, model, session
<1>1. ASSUME downloadTapped PROVE Mains'
  <2>1. /\ NewTask \in Task /\ NewTask # None
        /\ dataTask' = [dataTask EXCEPT ![NewTask] = NewTask]
        /\ isDownloading' = [isDownloading EXCEPT ![NewTask] = TRUE]
        /\ main' = [at |-> "insert", download |-> NewTask]
        /\ main.at = "idle" /\ cell = "download" /\ active' = active
    BY <1>1, Started
  <2>2. state'[NewTask] = "running"
    BY <1>1, Started, Created
  <2>3. active = None
    BY <2>1 DEF Rows, Buttons
  <2>4. PICK m \in Task : m = NewTask
    BY <2>1
  <2> QED
    BY <2>1, <2>2, <2>3, <2>4 DEF Mains, Typed
<1>2. ASSUME startDownload_insert PROVE Mains'
  <2>1. main'.at \in {"reload", "idle"}
    BY <1>2 DEF startDownload_insert, Proceed, Typed
  <2> QED
    BY <2>1 DEF Mains
<1>3. ASSUME pauseTapped PROVE Mains'
  <2>1. /\ UNCHANGED <<active, dataTask, isDownloading, state>> /\ main.at = "idle"
        /\ main' = [at |-> IF active = None THEN "reload" ELSE "pause", download |-> active]
    BY <1>3 DEF pauseTapped, LookUp
  <2>2. active # None => dataTask[active] # None
    BY DEF Tasks
  <2> QED
    BY <2>1, <2>2 DEF Mains
<1>4. ASSUME resumeTapped PROVE Mains'
  <2>1. /\ UNCHANGED <<active, dataTask, isDownloading, state>> /\ main.at = "idle"
        /\ main' = [at |-> IF active = None THEN "reload" ELSE "resume", download |-> active]
    BY <1>4 DEF resumeTapped, LookUp
  <2>2. active # None => ~isDownloading[active]
    BY <1>4, <2>1 DEF resumeTapped, Rows, Buttons
  <2>3. NewTask \in Task /\ NewTask' = NewTask
    BY <1>4, <2>1 DEF resumeTapped, NewTask
  <2>4. active # None => dataTask[active] # None
    BY DEF Tasks
  <2> QED
    BY <2>1, <2>2, <2>3, <2>4 DEF Mains
<1>5. ASSUME cancelTapped PROVE Mains'
  <2>1. /\ UNCHANGED <<active, dataTask, isDownloading, state>> /\ main.at = "idle"
        /\ main' = [at |-> IF active = None THEN "reload" ELSE "cancel", download |-> active]
    BY <1>5 DEF cancelTapped, LookUp
  <2>2. active # None => dataTask[active] # None
    BY DEF Tasks
  <2> QED
    BY <2>1, <2>2 DEF Mains
<1>6. ASSUME pauseDownload PROVE Mains'
  <2>1. main'.at = "reload"
    BY <1>6, Paused DEF Typed
  <2> QED
    BY <2>1 DEF Mains
<1>7. ASSUME resumeDownload PROVE Mains'
  <2>1. main'.at = "reload"
    BY <1>7, Resumed DEF Typed
  <2> QED
    BY <2>1 DEF Mains
<1>8. ASSUME cancelDownload PROVE Mains'
  <2> DEFINE d == main.download
  <2>1. /\ d \in Task /\ dataTask[d] \in Task /\ dataTask[d] # None /\ Cancel(dataTask[d])
        /\ main'.at = "remove" /\ main'.download = d /\ active \in {d, None} /\ d # None
        /\ UNCHANGED <<active, dataTask>>
    BY <1>0, <1>8 DEF cancelDownload, Proceed, Cancelling, Mains, Typed
  <2>2. state'[dataTask[d]] # "running"
    BY <2>1, Cancelled
  <2> HIDE DEF d
  <2> QED
    BY <2>1, <2>2 DEF Mains
<1>9. ASSUME cancelDownload_remove PROVE Mains'
  <2>1. main'.at \in {"reload", "idle"}
    BY <1>9 DEF cancelDownload_remove, Proceed, Typed
  <2> QED
    BY <2>1 DEF Mains
<1>10. ASSUME cellForRowAt PROVE Mains'
  <2>1. main' = [at |-> "configure", download |-> active] /\ active' = active
    BY <1>10 DEF cellForRowAt
  <2> QED
    BY <2>1 DEF Mains
<1>11. ASSUME configure PROVE Mains'
  <2>1. main'.at \in {"reload", "idle"}
    BY <1>11 DEF configure, Resting, Buttons, Typed
  <2> QED
    BY <2>1 DEF Mains
<1>12. ASSUME reloadRows PROVE Mains'
  <2>1. main'.at \in {"reload", "idle"}
    BY <1>12 DEF reloadRows, Proceed, Typed
  <2> QED
    BY <2>1 DEF Mains
<1>13. ASSUME resumeDataHandler PROVE Mains'
  <2>1. UNCHANGED <<main, dataTask, isDownloading>> /\ active' \in {active, None}
    BY <1>13 DEF resumeDataHandler
  <2>2. \A j \in Task : /\ state'[j] = "unused" <=> state[j] = "unused"
                        /\ state'[j] = state[j] \/ state'[j] \notin {"running", "cancelled"}
    BY <1>13 DEF resumeDataHandler, Typed
  <2> QED
    BY <2>1, <2>2, MainsStay
<1>14. ASSUME didFinish_clear PROVE Mains'
  <2>1. UNCHANGED <<main, dataTask, isDownloading>> /\ active' \in {active, None}
    BY <1>14 DEF didFinish_clear, Cleared
  <2>2. \A j \in Task : /\ state'[j] = "unused" <=> state[j] = "unused"
                        /\ state'[j] = state[j] \/ state'[j] \notin {"running", "cancelled"}
    BY <1>14 DEF didFinish_clear, Cleared, Typed
  <2> QED
    BY <2>1, <2>2, MainsStay
<1>15. ASSUME didFinish_copy PROVE Mains'
  <2>1. UNCHANGED <<main, dataTask, isDownloading>> /\ active' \in {active, None}
    BY <1>15 DEF didFinish_copy
  <2>2. \A j \in Task : /\ state'[j] = "unused" <=> state[j] = "unused"
                        /\ state'[j] = state[j] \/ state'[j] \notin {"running", "cancelled"}
    BY <1>15 DEF didFinish_copy, Typed
  <2> QED
    BY <2>1, <2>2, MainsStay
<1>16. ASSUME didFinish_reload PROVE Mains'
  <2>1. UNCHANGED <<main, dataTask, isDownloading>> /\ active' \in {active, None}
    BY <1>16 DEF didFinish_reload, Reload, NotFinishing
  <2>2. \A j \in Task : /\ state'[j] = "unused" <=> state[j] = "unused"
                        /\ state'[j] = state[j] \/ state'[j] \notin {"running", "cancelled"}
    BY <1>16 DEF didFinish_reload, Reload, NotFinishing, Typed
  <2> QED
    BY <2>1, <2>2, MainsStay
<1>17. ASSUME NEW k \in Task, DataArrives(k) PROVE Mains'
  <2>1. UNCHANGED <<main, dataTask, isDownloading>> /\ active' \in {active, None}
    BY <1>17 DEF DataArrives
  <2>2. \A j \in Task : /\ state'[j] = "unused" <=> state[j] = "unused"
                        /\ state'[j] = state[j] \/ state'[j] \notin {"running", "cancelled"}
    BY <1>17 DEF DataArrives, Typed
  <2> QED
    BY <2>1, <2>2, MainsStay
<1>18. ASSUME NEW k \in Task, TaskEnds(k) PROVE Mains'
  <2>1. UNCHANGED <<main, dataTask, isDownloading>> /\ active' \in {active, None}
    BY <1>18 DEF TaskEnds
  <2>2. \A j \in Task : /\ state'[j] = "unused" <=> state[j] = "unused"
                        /\ state'[j] = state[j] \/ state'[j] \notin {"running", "cancelled"}
    BY <1>18 DEF TaskEnds, Typed
  <2> QED
    BY <2>1, <2>2, MainsStay
<1>19. ASSUME NEW k \in Task, didFinish_lookup(k) PROVE Mains'
  <2>1. UNCHANGED <<main, dataTask, isDownloading>> /\ active' \in {active, None}
    BY <1>19 DEF didFinish_lookup
  <2>2. \A j \in Task : /\ state'[j] = "unused" <=> state[j] = "unused"
                        /\ state'[j] = state[j] \/ state'[j] \notin {"running", "cancelled"}
    BY <1>19 DEF didFinish_lookup, Typed
  <2> QED
    BY <2>1, <2>2, MainsStay
<1> QED
  BY <1>1, <1>2, <1>3, <1>4, <1>5, <1>6, <1>7, <1>8, <1>9, <1>10, <1>11, <1>12, <1>13, <1>14,
     <1>15, <1>16, <1>17, <1>18, <1>19 DEF DownloadNext

(* The row shows the table, or a reload is on its way.                       *)
LEMMA RowsStep ==
  ASSUME Typed, Tasks, Mains, Rows, DownloadNext PROVE Rows'
<1> USE DEF view, noted, model, session
<1>1. ASSUME downloadTapped PROVE Rows'
  <2>1. main'.at \notin {"idle", "configure"}
    BY <1>1, Started DEF Typed
  <2> QED
    BY <2>1 DEF Rows
<1>2. ASSUME startDownload_insert PROVE Rows'
  <2>1. main'.at \notin {"idle", "configure"}
    BY <1>2 DEF startDownload_insert, Proceed, Typed
  <2> QED
    BY <2>1 DEF Rows
<1>3. ASSUME pauseTapped PROVE Rows'
  <2>1. main'.at \notin {"idle", "configure"}
    BY <1>3 DEF pauseTapped, LookUp, Typed
  <2> QED
    BY <2>1 DEF Rows
<1>4. ASSUME resumeTapped PROVE Rows'
  <2>1. main'.at \notin {"idle", "configure"}
    BY <1>4 DEF resumeTapped, LookUp, Typed
  <2> QED
    BY <2>1 DEF Rows
<1>5. ASSUME cancelTapped PROVE Rows'
  <2>1. main'.at \notin {"idle", "configure"}
    BY <1>5 DEF cancelTapped, LookUp, Typed
  <2> QED
    BY <2>1 DEF Rows
<1>6. ASSUME pauseDownload PROVE Rows'
  <2>1. main'.at \notin {"idle", "configure"}
    BY <1>6, Paused DEF Typed
  <2> QED
    BY <2>1 DEF Rows
<1>7. ASSUME resumeDownload PROVE Rows'
  <2>1. main'.at \notin {"idle", "configure"}
    BY <1>7, Resumed DEF Typed
  <2> QED
    BY <2>1 DEF Rows
<1>8. ASSUME cancelDownload PROVE Rows'
  <2>1. main'.at \notin {"idle", "configure"}
    BY <1>8 DEF cancelDownload, Proceed, Cancelling, Typed
  <2> QED
    BY <2>1 DEF Rows
<1>9. ASSUME cancelDownload_remove PROVE Rows'
  <2>1. main'.at \notin {"idle", "configure"}
    BY <1>9 DEF cancelDownload_remove, Proceed, Typed
  <2> QED
    BY <2>1 DEF Rows
<1>10. ASSUME cellForRowAt PROVE Rows'
  <2>1. main' = [at |-> "configure", download |-> active] /\ active' = active
    BY <1>10 DEF cellForRowAt
  <2> QED
    BY <2>1 DEF Rows
<1>11. ASSUME configure PROVE Rows'
  <2>1. /\ main.at = "configure" /\ main'.at = "idle" /\ cell' = Buttons(main.download)
        /\ UNCHANGED <<active, isDownloading, downloaded, reloads, callback, unseen>>
    BY <1>11 DEF configure, Resting
  <2>2. Coming' <=> Coming
    BY <2>1 DEF Coming
  <2>3. active \in {main.download, None}
    BY <2>1 DEF Mains
  <2>4. Buttons(active)' = Buttons(active)
    BY <2>1 DEF Buttons
  <2>5. active # None => cell' = Buttons(active)
    BY <2>1, <2>3
  <2>6. main.download = active \/ Coming
    BY <2>1 DEF Rows
  <2>7. cell' = Buttons(active) \/ Coming'
    BY <2>1, <2>2, <2>6
  <2> QED
    BY <2>1, <2>4, <2>5, <2>7 DEF Rows
<1>12. ASSUME reloadRows PROVE Rows'
  <2>1. main'.at \notin {"idle", "configure"}
    BY <1>12 DEF reloadRows, Proceed, Typed
  <2> QED
    BY <2>1 DEF Rows
<1>13. ASSUME resumeDataHandler PROVE Rows'
  <2>1. /\ UNCHANGED <<main, active, isDownloading, reloads, cell, downloaded, callback, unseen>>
    BY <1>13 DEF resumeDataHandler
  <2> QED
    BY <2>1 DEF Rows, Coming, Buttons
<1>14. ASSUME didFinish_clear PROVE Rows'
  <2>1. /\ active' = None /\ callback.at = "clear"
        /\ callback'.at = "copy" /\ callback'.download = callback.download
        /\ unseen' = (unseen \/ (callback.download = None /\ active # None))
        /\ UNCHANGED <<main, isDownloading, downloaded, reloads, cell>>
    BY <1>14 DEF didFinish_clear, Cleared, Typed
  <2>2. CASE active = None /\ callback.download = None
    BY <2>1, <2>2 DEF Rows, Coming, Buttons
  <2>3. CASE active # None \/ callback.download # None
    <3>1. Coming'
      BY <2>1, <2>3 DEF Coming
    <3> QED
      BY <2>1, <3>1 DEF Rows
  <2> QED
    BY <2>2, <2>3
<1>15. ASSUME didFinish_copy PROVE Rows'
  <2>1. /\ callback.at = "copy" /\ callback'.at = "post" /\ callback'.download = callback.download
        /\ UNCHANGED <<active, main, isDownloading, reloads, cell, unseen>>
        /\ callback.download = None => downloaded' = downloaded
    BY <1>15 DEF didFinish_copy, Typed
  <2>2. CASE callback.download = None
    BY <2>1, <2>2 DEF Rows, Coming, Buttons
  <2>3. CASE callback.download # None
    <3>1. Coming'
      BY <2>1, <2>3 DEF Coming
    <3>2. active # None => Buttons(active)' = Buttons(active)
      BY <2>1 DEF Buttons
    <3> QED
      BY <2>1, <3>1, <3>2 DEF Rows
  <2> QED
    BY <2>2, <2>3
<1>16. ASSUME didFinish_reload PROVE Rows'
  <2>1. /\ callback.at = "post" /\ callback'.at = "idle"
        /\ UNCHANGED <<active, main, isDownloading, cell, downloaded, unseen>>
        /\ reloads' = IF callback.download # None THEN reloads + 1 ELSE reloads
    BY <1>16 DEF didFinish_reload, Reload, NotFinishing, Typed
  <2>2. CASE callback.download = None
    BY <2>1, <2>2 DEF Rows, Coming, Buttons
  <2>3. CASE callback.download # None
    <3>1. Coming'
      BY <2>1, <2>3 DEF Coming, Typed
    <3> QED
      BY <2>1, <3>1 DEF Rows, Buttons
  <2> QED
    BY <2>2, <2>3
<1>17. ASSUME NEW k \in Task, DataArrives(k) PROVE Rows'
  <2>1. /\ UNCHANGED <<main, active, isDownloading, reloads, cell, downloaded, callback, unseen>>
    BY <1>17 DEF DataArrives
  <2> QED
    BY <2>1 DEF Rows, Coming, Buttons
<1>18. ASSUME NEW k \in Task, TaskEnds(k) PROVE Rows'
  <2>1. /\ UNCHANGED <<main, active, isDownloading, reloads, cell, downloaded, callback, unseen>>
    BY <1>18 DEF TaskEnds
  <2> QED
    BY <2>1 DEF Rows, Coming, Buttons
<1>19. ASSUME NEW k \in Task, didFinish_lookup(k) PROVE Rows'
  <2>1. /\ callback.at = "idle" /\ callback'.at = "clear"
        /\ UNCHANGED <<active, main, isDownloading, cell, downloaded, reloads, unseen>>
    BY <1>19 DEF didFinish_lookup
  <2> QED
    BY <2>1 DEF Rows, Coming, Buttons
<1> QED
  BY <1>1, <1>2, <1>3, <1>4, <1>5, <1>6, <1>7, <1>8, <1>9, <1>10, <1>11, <1>12, <1>13, <1>14,
     <1>15, <1>16, <1>17, <1>18, <1>19 DEF DownloadNext


(* No Download, no task, an empty table: nothing to be wrong.                *)
LEMMA TrackInit ==
  DownloadInit => TrackInv
<1> SUFFICES ASSUME DownloadInit PROVE TrackInv
  OBVIOUS
<1>1. Typed
  <2>1. 0 \in 0..MaxTasks /\ 0 \in 0..Size
    BY SongAssumption
  <2>2. /\ dataTask \in [Task -> 0..MaxTasks] /\ resumeData \in [Task -> 0..Size]
        /\ isDownloading \in [Task -> BOOLEAN] /\ state \in [Task -> States]
        /\ got \in [Task -> 0..Size]
    BY <2>1 DEF DownloadInit, States, None
  <2>3. /\ main \in [at : Spots, download : 0..MaxTasks]
        /\ callback \in [at : {"idle", "clear", "copy", "post"}, task : 0..MaxTasks,
                         download : 0..MaxTasks]
    BY <2>1 DEF DownloadInit, Spots, Resting, NotFinishing, None
  <2> QED
    BY <2>1, <2>2, <2>3 DEF DownloadInit, Typed, None
<1>2. Used = {} /\ Cardinality(Used) = 0
  <2>1. Used = {}
    BY DEF DownloadInit, Used
  <2> QED
    BY <2>1, FS_EmptySet
<1>3. Tasks
  <2>1. {} = 1..0
    OBVIOUS
  <2> QED
    BY <1>2, <2>1 DEF DownloadInit, Tasks, Expects, NotFinishing
<1>4. Mains /\ Rows
  BY DEF DownloadInit, Mains, Rows, Resting, Buttons, Coming
<1>5. Pauses
  BY DEF DownloadInit, Pauses
<1> QED
  BY <1>1, <1>3, <1>4, <1>5 DEF TrackInv

(* Every step keeps the invariant, part by part.                             *)
LEMMA TrackStep ==
  ASSUME TrackInv, DownloadNext PROVE TrackInv'
<1>1. Typed'
  BY TypedStep DEF TrackInv
<1>2. Tasks'
  BY TasksStep DEF TrackInv
<1>3. Mains'
  BY MainsStep DEF TrackInv
<1>4. Rows'
  BY RowsStep DEF TrackInv
<1>5. Pauses'
  BY PausesStep DEF TrackInv
<1> QED
  BY <1>1, <1>2, <1>3, <1>4, <1>5 DEF TrackInv

(* A step that changes none of the variables.                                *)
LEMMA TrackIdle ==
  ASSUME TrackInv, UNCHANGED downloadVars PROVE TrackInv'
<1> USE DEF downloadVars, model, session, view, noted
<1>1. Typed'
  BY DEF TrackInv, Typed
<1>2. \A d \in Task : Expects(d)' <=> Expects(d)
  BY DEF Expects
<1>3. Used' = Used /\ NewTask' = NewTask
  BY DEF Used, NewTask
<1>4. Tasks'
  BY <1>2, <1>3 DEF TrackInv, Tasks
<1>5. Mains'
  BY <1>3 DEF TrackInv, Mains
<1>6. Rows'
  BY DEF TrackInv, Rows, Coming, Buttons
<1>7. Pauses'
  BY DEF TrackInv, Pauses, PausedRight, Kept, Expects
<1> QED
  BY <1>1, <1>4, <1>5, <1>6, <1>7 DEF TrackInv

(* The invariant of the downloads holds in every state.                      *)
THEOREM TrackInvariant == DownloadSpec => []TrackInv
<1>1. TrackInv /\ [DownloadNext]_downloadVars => TrackInv'
  BY TrackStep, TrackIdle
<1> QED
  BY <1>1, TrackInit, PTL DEF DownloadSpec

(* The buttons are those of the Download in the table, or the row is to be   *)
(* reloaded: every tap and every finish that found a Download reload it.     *)
THEOREM TrackCellTruthful == DownloadSpec => []CellTruthful
<1>1. TrackInv => CellTruthful
  BY DEF TrackInv, Rows, Coming, CellTruthful, RowAnswered
<1> QED
  BY <1>1, TrackInvariant, PTL

(* Steps that leave every task that runs where it was.                       *)
LEMMA StaysInReach ==
  ASSUME UNCHANGED <<active, dataTask>>, main' = main \/ main.at # "insert",
         NEW k \in Task, state'[k] = "running" => state[k] = "running"
  PROVE  ~(/\ state'[k] = "running" /\ ~Reachable(k)'
           /\ (Reachable(k) \/ state[k] # "running"))
<1>1. Reachable(k) => Reachable(k)'
  BY DEF Reachable
<1> QED
  BY <1>1

\* The finish of another task took the entry, or had taken it before a resume.
FinishTook(k) == \/ callback.at = "clear" /\ callback.task # k
                 \/ main.at = "resume" /\ active = None

(* A task that gets out of reach lost its entry to a finish.                 *)
LEMMA NoTaskLostStep ==
  ASSUME TrackInv, DownloadNext, NEW k \in Task,
         state'[k] = "running", ~Reachable(k)', Reachable(k) \/ state[k] # "running"
  PROVE  FinishTook(k)
<1>0. Task \subseteq 0..MaxTasks /\ \A j \in 0..MaxTasks : j \in Task <=> j # None
  BY SongAssumption DEF Task, None
<1> USE DEF TrackInv, FinishTook, view, noted, model, session
<1>1. ASSUME downloadTapped PROVE FinishTook(k)
  <2>1. /\ NewTask \in Task /\ Resume(0) /\ 0 \in 0..Size /\ main.at = "idle" /\ cell = "download"
        /\ main' = [at |-> "insert", download |-> NewTask]
        /\ dataTask' = [dataTask EXCEPT ![NewTask] = NewTask]
    BY <1>1, Started
  <2>2. active = None
    BY <2>1 DEF Rows, Buttons
  <2>3. \A j \in Task : j # NewTask => state'[j] = state[j]
    BY <2>1, Created
  <2>4. CASE k = NewTask
    <3>1. main'.at = "insert" /\ dataTask'[main'.download] = k
      BY <2>1, <2>4 DEF Typed
    <3> QED
      BY <3>1 DEF Reachable
  <2>5. CASE k # NewTask
    <3>1. ~Reachable(k)
      BY <2>1, <2>2 DEF Reachable
    <3> QED
      BY <2>3, <2>5, <3>1
  <2> QED
    BY <2>4, <2>5
<1>2. ASSUME startDownload_insert PROVE FinishTook(k)
  <2>1. /\ main.at = "insert" /\ active = None /\ main.download # None
        /\ active' = main.download /\ UNCHANGED <<dataTask, state>>
    BY <1>2 DEF startDownload_insert, Mains
  <2>2. Reachable(k) => Reachable(k)'
    BY <2>1 DEF Reachable
  <2> QED
    BY <2>1, <2>2
<1>3. ASSUME pauseTapped PROVE FinishTook(k)
  <2>1. /\ UNCHANGED <<active, dataTask>> /\ (main' = main \/ main.at # "insert")
        /\ state'[k] = "running" => state[k] = "running"
    BY <1>3 DEF pauseTapped, LookUp
  <2> QED
    BY <2>1, StaysInReach
<1>4. ASSUME resumeTapped PROVE FinishTook(k)
  <2>1. /\ UNCHANGED <<active, dataTask>> /\ (main' = main \/ main.at # "insert")
        /\ state'[k] = "running" => state[k] = "running"
    BY <1>4 DEF resumeTapped, LookUp
  <2> QED
    BY <2>1, StaysInReach
<1>5. ASSUME cancelTapped PROVE FinishTook(k)
  <2>1. /\ UNCHANGED <<active, dataTask>> /\ (main' = main \/ main.at # "insert")
        /\ state'[k] = "running" => state[k] = "running"
    BY <1>5 DEF cancelTapped, LookUp
  <2> QED
    BY <2>1, StaysInReach
<1>6. ASSUME pauseDownload PROVE FinishTook(k)
  <2>1. /\ main.at = "pause" /\ UNCHANGED <<active, dataTask>>
        /\ dataTask[main.download] \in Task
        /\ state' = state \/ Cancel(dataTask[main.download])
    BY <1>6, Paused
  <2>2. state'[k] = "running" => state[k] = "running"
    BY <2>1, Cancelled
  <2> QED
    BY <2>1, <2>2, StaysInReach
<1>7. ASSUME resumeDownload PROVE FinishTook(k)
  <2> DEFINE d == main.download
  <2>1. /\ main.at = "resume" /\ NewTask \in Task /\ d \in Task /\ dataTask[d] \in Task
        /\ ~isDownloading[d] /\ active \in {d, None} /\ active' = active
        /\ Resume(resumeData[d]) /\ resumeData[d] \in 0..Size
        /\ dataTask' = [dataTask EXCEPT ![d] = NewTask]
    BY <1>7, Resumed
  <2>2. \A j \in Task : j # NewTask => state'[j] = state[j]
    BY <2>1, Created
  <2>3. dataTask[d] # None
    BY <1>0, <2>1
  <2>4. state[dataTask[d]] # "running"
    BY <2>1, <2>3 DEF Pauses, PausedRight
  <2> HIDE DEF d
  <2>5. CASE active = None
    BY <2>1, <2>5
  <2>6. CASE active = d /\ active # None
    <3>1. CASE k = NewTask
      BY <2>1, <2>6, <3>1 DEF Reachable, Typed
    <3>2. CASE k # NewTask
      <4>1. state[k] = "running"
        BY <2>2, <3>2
      <4>2. dataTask[d] = k
        BY <2>1, <2>6, <4>1 DEF Reachable
      <4> QED
        BY <2>4, <4>1, <4>2
    <3> QED
      BY <3>1, <3>2
  <2> QED
    BY <2>1, <2>5, <2>6
<1>8. ASSUME cancelDownload PROVE FinishTook(k)
  <2>1. /\ main.at = "cancel" /\ UNCHANGED <<active, dataTask>>
        /\ dataTask[main.download] \in Task /\ Cancel(dataTask[main.download])
    BY <1>0, <1>8 DEF cancelDownload, Cancelling, Mains, Typed
  <2>2. state'[k] = "running" => state[k] = "running"
    BY <2>1, Cancelled
  <2> QED
    BY <2>1, <2>2, StaysInReach
<1>9. ASSUME cancelDownload_remove PROVE FinishTook(k)
  <2>1. /\ main.at = "remove" /\ UNCHANGED <<dataTask, state>>
        /\ active \in {main.download, None} /\ state[dataTask[main.download]] # "running"
    BY <1>9 DEF cancelDownload_remove, Mains
  <2> QED
    BY <2>1 DEF Reachable
<1>10. ASSUME cellForRowAt PROVE FinishTook(k)
  <2>1. /\ UNCHANGED <<active, dataTask>> /\ (main' = main \/ main.at # "insert")
        /\ state'[k] = "running" => state[k] = "running"
    BY <1>10 DEF cellForRowAt
  <2> QED
    BY <2>1, StaysInReach
<1>11. ASSUME configure PROVE FinishTook(k)
  <2>1. /\ UNCHANGED <<active, dataTask>> /\ (main' = main \/ main.at # "insert")
        /\ state'[k] = "running" => state[k] = "running"
    BY <1>11 DEF configure, Resting, Buttons
  <2> QED
    BY <2>1, StaysInReach
<1>12. ASSUME reloadRows PROVE FinishTook(k)
  <2>1. /\ UNCHANGED <<active, dataTask>> /\ (main' = main \/ main.at # "insert")
        /\ state'[k] = "running" => state[k] = "running"
    BY <1>12 DEF reloadRows, Proceed
  <2> QED
    BY <2>1, StaysInReach
<1>13. ASSUME resumeDataHandler PROVE FinishTook(k)
  <2>1. /\ UNCHANGED <<active, dataTask>> /\ (main' = main \/ main.at # "insert")
        /\ state'[k] = "running" => state[k] = "running"
    BY <1>13 DEF resumeDataHandler
  <2> QED
    BY <2>1, StaysInReach
<1>14. ASSUME didFinish_clear PROVE FinishTook(k)
  <2>1. callback.at = "clear" /\ state' = state
    BY <1>14 DEF didFinish_clear
  <2>2. state[callback.task] = "over"
    BY <2>1 DEF Tasks
  <2> QED
    BY <2>1, <2>2
<1>15. ASSUME didFinish_copy PROVE FinishTook(k)
  <2>1. /\ UNCHANGED <<active, dataTask>> /\ (main' = main \/ main.at # "insert")
        /\ state'[k] = "running" => state[k] = "running"
    BY <1>15 DEF didFinish_copy
  <2> QED
    BY <2>1, StaysInReach
<1>16. ASSUME didFinish_reload PROVE FinishTook(k)
  <2>1. /\ UNCHANGED <<active, dataTask>> /\ (main' = main \/ main.at # "insert")
        /\ state'[k] = "running" => state[k] = "running"
    BY <1>16 DEF didFinish_reload, Reload, NotFinishing
  <2> QED
    BY <2>1, StaysInReach
<1>17. ASSUME NEW j \in Task, DataArrives(j) PROVE FinishTook(k)
  <2>1. /\ UNCHANGED <<active, dataTask>> /\ (main' = main \/ main.at # "insert")
        /\ state'[k] = "running" => state[k] = "running"
    BY <1>17 DEF DataArrives, Typed
  <2> QED
    BY <2>1, StaysInReach
<1>18. ASSUME NEW j \in Task, TaskEnds(j) PROVE FinishTook(k)
  <2>1. /\ UNCHANGED <<active, dataTask>> /\ (main' = main \/ main.at # "insert")
        /\ state'[k] = "running" => state[k] = "running"
    BY <1>18 DEF TaskEnds, Typed
  <2> QED
    BY <2>1, StaysInReach
<1>19. ASSUME NEW j \in Task, didFinish_lookup(j) PROVE FinishTook(k)
  <2>1. /\ UNCHANGED <<active, dataTask>> /\ (main' = main \/ main.at # "insert")
        /\ state'[k] = "running" => state[k] = "running"
    BY <1>19 DEF didFinish_lookup, Typed
  <2> QED
    BY <2>1, StaysInReach
<1> QED
  BY <1>1, <1>2, <1>3, <1>4, <1>5, <1>6, <1>7, <1>8, <1>9, <1>10, <1>11, <1>12, <1>13, <1>14,
     <1>15, <1>16, <1>17, <1>18, <1>19 DEF DownloadNext

(* Whatever is tapped, and when, a running task gets out of reach only when  *)
(* the finish of another task took the entry.                                *)
THEOREM TrackNoTaskLost == DownloadSpec => NoTaskLost
<1>1. TrackInv /\ [DownloadNext]_downloadVars =>
        [\A k \in Task :
           state'[k] = "running" /\ ~Reachable(k)' /\ (Reachable(k) \/ state[k] # "running") =>
           \/ callback.at = "clear" /\ callback.task # k
           \/ main.at = "resume" /\ active = None]_downloadVars
  BY NoTaskLostStep DEF FinishTook
<1> QED
  BY <1>1, TrackInvariant, PTL DEF DownloadSpec, NoTaskLost

\* The download was over before it was entered, or the network fails it.
OverBefore == \/ main.at = "insert" /\ state[main.download] \in {"over", "failed"}
              \/ state'[dataTask[active]] = "failed"

(* No tap and no finish leaves an entry whose download is over.              *)
LEMMA NoEntryLeftStep ==
  ASSUME TrackInv, DownloadNext, InProgress, ~InProgress'
  PROVE  OverBefore
<1>0. Task \subseteq 0..MaxTasks /\ \A j \in 0..MaxTasks : j \in Task <=> j # None
  BY SongAssumption DEF Task, None
<1> USE DEF TrackInv, OverBefore, view, noted, model, session
<1>1. ASSUME downloadTapped PROVE OverBefore
  <2>1. main.at = "idle" /\ cell = "download" /\ active' = active
    BY <1>1, Started
  <2>2. active = None
    BY <2>1 DEF Rows, Buttons
  <2> QED
    BY <2>1, <2>2 DEF InProgress
<1>2. ASSUME startDownload_insert PROVE OverBefore
  <2>1. /\ main.at = "insert" /\ active' = main.download /\ UNCHANGED <<dataTask, state>>
        /\ dataTask[main.download] = main.download /\ state[main.download] # "cancelled"
        /\ main.download # None
    BY <1>2 DEF startDownload_insert, Mains
  <2>2. main.download \in Task
    BY <1>0, <2>1 DEF Typed
  <2>3. state[main.download] \notin {"running", "finished"}
    BY <2>1 DEF InProgress
  <2>4. state[main.download] # "unused"
    BY <2>1, <2>2 DEF Tasks
  <2> QED
    BY <2>1, <2>2, <2>3, <2>4 DEF Typed, States
<1>3. ASSUME pauseTapped PROVE OverBefore
  <2>1. /\ UNCHANGED <<active, dataTask, isDownloading, state>> /\ main.at # "remove"
        /\ callback' = callback \/ callback.at # "clear"
    BY <1>3 DEF pauseTapped, LookUp
  <2> QED
    BY <2>1 DEF InProgress
<1>4. ASSUME resumeTapped PROVE OverBefore
  <2>1. /\ UNCHANGED <<active, dataTask, isDownloading, state>> /\ main.at # "remove"
        /\ callback' = callback \/ callback.at # "clear"
    BY <1>4 DEF resumeTapped, LookUp
  <2> QED
    BY <2>1 DEF InProgress
<1>5. ASSUME cancelTapped PROVE OverBefore
  <2>1. /\ UNCHANGED <<active, dataTask, isDownloading, state>> /\ main.at # "remove"
        /\ callback' = callback \/ callback.at # "clear"
    BY <1>5 DEF cancelTapped, LookUp
  <2> QED
    BY <2>1 DEF InProgress
<1>6. ASSUME pauseDownload PROVE OverBefore
  <2>1. /\ main.at = "pause" /\ main' = [main EXCEPT !.at = "reload"] /\ main.download \in Task
        /\ UNCHANGED <<active, dataTask, callback>> /\ active \in {main.download, None}
        /\ \/ ~isDownloading[main.download] /\ UNCHANGED <<state, isDownloading>>
           \/ isDownloading' = [isDownloading EXCEPT ![main.download] = FALSE]
    BY <1>6, Paused DEF Mains
  <2>2. ~isDownloading'[main.download]
    BY <2>1 DEF Typed
  <2> QED
    BY <2>1, <2>2 DEF InProgress
<1>7. ASSUME resumeDownload PROVE OverBefore
  <2> DEFINE d == main.download
  <2>1. /\ NewTask \in Task /\ d \in Task /\ active \in {d, None} /\ active' = active
        /\ Resume(resumeData[d]) /\ resumeData[d] \in 0..Size
        /\ dataTask' = [dataTask EXCEPT ![d] = NewTask]
    BY <1>7, Resumed
  <2>2. state'[NewTask] = "running"
    BY <2>1, Created
  <2> HIDE DEF d
  <2>3. dataTask'[d] = NewTask
    BY <2>1 DEF Typed
  <2> QED
    BY <2>1, <2>2, <2>3 DEF InProgress
<1>8. ASSUME cancelDownload PROVE OverBefore
  <2>1. main'.at = "remove"
    BY <1>8 DEF cancelDownload, Proceed, Typed
  <2> QED
    BY <2>1 DEF InProgress
<1>9. ASSUME cancelDownload_remove PROVE OverBefore
  <2>1. active' = None
    BY <1>9 DEF cancelDownload_remove, Proceed
  <2> QED
    BY <2>1 DEF InProgress
<1>10. ASSUME cellForRowAt PROVE OverBefore
  <2>1. /\ UNCHANGED <<active, dataTask, isDownloading, state>> /\ main.at # "remove"
        /\ callback' = callback \/ callback.at # "clear"
    BY <1>10 DEF cellForRowAt
  <2> QED
    BY <2>1 DEF InProgress
<1>11. ASSUME configure PROVE OverBefore
  <2>1. /\ UNCHANGED <<active, dataTask, isDownloading, state>> /\ main.at # "remove"
        /\ callback' = callback \/ callback.at # "clear"
    BY <1>11 DEF configure, Resting, Buttons
  <2> QED
    BY <2>1 DEF InProgress
<1>12. ASSUME reloadRows PROVE OverBefore
  <2>1. /\ UNCHANGED <<active, dataTask, isDownloading, state>> /\ main.at # "remove"
        /\ callback' = callback \/ callback.at # "clear"
    BY <1>12 DEF reloadRows, Proceed
  <2> QED
    BY <2>1 DEF InProgress
<1>13. ASSUME resumeDataHandler PROVE OverBefore
  <2>1. /\ UNCHANGED <<active, dataTask, isDownloading, state, main>>
        /\ callback' = callback \/ callback.at # "clear"
    BY <1>13 DEF resumeDataHandler
  <2> QED
    BY <2>1 DEF InProgress
<1>14. ASSUME didFinish_clear PROVE OverBefore
  <2>1. active' = None
    BY <1>14 DEF didFinish_clear, Cleared
  <2> QED
    BY <2>1 DEF InProgress
<1>15. ASSUME didFinish_copy PROVE OverBefore
  <2>1. /\ UNCHANGED <<active, dataTask, isDownloading, state, main>>
        /\ callback' = callback \/ callback.at # "clear"
    BY <1>15 DEF didFinish_copy
  <2> QED
    BY <2>1 DEF InProgress
<1>16. ASSUME didFinish_reload PROVE OverBefore
  <2>1. /\ UNCHANGED <<active, dataTask, isDownloading, state, main>>
        /\ callback' = callback \/ callback.at # "clear"
    BY <1>16 DEF didFinish_reload, Reload, NotFinishing
  <2> QED
    BY <2>1 DEF InProgress
<1>17. ASSUME NEW j \in Task, DataArrives(j) PROVE OverBefore
  <2>1. /\ UNCHANGED <<active, dataTask, isDownloading, state, main>>
        /\ callback' = callback \/ callback.at # "clear"
    BY <1>17 DEF DataArrives
  <2> QED
    BY <2>1 DEF InProgress
<1>18. ASSUME NEW j \in Task, TaskEnds(j) PROVE OverBefore
  <2>1. /\ UNCHANGED <<active, dataTask, isDownloading, main, callback>>
        /\ \/ state' = [state EXCEPT ![j] = "finished"]
           \/ state' = [state EXCEPT ![j] = "failed"]
    BY <1>18 DEF TaskEnds
  <2>2. active # None => active \in Task /\ dataTask[active] \in Task
    BY <1>0 DEF Tasks, Typed
  <2> QED
    BY <2>1, <2>2 DEF InProgress, Typed
<1>19. ASSUME NEW j \in Task, didFinish_lookup(j) PROVE OverBefore
  <2>1. callback'.at = "clear"
    BY <1>19 DEF didFinish_lookup
  <2> QED
    BY <2>1 DEF InProgress
<1> QED
  BY <1>1, <1>2, <1>3, <1>4, <1>5, <1>6, <1>7, <1>8, <1>9, <1>10, <1>11, <1>12, <1>13, <1>14,
     <1>15, <1>16, <1>17, <1>18, <1>19 DEF DownloadNext

(* An entry is one of a download that is over because the network failed it  *)
(* or because it was over before it was entered, and for no other reason.    *)
THEOREM TrackNoEntryLeft == DownloadSpec => NoEntryLeft
<1>1. TrackInv /\ [DownloadNext]_downloadVars =>
        [InProgress /\ ~InProgress' =>
           \/ main.at = "insert" /\ state[main.download] \in {"over", "failed"}
           \/ state'[dataTask[active]] = "failed"]_downloadVars
  BY NoEntryLeftStep DEF OverBefore
<1> QED
  BY <1>1, TrackInvariant, PTL DEF DownloadSpec, NoEntryLeft

(* No tap loses a task or leaves an entry behind, for any number of tasks.   *)
THEOREM TrackTableTruthful == DownloadSpec => TableTruthful
  BY TrackNoTaskLost, TrackNoEntryLeft DEF TableTruthful

(* The new task starts with the data of the one the pause cancelled.         *)
LEMMA ResumeGoesOnStep ==
  ASSUME TrackInv, DownloadNext, NEW d \in Task, Continues(d)
  PROVE  GoesOn(d) \/ Expects(d) \/ d \in hurried
<1> USE DEF TrackInv, view, noted, model, session
<1>1. ASSUME downloadTapped PROVE GoesOn(d) \/ Expects(d) \/ d \in hurried
  <2>1. /\ NewTask \in Task /\ Resume(0) /\ 0 \in 0..Size
        /\ dataTask' = [dataTask EXCEPT ![NewTask] = NewTask]
    BY <1>1, Started
  <2>2. dataTask[NewTask] = None
    BY <2>1, Created
  <2> QED
    BY <2>1, <2>2 DEF Continues, Typed
<1>2. ASSUME startDownload_insert PROVE GoesOn(d) \/ Expects(d) \/ d \in hurried
  BY <1>2 DEF startDownload_insert, Proceed, Continues
<1>3. ASSUME pauseTapped PROVE GoesOn(d) \/ Expects(d) \/ d \in hurried
  BY <1>3 DEF pauseTapped, LookUp, Continues
<1>4. ASSUME resumeTapped PROVE GoesOn(d) \/ Expects(d) \/ d \in hurried
  BY <1>4 DEF resumeTapped, LookUp, Continues
<1>5. ASSUME cancelTapped PROVE GoesOn(d) \/ Expects(d) \/ d \in hurried
  BY <1>5 DEF cancelTapped, LookUp, Continues
<1>6. ASSUME pauseDownload PROVE GoesOn(d) \/ Expects(d) \/ d \in hurried
  BY <1>6 DEF pauseDownload, Proceed, Continues
<1>7. ASSUME resumeDownload PROVE GoesOn(d) \/ Expects(d) \/ d \in hurried
  <2> DEFINE e == main.download
  <2>1. /\ NewTask \in Task /\ e \in Task /\ ~isDownloading[e]
        /\ Resume(resumeData[e]) /\ resumeData[e] \in 0..Size
        /\ dataTask' = [dataTask EXCEPT ![e] = NewTask]
    BY <1>7, Resumed
  <2>2. got'[NewTask] = resumeData[e]
    BY <2>1, Created
  <2> HIDE DEF e
  <2>3. d = e /\ dataTask'[e] = NewTask
    BY <2>1 DEF Continues, Typed
  <2>4. dataTask[d] # None /\ state[dataTask[d]] = "cancelled"
    BY DEF Continues
  <2>5. d \notin hurried => Kept(d)
    BY <2>1, <2>3, <2>4 DEF Pauses, PausedRight
  <2> QED
    BY <2>2, <2>3, <2>5 DEF Kept, GoesOn
<1>8. ASSUME cancelDownload PROVE GoesOn(d) \/ Expects(d) \/ d \in hurried
  BY <1>8 DEF cancelDownload, Proceed, Cancelling, Continues
<1>9. ASSUME cancelDownload_remove PROVE GoesOn(d) \/ Expects(d) \/ d \in hurried
  BY <1>9 DEF cancelDownload_remove, Proceed, Continues
<1>10. ASSUME cellForRowAt PROVE GoesOn(d) \/ Expects(d) \/ d \in hurried
  BY <1>10 DEF cellForRowAt, Continues
<1>11. ASSUME configure PROVE GoesOn(d) \/ Expects(d) \/ d \in hurried
  BY <1>11 DEF configure, Resting, Buttons, Continues
<1>12. ASSUME reloadRows PROVE GoesOn(d) \/ Expects(d) \/ d \in hurried
  BY <1>12 DEF reloadRows, Proceed, Continues
<1>13. ASSUME resumeDataHandler PROVE GoesOn(d) \/ Expects(d) \/ d \in hurried
  BY <1>13 DEF resumeDataHandler, Continues
<1>14. ASSUME didFinish_clear PROVE GoesOn(d) \/ Expects(d) \/ d \in hurried
  BY <1>14 DEF didFinish_clear, Cleared, Continues
<1>15. ASSUME didFinish_copy PROVE GoesOn(d) \/ Expects(d) \/ d \in hurried
  BY <1>15 DEF didFinish_copy, Continues
<1>16. ASSUME didFinish_reload PROVE GoesOn(d) \/ Expects(d) \/ d \in hurried
  BY <1>16 DEF didFinish_reload, Reload, NotFinishing, Continues
<1>17. ASSUME NEW k \in Task, DataArrives(k) PROVE GoesOn(d) \/ Expects(d) \/ d \in hurried
  BY <1>17 DEF DataArrives, Continues
<1>18. ASSUME NEW k \in Task, TaskEnds(k) PROVE GoesOn(d) \/ Expects(d) \/ d \in hurried
  BY <1>18 DEF TaskEnds, Continues
<1>19. ASSUME NEW k \in Task, didFinish_lookup(k) PROVE GoesOn(d) \/ Expects(d) \/ d \in hurried
  BY <1>19 DEF didFinish_lookup, Continues
<1> QED
  BY <1>1, <1>2, <1>3, <1>4, <1>5, <1>6, <1>7, <1>8, <1>9, <1>10, <1>11, <1>12, <1>13, <1>14,
     <1>15, <1>16, <1>17, <1>18, <1>19 DEF DownloadNext

(* A Download resumed after its data came goes on where it was paused.       *)
THEOREM TrackResumeGoesOn == DownloadSpec => ResumeGoesOn
<1>1. TrackInv /\ [DownloadNext]_downloadVars =>
        [\A d \in Task : Continues(d) => GoesOn(d) \/ Expects(d) \/ d \in hurried]_downloadVars
  BY ResumeGoesOnStep
<1> QED
  BY <1>1, TrackInvariant, PTL DEF DownloadSpec, ResumeGoesOn

(*-------------------------------- sources ---------------------------------*)
\* Where a thread is: arming, unregistering, waking the source up, draining it.
Arming == {"arm", "kevent"}
Unregistering == {"unreg", "kdelete", "deferred", "deleted", "wake"}
Waking == {"wakeup", "class_wakeup"}
Draining == {"flags", "reread", "latch", "handler", "latched", "uncancel", "callout", "unlock",
             "requeue"}
Activation == {"finalize", "resume"} \cup Arming \cup Unregistering
SourceLabels == {"idle", "transfer", "activate", "trylock", "drop", "data", "lock", "locked",
                 "await", "sleep", "asleep", "xrelease"}
                \cup Activation \cup Waking \cup Draining

\* The calls that do not hold a reference, and those that do.
Activators == {"activate", "waitActivate"}
WaitOrActivate == {"wait"} \cup Activators
Referring == {"cancel", "merge", "release", "invoke"}

SourceBits == State \cup Over \cup {"waiter"}
SourceTypes ==
  /\ flags \subseteq SourceBits
  /\ phase \in {"inactive", "activating", "active"} /\ owner \in Actors \cup {Nobody}
  /\ cancelH \in {"none", "set", "called", "disposed"} /\ callers \subseteq Clients
  /\ knote \in {"none", "enabled", "disabled"} /\ posted \in {"none", "event", "delete"}
  /\ at \in [Actors -> SourceLabels]
  /\ doing \in [Actors -> WaitOrActivate \cup Referring \cup {"none"}]
  /\ DOMAIN ret = Actors /\ DOMAIN wish = Actors
  /\ seen \in [Actors -> SUBSET SourceBits]

\* Which labels each call passes, and where it returns to from a subroutine.
Course(t) ==
  /\ doing[t] = "none" => at[t] = "idle"
  /\ doing[t] \in Activators => at[t] \in Activation \cup Waking \cup {"transfer", "activate"}
  /\ doing[t] = "wait" => at[t] \in Unregistering \cup Waking \cup
                                    {"lock", "locked", "transfer", "await", "sleep", "asleep"}
  /\ doing[t] = "invoke" => at[t] \in Draining \cup Arming \cup Unregistering \cup Waking
                                      \cup {"trylock", "drop"}
  /\ doing[t] = "cancel" => at[t] \in Waking
  /\ doing[t] = "merge" => at[t] \in Waking \cup {"data"}
  /\ doing[t] = "release" => at[t] \in Waking \cup {"xrelease"}
  /\ at[t] = "data" => ret[t] = "event"
  /\ at[t] \in Arming =>
       ret[t] \in IF doing[t] = "invoke" THEN {"flags", "rearm"} ELSE {"resume"}
  /\ at[t] \in Unregistering =>
       ret[t] \in CASE doing[t] = "invoke" -> {"flags", "reread", "uncancel"}
                    [] doing[t] = "wait" -> {"locked"}
                    [] OTHER -> {"resume"}

\* Who has the drain lock, and who has the source while it is being activated.
HasSource(t) == \/ at[t] \in Draining \cup {"locked", "transfer"}
                \/ doing[t] = "invoke" /\ at[t] \in Arming \cup Unregistering \cup Waking
                \/ doing[t] = "wait" /\ at[t] \in Unregistering
Activates(t) == doing[t] \in Activators /\ at[t] \in Activation

DrainLocked == /\ owner # Nobody => phase = "active"
               /\ \A t \in Actors : HasSource(t) <=> owner = t
               /\ \A t \in Actors : Activates(t) => phase = "activating"
               /\ phase = "activating" => \E t \in Clients : Activates(t)

\* The rules of source_private.h, and what they leave to a client.
CallsFit ==
  /\ \A t \in Actors : doing[t] \in WaitOrActivate => t \in Clients /\ clientRef
  /\ phase # "active" => /\ clientRef
                         /\ \A t, u \in Actors :
                              doing[t] \in WaitOrActivate /\ doing[u] \in WaitOrActivate => t = u
  /\ phase = "inactive" => /\ ~installed /\ dkev /\ flags \cap State = {}
                           /\ \A t \in Actors : doing[t] # "activate"
  /\ \A t \in Actors : at[t] = "lock" => phase # "activating"
  /\ \A t \in Actors : at[t] = "finalize" => ~installed /\ dkev /\ flags \cap State = {}
  /\ \A t \in Actors : at[t] = "lock" \/ doing[t] = "waitActivate" => "canceled" \in flags
  /\ \A t \in Actors : doing[t] = "waitActivate" =>
                         /\ at[t] \notin Arming
                         /\ at[t] \in Waking \cup {"resume", "transfer"} => "deleted" \in flags

\* Is a thread there.
Somebody(l) == \E t \in Actors : at[t] = l

\* Was the source cancelled, or released for the last time.
IsOver == flags \cap Over # {}
\* No event was, or is to be, merged.
NoData == ~data /\ ~Somebody("data")

\* What the flags and the fields say of the knote.
KnoteFits ==
  /\ knote = "enabled" => "armed" \in flags /\ posted = "none"
  /\ posted = "event" => "armed" \in flags /\ knote = "disabled"
  /\ posted = "delete" => /\ "armed" \in flags /\ knote = "none" /\ IsOver
                          /\ "deferred" \in flags \/ Somebody("deferred")
  /\ "deleted" \in flags => "armed" \notin flags /\ knote = "none" /\ posted = "none"
  /\ "deleted" \in flags /\ ~IsOver => NoData
  /\ ~dkev => knote = "none" /\ posted = "none"
  /\ ~dkev => "deleted" \in flags \/ Somebody("deleted")
  /\ ~dkev => ~rearm \/ Somebody("deleted") \/ Somebody("wake")
  /\ ~rearm => ~dkev /\ installed /\ "deferred" \notin flags
  /\ ~installed => /\ flags \cap {"armed", "deferred"} = {} /\ knote = "none" /\ posted = "none"
                   /\ NoData
                   /\ "deleted" \in flags => Somebody("wake")
  /\ "deferred" \in flags => IsOver /\ (dkev \/ Somebody("deleted"))
  /\ "deleted" \in flags /\ "deferred" \notin flags /\ dkev =>
       Somebody("unreg") \/ Somebody("deferred")

\* What the thread that has the source knows where it is.
Stage(t) ==
  /\ at[t] = "arm" => dkev /\ rearm /\ flags \cap State = {} /\ (ret[t] # "rearm" <=> ~installed)
  /\ at[t] = "kevent" => /\ dkev /\ rearm /\ installed /\ flags \cap State = {"armed"}
                         /\ knote # "enabled" /\ posted = "none"
                         /\ ret[t] # "rearm" => knote = "none" /\ NoData
  /\ at[t] = "unreg" => /\ dkev /\ posted # "delete" /\ (IsOver \/ "deleted" \in flags)
                        /\ ret[t] = "resume" => ~installed \/ "deleted" \in flags
  /\ at[t] = "kdelete" => /\ dkev /\ rearm /\ posted # "delete" /\ IsOver
                          /\ "deleted" \notin flags /\ installed
                          /\ "armed" \in flags => "armed" \in seen[t]
                          /\ ret[t] # "resume"
  /\ at[t] = "deferred" => dkev /\ IsOver /\ installed /\ ret[t] # "resume"
  /\ at[t] = "deleted" => ~dkev /\ (IsOver \/ "deleted" \in flags)
  /\ at[t] = "wake" => ~dkev /\ "deleted" \in flags /\ "deferred" \notin flags
  /\ at[t] \in Draining \/ (doing[t] = "invoke" /\ at[t] \in Waking) => installed
  /\ at[t] \in {"latch", "handler"} => flags \cap {"deferred", "deleted"} = {}
  /\ at[t] = "uncancel" => "deferred" \in flags \/ ~dkev
  /\ at[t] = "callout" => "deleted" \in flags /\ "deferred" \notin flags

\* The client is told of the end only when it is the end.
ToldOfEnd == /\ cancelH = "called" \/ returned => "deleted" \in flags
             /\ ~trapped

\* A source that is ENQUEUED is in its target queue or in the hands of one worker.
InQueueOnce == /\ enqueued <=> pushed \/ Somebody("trylock")
               /\ \A t \in Actors : at[t] = "trylock" => ~pushed
               /\ \A t, u \in Actors : at[t] = "trylock" /\ at[u] = "trylock" => t = u

One(b) == IF b THEN 1 ELSE 0
Registered == dkev \/ Somebody("deleted") \/ Somebody("wake")
CancelsInHandler == \E t \in Actors : doing[t] = "invoke" /\ at[t] \in Waking
Referrers == {t \in Actors : doing[t] \in Referring}
SourceReferences ==
  refcnt = One(clientRef) + One(Registered) + One(phase # "active") + One(pushed)
           + One(CancelsInHandler) + Cardinality(Referrers)

SourceInv == /\ SourceTypes /\ \A t \in Actors : Course(t)
             /\ DrainLocked /\ CallsFit /\ KnoteFits
             /\ \A t \in Actors : Stage(t)
             /\ ToldOfEnd /\ InQueueOnce /\ SourceReferences

\* One step of a thread, or one call.
SourceMoves(t) == \/ SourceInside(t) \/ dispatch_source_cancel(t)
                  \/ /\ t \in callers
                     /\ \/ dispatch_activate(t) \/ dispatch_source_cancel_and_wait(t)
                        \/ dispatch_release(t)

(* Every step keeps the types.                                               *)
LEMMA SourceTypesStep ==
  ASSUME SourceTypes, NEW t \in Actors, Course(t), SourceMoves(t), ~MayVanish
  PROVE  SourceTypes'
<1> USE DEF SourceTypes, Course, SourceBits, State, Over, SourceLabels, Activation, Arming,
    Unregistering, Waking, Draining, WaitOrActivate, Activators, Referring, word, fields,
    callouts, kernel, locals, history
<1>1. CASE wakeup(t)
  BY <1>1 DEF wakeup, See, Go
<1>2. CASE class_wakeup(t)
  BY <1>2 DEF class_wakeup, HasWork, Acknowledges, Consumes, Flushes, Return, Done, Go, See,
     ShouldWakeup, Runnable
<1>3. CASE tryarm(t)
  BY <1>3 DEF tryarm, MayArm, ArmFailed, Call, Go
<1>4. CASE kevent_resume(t)
  BY <1>4 DEF kevent_resume, Armed, Call, Go
<1>5. CASE kevent_register_fails(t)
  BY <1>5 DEF kevent_register_fails, ArmFailed, Call, Go
<1>6. CASE unregister(t)
  BY <1>6 DEF unregister, See, Go
<1>7. CASE unregister_kernel(t)
  BY <1>7 DEF unregister_kernel, Dropped, ImmediateDelete, Go
<1>8. CASE unregister_deferred(t)
  BY <1>8 DEF unregister_deferred, Call, Go, See
<1>9. CASE unregister_deleted(t)
  BY <1>9 DEF unregister_deleted, See, Go
<1>10. CASE unregister_done(t)
  BY <1>10 DEF unregister_done, See, Wakes
<1>11. CASE t \in Workers /\ Pop(t)
  BY <1>11 DEF Pop, Begin, Go
<1>12. CASE drain_try_lock(t)
  BY <1>12 DEF drain_try_lock, Runnable, Invoke, Go, Call
<1>13. CASE invoke2_flags(t)
  BY <1>13 DEF invoke2_flags, Acknowledges, Delivers, Canceling, Rearming, MustEnd, Call, Go
<1>14. CASE latch_and_call(t)
  BY <1>14 DEF latch_and_call, Go
<1>15. CASE HandlerReturns(t)
  BY <1>15 DEF HandlerReturns, Go
<1>16. CASE invoke_latched(t)
  BY <1>16 DEF invoke_latched, Canceling, Rearming, MustEnd, Call, Go
<1>17. CASE invoke_unregistered(t)
  BY <1>17 DEF invoke_unregistered, Call, Go
<1>18. CASE cancel_callout(t)
  BY <1>18 DEF cancel_callout, CancelCallout, Rearming, Call, Go
<1>19. CASE drain_try_unlock(t)
  BY <1>19 DEF drain_try_unlock, Invoke, Call, Go
<1>20. CASE drain_requeue(t)
  BY <1>20 DEF drain_requeue, Done, Go, See
<1>21. CASE drain_drop(t)
  BY <1>21 DEF drain_drop, Done, Go, See
<1>22. CASE t \in Managers /\ merge_kevent(t)
  BY <1>22 DEF merge_kevent, MergedFlags, Call, Go
<1>23. CASE merge_data(t)
  BY <1>23 DEF merge_data, Call, Go
<1>24. CASE finalize_activation(t)
  BY <1>24 DEF finalize_activation, Call, Go
<1>25. CASE activate_resume(t)
  BY <1>25 DEF activate_resume, Go
<1>26. CASE transfer_or_wakeup(t)
  BY <1>26 DEF transfer_or_wakeup, Return, Done, See, Go
<1>27. CASE wait_lock(t)
  BY <1>27 DEF wait_lock, Runnable, Call, Go, WaitDirties
<1>28. CASE wait_activate(t)
  BY <1>28 DEF wait_activate, Go
<1>29. CASE wait_unregistered(t)
  BY <1>29 DEF wait_unregistered, Go, CancelCallout
<1>30. CASE wait_await(t)
  BY <1>30 DEF wait_await, Done, See, Go
<1>31. CASE wait_sleep(t)
  BY <1>31 DEF wait_sleep, Go, See
<1>32. CASE xref_release(t)
  BY <1>32 DEF xref_release, Done, See, Go
<1>33. CASE dispatch_source_cancel(t)
  BY <1>33 DEF dispatch_source_cancel, Begin, Go
<1>34. CASE t \in callers /\ dispatch_activate(t)
  BY <1>34 DEF dispatch_activate, Begin, Go
<1>35. CASE t \in callers /\ dispatch_source_cancel_and_wait(t)
  BY <1>35 DEF dispatch_source_cancel_and_wait, MayWait, Call, Go
<1>36. CASE t \in callers /\ dispatch_release(t)
  BY SMTT(60), <1>36 DEF dispatch_release, Begin, Go
<1> QED
  BY SMTT(60), <1>1, <1>2, <1>3, <1>4, <1>5, <1>6, <1>7, <1>8, <1>9, <1>10, <1>11, <1>12, <1>13,
     <1>14, <1>15, <1>16, <1>17, <1>18, <1>19, <1>20, <1>21, <1>22, <1>23, <1>24, <1>25, <1>26,
     <1>27, <1>28, <1>29, <1>30, <1>31, <1>32, <1>33, <1>34, <1>35, <1>36
  DEF SourceMoves, SourceInside

(* Every call stays on its course.                                           *)
LEMMA CourseStep ==
  ASSUME SourceTypes, NEW t \in Actors, \A u \in Actors : Course(u), SourceMoves(t), ~MayVanish
  PROVE  \A u \in Actors : Course(u)'
<1> USE DEF SourceTypes, Course, SourceLabels, Activation, Arming, Unregistering, Waking,
    Draining, WaitOrActivate, Activators, Referring, word, fields, callouts, kernel, locals,
    history
<1>1. CASE wakeup(t)
  BY <1>1 DEF wakeup, See, Go
<1>2. CASE class_wakeup(t)
  BY <1>2 DEF class_wakeup, HasWork, Acknowledges, Consumes, Flushes, Return, Done, Go, See,
     ShouldWakeup, Runnable
<1>3. CASE tryarm(t)
  BY <1>3 DEF tryarm, MayArm, ArmFailed, Call, Go
<1>4. CASE kevent_resume(t)
  BY <1>4 DEF kevent_resume, Armed, Call, Go
<1>5. CASE kevent_register_fails(t)
  BY <1>5 DEF kevent_register_fails, ArmFailed, Call, Go
<1>6. CASE unregister(t)
  BY <1>6 DEF unregister, See, Go
<1>7. CASE unregister_kernel(t)
  BY <1>7 DEF unregister_kernel, Dropped, ImmediateDelete, Go
<1>8. CASE unregister_deferred(t)
  BY <1>8 DEF unregister_deferred, Call, Go, See
<1>9. CASE unregister_deleted(t)
  BY <1>9 DEF unregister_deleted, See, Go
<1>10. CASE unregister_done(t)
  BY <1>10 DEF unregister_done, See, Wakes
<1>11. CASE t \in Workers /\ Pop(t)
  BY <1>11 DEF Pop, Begin, Go
<1>12. CASE drain_try_lock(t)
  BY <1>12 DEF drain_try_lock, Runnable, Invoke, Go, Call
<1>13. CASE invoke2_flags(t)
  BY <1>13 DEF invoke2_flags, Acknowledges, Delivers, Canceling, Rearming, MustEnd, Call, Go
<1>14. CASE latch_and_call(t)
  BY <1>14 DEF latch_and_call, Go
<1>15. CASE HandlerReturns(t)
  BY <1>15 DEF HandlerReturns, Go
<1>16. CASE invoke_latched(t)
  BY <1>16 DEF invoke_latched, Canceling, Rearming, MustEnd, Call, Go
<1>17. CASE invoke_unregistered(t)
  BY <1>17 DEF invoke_unregistered, Call, Go
<1>18. CASE cancel_callout(t)
  BY <1>18 DEF cancel_callout, CancelCallout, Rearming, Call, Go
<1>19. CASE drain_try_unlock(t)
  BY <1>19 DEF drain_try_unlock, Invoke, Call, Go
<1>20. CASE drain_requeue(t)
  BY <1>20 DEF drain_requeue, Done, Go, See
<1>21. CASE drain_drop(t)
  BY <1>21 DEF drain_drop, Done, Go, See
<1>22. CASE t \in Managers /\ merge_kevent(t)
  BY <1>22 DEF merge_kevent, MergedFlags, Call, Go
<1>23. CASE merge_data(t)
  BY <1>23 DEF merge_data, Call, Go
<1>24. CASE finalize_activation(t)
  BY <1>24 DEF finalize_activation, Call, Go
<1>25. CASE activate_resume(t)
  BY <1>25 DEF activate_resume, Go
<1>26. CASE transfer_or_wakeup(t)
  BY <1>26 DEF transfer_or_wakeup, Return, Done, See, Go
<1>27. CASE wait_lock(t)
  BY <1>27 DEF wait_lock, Runnable, Call, Go, WaitDirties
<1>28. CASE wait_activate(t)
  BY <1>28 DEF wait_activate, Go
<1>29. CASE wait_unregistered(t)
  BY <1>29 DEF wait_unregistered, Go, CancelCallout
<1>30. CASE wait_await(t)
  BY <1>30 DEF wait_await, Done, See, Go
<1>31. CASE wait_sleep(t)
  BY <1>31 DEF wait_sleep, Go, See
<1>32. CASE xref_release(t)
  BY <1>32 DEF xref_release, Done, See, Go
<1>33. CASE dispatch_source_cancel(t)
  BY <1>33 DEF dispatch_source_cancel, Begin, Go
<1>34. CASE t \in callers /\ dispatch_activate(t)
  BY <1>34 DEF dispatch_activate, Begin, Go
<1>35. CASE t \in callers /\ dispatch_source_cancel_and_wait(t)
  BY <1>35 DEF dispatch_source_cancel_and_wait, MayWait, Call, Go
<1>36. CASE t \in callers /\ dispatch_release(t)
  BY <1>36 DEF dispatch_release, Begin, Go
<1> QED
  BY SMTT(60), <1>1, <1>2, <1>3, <1>4, <1>5, <1>6, <1>7, <1>8, <1>9, <1>10, <1>11, <1>12, <1>13,
     <1>14, <1>15, <1>16, <1>17, <1>18, <1>19, <1>20, <1>21, <1>22, <1>23, <1>24, <1>25, <1>26,
     <1>27, <1>28, <1>29, <1>30, <1>31, <1>32, <1>33, <1>34, <1>35, <1>36
  DEF SourceMoves, SourceInside

\* The thread that has the source; at these labels nobody else does.
InHand(t) == at[t] \in Activation \cup Draining \cup {"locked", "transfer"}

(* One thread at a time has the source: under the drain lock, or activating  *)
(* it.                                                                       *)
LEMMA SoleHolder ==
  ASSUME SourceTypes, \A t \in Actors : Course(t), DrainLocked, CallsFit,
         NEW t \in Actors, NEW u \in Actors, HasSource(t) \/ InHand(t), HasSource(u) \/ InHand(u)
  PROVE  t = u
<1>1. ASSUME NEW v \in Actors, HasSource(v) \/ InHand(v) PROVE HasSource(v) \/ Activates(v)
  BY <1>1 DEF SourceTypes, Course, InHand, HasSource, Activates, SourceLabels, Activation, Arming,
     Unregistering, Waking, Draining, WaitOrActivate, Activators, Referring
<1>2. CASE HasSource(t) /\ HasSource(u)
  BY <1>2 DEF DrainLocked
<1>3. CASE Activates(t) /\ Activates(u)
  BY <1>3 DEF DrainLocked, CallsFit, Activates, WaitOrActivate
<1>4. ASSUME NEW v \in Actors, HasSource(v) PROVE phase = "active"
  BY <1>4, SourceAssumption DEF DrainLocked, Actors
<1>5. ASSUME NEW v \in Actors, Activates(v) PROVE phase = "activating"
  BY SMTT(60), <1>5 DEF DrainLocked
<1> QED
  BY <1>1, <1>2, <1>3, <1>4, <1>5

(* What a step leaves alone: the others, unless it wakes them.               *)
LEMMA SourceFrame ==
  ASSUME SourceTypes, NEW t \in Actors, SourceMoves(t)
  PROVE  \A u \in Actors \ {t} :
            /\ at'[u] = at[u] \/ (at[u] = "asleep" /\ at'[u] = "await")
            /\ doing'[u] = doing[u] /\ ret'[u] = ret[u] /\ seen'[u] = seen[u]
            /\ wish'[u] = wish[u]
<1> USE DEF SourceTypes, word, fields, callouts, kernel, locals, history
<1>1. CASE wakeup(t)
  BY <1>1 DEF wakeup, See, Go
<1>2. CASE class_wakeup(t)
  BY <1>2 DEF class_wakeup, HasWork, Acknowledges, Consumes, Flushes, Return, Done, Go, See,
     ShouldWakeup, Runnable
<1>3. CASE tryarm(t)
  BY <1>3 DEF tryarm, MayArm, ArmFailed, Call, Go
<1>4. CASE kevent_resume(t)
  BY <1>4 DEF kevent_resume, Armed, Call, Go
<1>5. CASE kevent_register_fails(t)
  BY <1>5 DEF kevent_register_fails, ArmFailed, Call, Go
<1>6. CASE unregister(t)
  BY <1>6 DEF unregister, See, Go
<1>7. CASE unregister_kernel(t)
  BY <1>7 DEF unregister_kernel, Dropped, ImmediateDelete, Go
<1>8. CASE unregister_deferred(t)
  BY <1>8 DEF unregister_deferred, Call, Go, See
<1>9. CASE unregister_deleted(t)
  BY <1>9 DEF unregister_deleted, See, Go
<1>10. CASE unregister_done(t)
  BY <1>10 DEF unregister_done, See, Wakes
<1>11. CASE t \in Workers /\ Pop(t)
  BY <1>11 DEF Pop, Begin, Go
<1>12. CASE drain_try_lock(t)
  BY <1>12 DEF drain_try_lock, Runnable, Invoke, Go, Call
<1>13. CASE invoke2_flags(t)
  BY <1>13 DEF invoke2_flags, Acknowledges, Delivers, Canceling, Rearming, MustEnd, Call, Go
<1>14. CASE latch_and_call(t)
  BY <1>14 DEF latch_and_call, Go
<1>15. CASE HandlerReturns(t)
  BY <1>15 DEF HandlerReturns, Go
<1>16. CASE invoke_latched(t)
  BY <1>16 DEF invoke_latched, Canceling, Rearming, MustEnd, Call, Go
<1>17. CASE invoke_unregistered(t)
  BY <1>17 DEF invoke_unregistered, Call, Go
<1>18. CASE cancel_callout(t)
  BY <1>18 DEF cancel_callout, CancelCallout, Rearming, Call, Go
<1>19. CASE drain_try_unlock(t)
  BY <1>19 DEF drain_try_unlock, Invoke, Call, Go
<1>20. CASE drain_requeue(t)
  BY <1>20 DEF drain_requeue, Done, Go, See
<1>21. CASE drain_drop(t)
  BY <1>21 DEF drain_drop, Done, Go, See
<1>22. CASE t \in Managers /\ merge_kevent(t)
  BY <1>22 DEF merge_kevent, MergedFlags, Call, Go
<1>23. CASE merge_data(t)
  BY <1>23 DEF merge_data, Call, Go
<1>24. CASE finalize_activation(t)
  BY <1>24 DEF finalize_activation, Call, Go
<1>25. CASE activate_resume(t)
  BY <1>25 DEF activate_resume, Go
<1>26. CASE transfer_or_wakeup(t)
  BY <1>26 DEF transfer_or_wakeup, Return, Done, See, Go
<1>27. CASE wait_lock(t)
  BY <1>27 DEF wait_lock, Runnable, Call, Go, WaitDirties
<1>28. CASE wait_activate(t)
  BY <1>28 DEF wait_activate, Go
<1>29. CASE wait_unregistered(t)
  BY <1>29 DEF wait_unregistered, Go, CancelCallout
<1>30. CASE wait_await(t)
  BY <1>30 DEF wait_await, Done, See, Go
<1>31. CASE wait_sleep(t)
  BY <1>31 DEF wait_sleep, Go, See
<1>32. CASE xref_release(t)
  BY <1>32 DEF xref_release, Done, See, Go
<1>33. CASE dispatch_source_cancel(t)
  BY <1>33 DEF dispatch_source_cancel, Begin, Go
<1>34. CASE t \in callers /\ dispatch_activate(t)
  BY <1>34 DEF dispatch_activate, Begin, Go
<1>35. CASE t \in callers /\ dispatch_source_cancel_and_wait(t)
  BY <1>35 DEF dispatch_source_cancel_and_wait, MayWait, Call, Go
<1>36. CASE t \in callers /\ dispatch_release(t)
  BY <1>36 DEF dispatch_release, Begin, Go
<1> QED
  BY SMTT(60), <1>1, <1>2, <1>3, <1>4, <1>5, <1>6, <1>7, <1>8, <1>9, <1>10, <1>11, <1>12, <1>13,
     <1>14, <1>15, <1>16, <1>17, <1>18, <1>19, <1>20, <1>21, <1>22, <1>23, <1>24, <1>25, <1>26,
     <1>27, <1>28, <1>29, <1>30, <1>31, <1>32, <1>33, <1>34, <1>35, <1>36
  DEF SourceMoves, SourceInside

(* Nobody else takes the source, or loses it.                                *)
LEMMA SourceOthersStay ==
  ASSUME SourceTypes, NEW t \in Actors, SourceMoves(t), NEW u \in Actors, u # t
  PROVE  /\ HasSource(u)' <=> HasSource(u)
         /\ Activates(u)' <=> Activates(u)
         /\ InHand(u)' <=> InHand(u)
BY SMTT(60), SourceFrame DEF HasSource, Activates, InHand, SourceLabels, Activation, Arming,
   Unregistering, Waking, Draining, WaitOrActivate, Activators, Referring

(* What a step does to the drain lock.                                       *)
LEMMA LockMoves ==
  ASSUME SourceTypes, \A u \in Actors : Course(u), DrainLocked, CallsFit, NEW t \in Actors,
         SourceMoves(t),
         ~MayVanish
  PROVE  /\ HasSource(t)' <=> owner' = t
         /\ owner' = owner \/ (owner' \in {t, Nobody} /\ owner \in {t, Nobody})
         /\ owner' = t => phase' = "active"
         /\ Activates(t)' => phase' = "activating"
         /\ \/ phase' = phase
            \/ phase = "inactive" /\ Activates(t)' /\ t \in Clients
            \/ Activates(t) /\ phase' = "active"
         /\ Activates(t) => Activates(t)' \/ phase' = "active"
<1> USE DEF SourceTypes, Course, HasSource, Activates, SourceLabels, Activation, Arming,
    Unregistering, Waking, Draining, WaitOrActivate, Activators, Referring, word, fields,
    callouts, kernel, locals, history
<1> Nobody \notin Actors
  BY SourceAssumption DEF Actors
<1>c. Course(t) /\ (owner = t <=> HasSource(t)) /\ (Activates(t) => phase = "activating")
  BY DEF DrainLocked
<1>e. owner # Nobody => phase = "active"
  BY DEF DrainLocked
<1>d. (doing[t] \in WaitOrActivate => t \in Clients) /\ callers \subseteq Clients
  BY DEF CallsFit, SourceTypes
<1>1. CASE wakeup(t)
  BY <1>1, <1>c, <1>d, <1>e DEF wakeup, See, Go
<1>2. CASE class_wakeup(t)
  BY <1>2, <1>c, <1>d, <1>e DEF class_wakeup, HasWork, Acknowledges, Consumes, Flushes, Return,
     Done, Go, See, ShouldWakeup, Runnable
<1>3. CASE tryarm(t)
  BY <1>3, <1>c, <1>d, <1>e DEF tryarm, MayArm, ArmFailed, Call, Go
<1>4. CASE kevent_resume(t)
  BY <1>4, <1>c, <1>d, <1>e DEF kevent_resume, Armed, Call, Go
<1>5. CASE kevent_register_fails(t)
  BY <1>5, <1>c, <1>d, <1>e DEF kevent_register_fails, ArmFailed, Call, Go
<1>6. CASE unregister(t)
  BY <1>6, <1>c, <1>d, <1>e DEF unregister, See, Go
<1>7. CASE unregister_kernel(t)
  BY <1>7, <1>c, <1>d, <1>e DEF unregister_kernel, Dropped, ImmediateDelete, Go
<1>8. CASE unregister_deferred(t)
  BY <1>8, <1>c, <1>d, <1>e DEF unregister_deferred, Call, Go, See
<1>9. CASE unregister_deleted(t)
  BY <1>9, <1>c, <1>d, <1>e DEF unregister_deleted, See, Go
<1>10. CASE unregister_done(t)
  BY <1>10, <1>c, <1>d, <1>e DEF unregister_done, See, Wakes
<1>11. CASE t \in Workers /\ Pop(t)
  BY <1>11, <1>c, <1>d, <1>e DEF Pop, Begin, Go
<1>12. CASE drain_try_lock(t)
  BY <1>12, <1>c, <1>d, <1>e DEF drain_try_lock, Runnable, Invoke, Go, Call
<1>13. CASE invoke2_flags(t)
  BY <1>13, <1>c, <1>d, <1>e DEF invoke2_flags, Acknowledges, Delivers, Canceling, Rearming,
     MustEnd, Call, Go
<1>14. CASE latch_and_call(t)
  BY <1>14, <1>c, <1>d, <1>e DEF latch_and_call, Go
<1>15. CASE HandlerReturns(t)
  BY <1>15, <1>c, <1>d, <1>e DEF HandlerReturns, Go
<1>16. CASE invoke_latched(t)
  BY <1>16, <1>c, <1>d, <1>e DEF invoke_latched, Canceling, Rearming, MustEnd, Call, Go
<1>17. CASE invoke_unregistered(t)
  BY <1>17, <1>c, <1>d, <1>e DEF invoke_unregistered, Call, Go
<1>18. CASE cancel_callout(t)
  BY <1>18, <1>c, <1>d, <1>e DEF cancel_callout, CancelCallout, Rearming, Call, Go
<1>19. CASE drain_try_unlock(t)
  BY <1>19, <1>c, <1>d, <1>e DEF drain_try_unlock, Invoke, Call, Go
<1>20. CASE drain_requeue(t)
  BY <1>20, <1>c, <1>d, <1>e DEF drain_requeue, Done, Go, See
<1>21. CASE drain_drop(t)
  BY <1>21, <1>c, <1>d, <1>e DEF drain_drop, Done, Go, See
<1>22. CASE t \in Managers /\ merge_kevent(t)
  BY <1>22, <1>c, <1>d, <1>e DEF merge_kevent, MergedFlags, Call, Go
<1>23. CASE merge_data(t)
  BY <1>23, <1>c, <1>d, <1>e DEF merge_data, Call, Go
<1>24. CASE finalize_activation(t)
  BY <1>24, <1>c, <1>d, <1>e DEF finalize_activation, Call, Go
<1>25. CASE activate_resume(t)
  BY <1>25, <1>c, <1>d, <1>e DEF activate_resume, Go
<1>26. CASE transfer_or_wakeup(t)
  BY <1>26, <1>c, <1>d, <1>e DEF transfer_or_wakeup, Return, Done, See, Go
<1>27. CASE wait_lock(t)
  BY <1>27, <1>c, <1>d, <1>e DEF wait_lock, Runnable, Call, Go, WaitDirties
<1>28. CASE wait_activate(t)
  BY <1>28, <1>c, <1>d, <1>e DEF wait_activate, Go
<1>29. CASE wait_unregistered(t)
  BY <1>29, <1>c, <1>d, <1>e DEF wait_unregistered, Go, CancelCallout
<1>30. CASE wait_await(t)
  BY <1>30, <1>c, <1>d, <1>e DEF wait_await, Done, See, Go
<1>31. CASE wait_sleep(t)
  BY <1>31, <1>c, <1>d, <1>e DEF wait_sleep, Go, See
<1>32. CASE xref_release(t)
  BY <1>32, <1>c, <1>d, <1>e DEF xref_release, Done, See, Go
<1>33. CASE dispatch_source_cancel(t)
  BY <1>33, <1>c, <1>d, <1>e DEF dispatch_source_cancel, Begin, Go
<1>34. CASE t \in callers /\ dispatch_activate(t)
  BY <1>34, <1>c, <1>d, <1>e DEF dispatch_activate, Begin, Go
<1>35. CASE t \in callers /\ dispatch_source_cancel_and_wait(t)
  BY <1>35, <1>c, <1>d, <1>e DEF dispatch_source_cancel_and_wait, MayWait, Call, Go
<1>36. CASE t \in callers /\ dispatch_release(t)
  BY <1>36, <1>c, <1>d, <1>e DEF dispatch_release, Begin, Go
<1> QED
  BY SMTT(60), <1>1, <1>2, <1>3, <1>4, <1>5, <1>6, <1>7, <1>8, <1>9, <1>10, <1>11, <1>12, <1>13,
     <1>14, <1>15, <1>16, <1>17, <1>18, <1>19, <1>20, <1>21, <1>22, <1>23, <1>24, <1>25, <1>26,
     <1>27, <1>28, <1>29, <1>30, <1>31, <1>32, <1>33, <1>34, <1>35, <1>36
  DEF SourceMoves, SourceInside

(* The drain lock has one owner, and the activation is over before the       *)
(* first.                                                                    *)
LEMMA DrainLockedStep ==
  ASSUME SourceTypes, \A u \in Actors : Course(u), DrainLocked, CallsFit, NEW t \in Actors,
         SourceMoves(t),
         ~MayVanish
  PROVE  DrainLocked'
<1> Nobody \notin Actors
  BY SourceAssumption DEF Actors
<1>1. ASSUME NEW u \in Actors, u # t
      PROVE  (HasSource(u)' <=> HasSource(u)) /\ (Activates(u)' <=> Activates(u))
  BY <1>1, SourceOthersStay
<1>2. owner \in Actors \cup {Nobody}
  BY DEF SourceTypes
<1>3. owner' # Nobody => phase' = "active"
  <2>1. CASE owner' = owner
    BY <2>1, LockMoves DEF DrainLocked
  <2> QED
    BY <2>1, LockMoves
<1>4. ASSUME NEW u \in Actors PROVE HasSource(u)' <=> owner' = u
  BY <1>1, <1>2, <1>4, LockMoves DEF DrainLocked
<1>5. ASSUME NEW u \in Actors, Activates(u)' PROVE phase' = "activating"
  <2>1. CASE u = t
    BY <1>5, <2>1, LockMoves
  <2>2. CASE u # t
    <3>1. phase = "activating" /\ Activates(u)
      BY <1>1, <1>5, <2>2 DEF DrainLocked
    <3>2. ~Activates(t)
      BY <2>2, <3>1 DEF CallsFit, Activates, WaitOrActivate
    <3> QED
      BY <3>1, <3>2, LockMoves
  <2> QED
    BY <2>1, <2>2
<1>6. ASSUME phase' = "activating" PROVE \E u \in Clients : Activates(u)'
  <2>1. CASE phase = "activating"
    <3>1. PICK u \in Clients : Activates(u)
      BY <2>1 DEF DrainLocked
    <3>2. u \in Actors
      BY DEF Actors
    <3> QED
      BY <1>1, <1>6, <3>1, <3>2, LockMoves
  <2>2. CASE phase # "activating"
    BY <1>6, <2>2, LockMoves
  <2> QED
    BY <2>1, <2>2
<1> QED
  BY <1>3, <1>4, <1>5, <1>6 DEF DrainLocked

(* A source is pushed once.                                                  *)
LEMMA InQueueOnceStep ==
  ASSUME SourceTypes, InQueueOnce, NEW t \in Actors, Course(t), SourceMoves(t)
  PROVE  InQueueOnce'
<1> USE DEF SourceTypes, InQueueOnce, Somebody, Course, SourceLabels, Activation, Arming,
    Unregistering, Waking, Draining, WaitOrActivate, Activators, Referring, word, fields,
    callouts, kernel, locals, history
<1>1. CASE wakeup(t)
  BY <1>1 DEF wakeup, See, Go
<1>2. CASE class_wakeup(t)
  <2>1. at'[t] # "trylock" /\ at[t] # "trylock" /\ \A u \in Actors : u # t => at'[u] = at[u]
    BY <1>2 DEF class_wakeup, HasWork, Acknowledges, Consumes, Flushes, Return, Done, Go, See,
       ShouldWakeup, Runnable
  <2>2. CASE (enqueued' <=> enqueued) /\ (pushed' <=> pushed)
    BY <2>1, <2>2
  <2>3. CASE ~enqueued /\ enqueued' /\ pushed'
    BY <2>1, <2>3
  <2>4. ((enqueued' <=> enqueued) /\ (pushed' <=> pushed)) \/ (~enqueued /\ enqueued' /\ pushed')
    <3>1. CASE HasWork(seen[t]) /\ ShouldWakeup
      BY <1>2, <3>1 DEF class_wakeup, ShouldWakeup
    <3>2. CASE HasWork(seen[t]) /\ ~ShouldWakeup
      BY <1>2, <3>2 DEF class_wakeup
    <3>3. CASE ~HasWork(seen[t])
      BY <1>2, <3>3 DEF class_wakeup
    <3> QED
      BY <3>1, <3>2, <3>3
  <2> QED
    BY <2>2, <2>3, <2>4
<1>3. CASE tryarm(t)
  BY <1>3 DEF tryarm, MayArm, ArmFailed, Call, Go
<1>4. CASE kevent_resume(t)
  BY <1>4 DEF kevent_resume, Armed, Call, Go
<1>5. CASE kevent_register_fails(t)
  BY <1>5 DEF kevent_register_fails, ArmFailed, Call, Go
<1>6. CASE unregister(t)
  BY <1>6 DEF unregister, See, Go
<1>7. CASE unregister_kernel(t)
  BY <1>7 DEF unregister_kernel, Dropped, ImmediateDelete, Go
<1>8. CASE unregister_deferred(t)
  BY <1>8 DEF unregister_deferred, Call, Go, See
<1>9. CASE unregister_deleted(t)
  BY <1>9 DEF unregister_deleted, See, Go
<1>10. CASE unregister_done(t)
  BY <1>10 DEF unregister_done, See, Wakes
<1>11. CASE t \in Workers /\ Pop(t)
  BY <1>11 DEF Pop, Begin, Go
<1>12. CASE drain_try_lock(t)
  BY <1>12 DEF drain_try_lock, Runnable, Invoke, Go, Call
<1>13. CASE invoke2_flags(t)
  BY <1>13 DEF invoke2_flags, Acknowledges, Delivers, Canceling, Rearming, MustEnd, Call, Go
<1>14. CASE latch_and_call(t)
  BY <1>14 DEF latch_and_call, Go
<1>15. CASE HandlerReturns(t)
  BY <1>15 DEF HandlerReturns, Go
<1>16. CASE invoke_latched(t)
  BY <1>16 DEF invoke_latched, Canceling, Rearming, MustEnd, Call, Go
<1>17. CASE invoke_unregistered(t)
  BY <1>17 DEF invoke_unregistered, Call, Go
<1>18. CASE cancel_callout(t)
  BY <1>18 DEF cancel_callout, CancelCallout, Rearming, Call, Go
<1>19. CASE drain_try_unlock(t)
  BY <1>19 DEF drain_try_unlock, Invoke, Call, Go
<1>20. CASE drain_requeue(t)
  BY <1>20 DEF drain_requeue, Done, Go, See
<1>21. CASE drain_drop(t)
  BY <1>21 DEF drain_drop, Done, Go, See
<1>22. CASE t \in Managers /\ merge_kevent(t)
  BY <1>22 DEF merge_kevent, MergedFlags, Call, Go
<1>23. CASE merge_data(t)
  BY <1>23 DEF merge_data, Call, Go
<1>24. CASE finalize_activation(t)
  BY <1>24 DEF finalize_activation, Call, Go
<1>25. CASE activate_resume(t)
  BY <1>25 DEF activate_resume, Go
<1>26. CASE transfer_or_wakeup(t)
  BY <1>26 DEF transfer_or_wakeup, Return, Done, See, Go
<1>27. CASE wait_lock(t)
  BY <1>27 DEF wait_lock, Runnable, Call, Go, WaitDirties
<1>28. CASE wait_activate(t)
  BY <1>28 DEF wait_activate, Go
<1>29. CASE wait_unregistered(t)
  BY <1>29 DEF wait_unregistered, Go, CancelCallout
<1>30. CASE wait_await(t)
  BY <1>30 DEF wait_await, Done, See, Go
<1>31. CASE wait_sleep(t)
  BY <1>31 DEF wait_sleep, Go, See
<1>32. CASE xref_release(t)
  BY <1>32 DEF xref_release, Done, See, Go
<1>33. CASE dispatch_source_cancel(t)
  BY <1>33 DEF dispatch_source_cancel, Begin, Go
<1>34. CASE t \in callers /\ dispatch_activate(t)
  BY <1>34 DEF dispatch_activate, Begin, Go
<1>35. CASE t \in callers /\ dispatch_source_cancel_and_wait(t)
  BY <1>35 DEF dispatch_source_cancel_and_wait, MayWait, Call, Go
<1>36. CASE t \in callers /\ dispatch_release(t)
  BY <1>36 DEF dispatch_release, Begin, Go
<1> QED
  BY SMTT(60), <1>1, <1>2, <1>3, <1>4, <1>5, <1>6, <1>7, <1>8, <1>9, <1>10, <1>11, <1>12, <1>13,
     <1>14, <1>15, <1>16, <1>17, <1>18, <1>19, <1>20, <1>21, <1>22, <1>23, <1>24, <1>25, <1>26,
     <1>27, <1>28, <1>29, <1>30, <1>31, <1>32, <1>33, <1>34, <1>35, <1>36
  DEF SourceMoves, SourceInside

(* A cancelled, released or deleted source stays that.                       *)
LEMMA FlagsGrow ==
  ASSUME SourceTypes, NEW t \in Actors, SourceMoves(t), ~MayVanish
  PROVE  /\ "canceled" \in flags => "canceled" \in flags'
         /\ "released" \in flags => "released" \in flags'
         /\ "deleted" \in flags => "deleted" \in flags'
<1> USE DEF SourceTypes, SourceBits, State, Over, word, fields, callouts, kernel, locals, history
<1>1. CASE wakeup(t)
  BY <1>1 DEF wakeup, See, Go
<1>2. CASE class_wakeup(t)
  BY <1>2 DEF class_wakeup, HasWork, Acknowledges, Consumes, Flushes, Return, Done, Go, See,
     ShouldWakeup, Runnable
<1>3. CASE tryarm(t)
  BY <1>3 DEF tryarm, MayArm, ArmFailed, Call, Go
<1>4. CASE kevent_resume(t)
  BY <1>4 DEF kevent_resume, Armed, Call, Go
<1>5. CASE kevent_register_fails(t)
  BY <1>5 DEF kevent_register_fails, ArmFailed, Call, Go
<1>6. CASE unregister(t)
  BY <1>6 DEF unregister, See, Go
<1>7. CASE unregister_kernel(t)
  BY <1>7 DEF unregister_kernel, Dropped, ImmediateDelete, Go
<1>8. CASE unregister_deferred(t)
  BY <1>8 DEF unregister_deferred, Call, Go, See
<1>9. CASE unregister_deleted(t)
  BY <1>9 DEF unregister_deleted, See, Go
<1>10. CASE unregister_done(t)
  BY <1>10 DEF unregister_done, See, Wakes
<1>11. CASE t \in Workers /\ Pop(t)
  BY <1>11 DEF Pop, Begin, Go
<1>12. CASE drain_try_lock(t)
  BY <1>12 DEF drain_try_lock, Runnable, Invoke, Go, Call
<1>13. CASE invoke2_flags(t)
  BY <1>13 DEF invoke2_flags, Acknowledges, Delivers, Canceling, Rearming, MustEnd, Call, Go
<1>14. CASE latch_and_call(t)
  BY <1>14 DEF latch_and_call, Go
<1>15. CASE HandlerReturns(t)
  BY <1>15 DEF HandlerReturns, Go
<1>16. CASE invoke_latched(t)
  BY <1>16 DEF invoke_latched, Canceling, Rearming, MustEnd, Call, Go
<1>17. CASE invoke_unregistered(t)
  BY <1>17 DEF invoke_unregistered, Call, Go
<1>18. CASE cancel_callout(t)
  BY <1>18 DEF cancel_callout, CancelCallout, Rearming, Call, Go
<1>19. CASE drain_try_unlock(t)
  BY <1>19 DEF drain_try_unlock, Invoke, Call, Go
<1>20. CASE drain_requeue(t)
  BY <1>20 DEF drain_requeue, Done, Go, See
<1>21. CASE drain_drop(t)
  BY <1>21 DEF drain_drop, Done, Go, See
<1>22. CASE t \in Managers /\ merge_kevent(t)
  BY <1>22 DEF merge_kevent, MergedFlags, Call, Go
<1>23. CASE merge_data(t)
  BY <1>23 DEF merge_data, Call, Go
<1>24. CASE finalize_activation(t)
  BY <1>24 DEF finalize_activation, Call, Go
<1>25. CASE activate_resume(t)
  BY <1>25 DEF activate_resume, Go
<1>26. CASE transfer_or_wakeup(t)
  BY <1>26 DEF transfer_or_wakeup, Return, Done, See, Go
<1>27. CASE wait_lock(t)
  BY <1>27 DEF wait_lock, Runnable, Call, Go, WaitDirties
<1>28. CASE wait_activate(t)
  BY <1>28 DEF wait_activate, Go
<1>29. CASE wait_unregistered(t)
  BY <1>29 DEF wait_unregistered, Go, CancelCallout
<1>30. CASE wait_await(t)
  BY <1>30 DEF wait_await, Done, See, Go
<1>31. CASE wait_sleep(t)
  BY <1>31 DEF wait_sleep, Go, See
<1>32. CASE xref_release(t)
  BY <1>32 DEF xref_release, Done, See, Go
<1>33. CASE dispatch_source_cancel(t)
  BY <1>33 DEF dispatch_source_cancel, Begin, Go
<1>34. CASE t \in callers /\ dispatch_activate(t)
  BY <1>34 DEF dispatch_activate, Begin, Go
<1>35. CASE t \in callers /\ dispatch_source_cancel_and_wait(t)
  BY <1>35 DEF dispatch_source_cancel_and_wait, MayWait, Call, Go
<1>36. CASE t \in callers /\ dispatch_release(t)
  BY SMTT(60), <1>36 DEF dispatch_release, Begin, Go
<1> QED
  BY SMTT(60), <1>1, <1>2, <1>3, <1>4, <1>5, <1>6, <1>7, <1>8, <1>9, <1>10, <1>11, <1>12, <1>13,
     <1>14, <1>15, <1>16, <1>17, <1>18, <1>19, <1>20, <1>21, <1>22, <1>23, <1>24, <1>25, <1>26,
     <1>27, <1>28, <1>29, <1>30, <1>31, <1>32, <1>33, <1>34, <1>35, <1>36
  DEF SourceMoves, SourceInside

(* The clients keep to the rules, and an inactive source is as it was        *)
(* created.                                                                  *)
LEMMA CallsFitStep ==
  ASSUME SourceTypes, \A u \in Actors : Course(u), DrainLocked, CallsFit, KnoteFits,
         \A u \in Actors : Stage(u), NEW t \in Actors, SourceMoves(t), ~MayVanish
  PROVE  CallsFit'
<1> USE DEF InHand, Stage, SourceTypes, Course, CallsFit, SourceBits, State, Over, SourceLabels,
    Activation, Arming, Unregistering, Waking, Draining, WaitOrActivate, Activators, Referring,
    word, fields, callouts, kernel, locals, history
<1>a. InHand(t) => phase # "inactive"
  BY SourceAssumption DEF DrainLocked, SourceTypes, Course, InHand, HasSource, Activates, Actors,
                          SourceLabels, Activation, Arming, Unregistering, Waking, Draining,
                          WaitOrActivate, Activators, Referring
<1>b. \A u \in Actors : at[u] = "finalize" /\ InHand(t) => u = t
  BY SoleHolder DEF InHand, Activation
<1>c. Stage(t)
  OBVIOUS
<1>d. phase = "activating" => \E u \in Clients : u \in Actors /\ doing[u] \in Activators
  BY DEF DrainLocked, Activates, Actors
<1>e. Clients \subseteq Actors
  BY DEF Actors
<1>f. ~installed => posted = "none"
  BY DEF KnoteFits
<1>1. CASE wakeup(t)
  BY <1>1, <1>a, <1>b, <1>c, <1>d, <1>e, <1>f DEF wakeup, See, Go
<1>2. CASE class_wakeup(t)
  BY <1>2, <1>a, <1>b, <1>c, <1>d, <1>e, <1>f DEF class_wakeup, HasWork, Acknowledges, Consumes,
     Flushes, Return, Done, Go, See, ShouldWakeup, Runnable
<1>3. CASE tryarm(t)
  BY <1>3, <1>a, <1>b, <1>c, <1>d, <1>e, <1>f DEF tryarm, MayArm, ArmFailed, Call, Go
<1>4. CASE kevent_resume(t)
  BY <1>4, <1>a, <1>b, <1>c, <1>d, <1>e, <1>f DEF kevent_resume, Armed, Call, Go
<1>5. CASE kevent_register_fails(t)
  BY <1>5, <1>a, <1>b, <1>c, <1>d, <1>e, <1>f DEF kevent_register_fails, ArmFailed, Call, Go
<1>6. CASE unregister(t)
  <2>1. /\ InHand(t) /\ at[t] # "finalize"
        /\ at'[t] \notin {"finalize", "lock"} \cup Arming \cup Waking
        /\ at'[t] \notin {"resume", "transfer"}
    BY <1>6 DEF unregister, See, Go
  <2>2. \A u \in Actors : u # t => at'[u] = at[u]
    BY <1>6 DEF unregister, See, Go
  <2>3. UNCHANGED <<flags, phase, installed, clientRef, doing>>
    BY <1>6 DEF unregister, See, Go
  <2>4. phase # "inactive" /\ \A u \in Actors : at'[u] # "finalize"
    BY <1>a, <1>b, <2>1, <2>2
  <2> QED
    BY <2>1, <2>2, <2>3, <2>4
<1>7. CASE unregister_kernel(t)
  <2>1. /\ InHand(t) /\ at[t] # "finalize"
        /\ at'[t] \notin {"finalize", "lock"} \cup Arming \cup Waking
        /\ at'[t] \notin {"resume", "transfer"}
    BY <1>7 DEF unregister_kernel, Dropped, ImmediateDelete, Go
  <2>2. \A u \in Actors : u # t => at'[u] = at[u]
    BY <1>7 DEF unregister_kernel, Dropped, ImmediateDelete, Go
  <2>3. UNCHANGED <<flags, phase, installed, clientRef, doing>>
    BY <1>7 DEF unregister_kernel, Dropped, ImmediateDelete, Go
  <2>4. phase # "inactive" /\ \A u \in Actors : at'[u] # "finalize"
    BY <1>a, <1>b, <2>1, <2>2
  <2> QED
    BY <2>1, <2>2, <2>3, <2>4
<1>8. CASE unregister_deferred(t)
  BY <1>8, <1>a, <1>b, <1>c, <1>d, <1>e, <1>f DEF unregister_deferred, Call, Go, See
<1>9. CASE unregister_deleted(t)
  BY <1>9, <1>a, <1>b, <1>c, <1>d, <1>e, <1>f DEF unregister_deleted, See, Go
<1>10. CASE unregister_done(t)
  BY <1>10, <1>a, <1>b, <1>c, <1>d, <1>e, <1>f DEF unregister_done, See, Wakes
<1>11. CASE t \in Workers /\ Pop(t)
  BY <1>11, <1>a, <1>b, <1>c, <1>d, <1>e, <1>f DEF Pop, Begin, Go
<1>12. CASE drain_try_lock(t)
  BY <1>12, <1>a, <1>b, <1>c, <1>d, <1>e, <1>f DEF drain_try_lock, Runnable, Invoke, Go, Call
<1>13. CASE invoke2_flags(t)
  BY <1>13, <1>a, <1>b, <1>c, <1>d, <1>e, <1>f DEF invoke2_flags, Acknowledges, Delivers,
     Canceling, Rearming, MustEnd, Call, Go
<1>14. CASE latch_and_call(t)
  BY <1>14, <1>a, <1>b, <1>c, <1>d, <1>e, <1>f DEF latch_and_call, Go
<1>15. CASE HandlerReturns(t)
  BY <1>15, <1>a, <1>b, <1>c, <1>d, <1>e, <1>f DEF HandlerReturns, Go
<1>16. CASE invoke_latched(t)
  BY <1>16, <1>a, <1>b, <1>c, <1>d, <1>e, <1>f DEF invoke_latched, Canceling, Rearming, MustEnd,
     Call, Go
<1>17. CASE invoke_unregistered(t)
  BY <1>17, <1>a, <1>b, <1>c, <1>d, <1>e, <1>f DEF invoke_unregistered, Call, Go
<1>18. CASE cancel_callout(t)
  BY <1>18, <1>a, <1>b, <1>c, <1>d, <1>e, <1>f DEF cancel_callout, CancelCallout, Rearming, Call,
     Go
<1>19. CASE drain_try_unlock(t)
  BY <1>19, <1>a, <1>b, <1>c, <1>d, <1>e, <1>f DEF drain_try_unlock, Invoke, Call, Go
<1>20. CASE drain_requeue(t)
  BY <1>20, <1>a, <1>b, <1>c, <1>d, <1>e, <1>f DEF drain_requeue, Done, Go, See
<1>21. CASE drain_drop(t)
  BY <1>21, <1>a, <1>b, <1>c, <1>d, <1>e, <1>f DEF drain_drop, Done, Go, See
<1>22. CASE t \in Managers /\ merge_kevent(t)
  BY <1>22, <1>a, <1>b, <1>c, <1>d, <1>e, <1>f DEF merge_kevent, MergedFlags, Call, Go
<1>23. CASE merge_data(t)
  BY <1>23, <1>a, <1>b, <1>c, <1>d, <1>e, <1>f DEF merge_data, Call, Go
<1>24. CASE finalize_activation(t)
  BY <1>24, <1>a, <1>b, <1>c, <1>d, <1>e, <1>f DEF finalize_activation, Call, Go
<1>25. CASE activate_resume(t)
  BY <1>25, <1>a, <1>b, <1>c, <1>d, <1>e, <1>f DEF activate_resume, Go
<1>26. CASE transfer_or_wakeup(t)
  BY <1>26, <1>a, <1>b, <1>c, <1>d, <1>e, <1>f DEF transfer_or_wakeup, Return, Done, See, Go
<1>27. CASE wait_lock(t)
  BY <1>27, <1>a, <1>b, <1>c, <1>d, <1>e, <1>f DEF wait_lock, Runnable, Call, Go, WaitDirties
<1>28. CASE wait_activate(t)
  BY <1>28, <1>a, <1>b, <1>c, <1>d, <1>e, <1>f DEF wait_activate, Go
<1>29. CASE wait_unregistered(t)
  BY <1>29, <1>a, <1>b, <1>c, <1>d, <1>e, <1>f DEF wait_unregistered, Go, CancelCallout
<1>30. CASE wait_await(t)
  BY <1>30, <1>a, <1>b, <1>c, <1>d, <1>e, <1>f DEF wait_await, Done, See, Go
<1>31. CASE wait_sleep(t)
  BY <1>31, <1>a, <1>b, <1>c, <1>d, <1>e, <1>f DEF wait_sleep, Go, See
<1>32. CASE xref_release(t)
  BY <1>32, <1>a, <1>b, <1>c, <1>d, <1>e, <1>f DEF xref_release, Done, See, Go
<1>33. CASE dispatch_source_cancel(t)
  BY <1>33, <1>a, <1>b, <1>c, <1>d, <1>e, <1>f DEF dispatch_source_cancel, Begin, Go
<1>34. CASE t \in callers /\ dispatch_activate(t)
  <2>1. \A u \in Actors : doing[u] \notin WaitOrActivate
    BY <1>34 DEF dispatch_activate, Begin, Go, Waiters, ClientCalls
  <2> QED
    BY <1>34, <1>d, <1>e, <1>f, <2>1 DEF dispatch_activate, Begin, Go
<1>35. CASE t \in callers /\ dispatch_source_cancel_and_wait(t)
  <2>1. phase # "active" => \A u \in Actors : doing[u] \notin WaitOrActivate
    BY <1>35 DEF dispatch_source_cancel_and_wait, MayWait, Call, Go, Waiters, ClientCalls
  <2> QED
    BY <1>35, <1>d, <1>e, <1>f, <2>1 DEF dispatch_source_cancel_and_wait, MayWait, Call, Go
<1>36. CASE t \in callers /\ dispatch_release(t)
  <2>1. \A u \in Actors : doing[u] \notin WaitOrActivate
    BY <1>36 DEF dispatch_release, Begin, Go, Waiters, ClientCalls
  <2> QED
    BY <1>36, <1>d, <1>e, <1>f, <2>1 DEF dispatch_release, Begin, Go
<1> QED
  BY SMTT(60), <1>1, <1>2, <1>3, <1>4, <1>5, <1>6, <1>7, <1>8, <1>9, <1>10, <1>11, <1>12, <1>13,
     <1>14, <1>15, <1>16, <1>17, <1>18, <1>19, <1>20, <1>21, <1>22, <1>23, <1>24, <1>25, <1>26,
     <1>27, <1>28, <1>29, <1>30, <1>31, <1>32, <1>33, <1>34, <1>35, <1>36
  DEF SourceMoves, SourceInside

(* Who is where after a step: a thread that has the source, or takes it, is  *)
(* the only one; a step of another leaves the one that has it where it is.   *)
LEMMA PlaceMoves ==
  ASSUME SourceTypes, \A u \in Actors : Course(u), DrainLocked, CallsFit,
         SourceTypes', \A u \in Actors : Course(u)', DrainLocked', CallsFit',
         NEW t \in Actors, SourceMoves(t)
  PROVE  /\ InHand(t) \/ InHand(t)' =>
               \A u \in Actors : u # t => ~InHand(u) /\ ~InHand(u)'
         /\ \A u \in Actors : u # t /\ InHand(u) => at'[u] = at[u]
         /\ InHand(t) \/ InHand(t)' =>
              /\ Somebody("unreg") <=> at[t] = "unreg"
              /\ Somebody("unreg")' <=> at'[t] = "unreg"
              /\ Somebody("deferred") <=> at[t] = "deferred"
              /\ Somebody("deferred")' <=> at'[t] = "deferred"
              /\ Somebody("deleted") <=> at[t] = "deleted"
              /\ Somebody("deleted")' <=> at'[t] = "deleted"
              /\ Somebody("wake") <=> at[t] = "wake"
              /\ Somebody("wake")' <=> at'[t] = "wake"
         /\ ~InHand(t) /\ ~InHand(t)' =>
              /\ Somebody("unreg")' <=> Somebody("unreg")
              /\ Somebody("deferred")' <=> Somebody("deferred")
              /\ Somebody("deleted")' <=> Somebody("deleted")
              /\ Somebody("wake")' <=> Somebody("wake")
         /\ at[t] # "data" /\ at'[t] # "data" => (Somebody("data")' <=> Somebody("data"))
         /\ at[t] = "data" => Somebody("data")
<1>1. ASSUME NEW u \in Actors, u # t, InHand(t) PROVE ~InHand(u)
  BY <1>1, SoleHolder
<1>2. ASSUME NEW u \in Actors, u # t, InHand(t)' PROVE ~InHand(u)'
  <2>1. ASSUME NEW v \in Actors, InHand(v)'
        PROVE  owner' = v \/ (phase' = "activating" /\ doing'[v] \in Activators)
    BY <2>1 DEF SourceTypes, DrainLocked, Course, InHand, HasSource, Activates, SourceLabels,
       Activation, Arming, Unregistering, Waking, Draining, WaitOrActivate, Activators, Referring
  <2>2. Nobody \notin Actors
    BY SourceAssumption DEF Actors
  <2> QED
    BY <1>2, <2>1, <2>2 DEF DrainLocked, CallsFit, WaitOrActivate, SourceTypes
<1>3. \A u \in Actors \ {t} : at'[u] = at[u] \/ (at[u] = "asleep" /\ at'[u] = "await")
  BY SourceFrame
<1>4. ASSUME NEW u \in Actors, u # t
      PROVE  (InHand(u)' <=> InHand(u)) /\ (InHand(u) => at'[u] = at[u])
  BY <1>3, <1>4 DEF InHand, Activation, Arming, Unregistering, Draining
<1>5. ASSUME InHand(t) \/ InHand(t)', NEW u \in Actors, u # t PROVE ~InHand(u) /\ ~InHand(u)'
  BY <1>1, <1>2, <1>4, <1>5
<1>6. ASSUME NEW u \in Actors, at[u] \in Unregistering PROVE InHand(u)
  BY <1>6 DEF InHand, Activation
<1>7. ASSUME NEW u \in Actors, at'[u] \in Unregistering PROVE InHand(u)'
  BY <1>7 DEF InHand, Activation
<1>8. ASSUME InHand(t) \/ InHand(t)'
      PROVE  /\ Somebody("unreg") <=> at[t] = "unreg"
             /\ Somebody("unreg")' <=> at'[t] = "unreg"
             /\ Somebody("deferred") <=> at[t] = "deferred"
             /\ Somebody("deferred")' <=> at'[t] = "deferred"
             /\ Somebody("deleted") <=> at[t] = "deleted"
             /\ Somebody("deleted")' <=> at'[t] = "deleted"
             /\ Somebody("wake") <=> at[t] = "wake"
             /\ Somebody("wake")' <=> at'[t] = "wake"
  BY <1>5, <1>6, <1>7, <1>8 DEF Somebody, Unregistering
<1>9. ASSUME ~InHand(t), ~InHand(t)'
      PROVE  /\ Somebody("unreg")' <=> Somebody("unreg")
             /\ Somebody("deferred")' <=> Somebody("deferred")
             /\ Somebody("deleted")' <=> Somebody("deleted")
             /\ Somebody("wake")' <=> Somebody("wake")
  BY <1>4, <1>6, <1>7, <1>9 DEF Somebody, Unregistering
<1>10. at[t] # "data" /\ at'[t] # "data" => (Somebody("data")' <=> Somebody("data"))
  BY <1>3 DEF Somebody
<1>11. at[t] = "data" => Somebody("data")
  BY SMTT(60) DEF Somebody
<1> QED
  BY <1>4, <1>5, <1>8, <1>9, <1>10, <1>11

(* The flags and the fields keep saying what the knote is.                   *)
LEMMA KnoteFitsStep ==
  ASSUME KnoteFits, \A u \in Actors : Stage(u), SourceTypes, \A u \in Actors : Course(u),
         DrainLocked, CallsFit,
         SourceTypes', \A u \in Actors : Course(u)', DrainLocked', CallsFit',
         NEW t \in Actors, SourceMoves(t), ~MayVanish
  PROVE  KnoteFits'
<1>a. /\ InHand(t) \/ InHand(t)' =>
           /\ Somebody("unreg") <=> at[t] = "unreg"
           /\ Somebody("unreg")' <=> at'[t] = "unreg"
           /\ Somebody("deferred") <=> at[t] = "deferred"
           /\ Somebody("deferred")' <=> at'[t] = "deferred"
           /\ Somebody("deleted") <=> at[t] = "deleted"
           /\ Somebody("deleted")' <=> at'[t] = "deleted"
           /\ Somebody("wake") <=> at[t] = "wake"
           /\ Somebody("wake")' <=> at'[t] = "wake"
      /\ ~InHand(t) /\ ~InHand(t)' =>
           /\ Somebody("unreg")' <=> Somebody("unreg")
           /\ Somebody("deferred")' <=> Somebody("deferred")
           /\ Somebody("deleted")' <=> Somebody("deleted")
           /\ Somebody("wake")' <=> Somebody("wake")
  BY PlaceMoves
<1>b. at[t] # "data" /\ at'[t] # "data" => (Somebody("data")' <=> Somebody("data"))
  BY PlaceMoves
<1>c. at[t] = "data" => Somebody("data")
  BY PlaceMoves
<1>d. Stage(t) /\ Course(t) /\ Course(t)'
  OBVIOUS
<1> USE DEF SourceTypes, SourceBits, State, Over, IsOver, NoData, Course, InHand, Stage,
    KnoteFits, SourceLabels, Activation, Arming, Unregistering, Waking, Draining, WaitOrActivate,
    Activators, Referring, word, fields, callouts, kernel, locals, history
<1>1. CASE wakeup(t)
  BY <1>1, <1>a, <1>b, <1>c, <1>d DEF wakeup, See, Go
<1>2. CASE class_wakeup(t)
  BY <1>2, <1>a, <1>b, <1>c, <1>d DEF class_wakeup, HasWork, Acknowledges, Consumes, Flushes,
     Return, Done, Go, See, ShouldWakeup, Runnable
<1>3. CASE tryarm(t)
  BY SMTT(60), <1>3, <1>a, <1>b, <1>c, <1>d DEF tryarm, MayArm, ArmFailed, Call, Go
<1>4. CASE kevent_resume(t)
  BY <1>4, <1>a, <1>b, <1>c, <1>d DEF kevent_resume, Armed, Call, Go
<1>5. CASE kevent_register_fails(t)
  BY <1>5, <1>a, <1>b, <1>c, <1>d DEF kevent_register_fails, ArmFailed, Call, Go
<1>6. CASE unregister(t)
  <2>0. InHand(t) /\ at[t] = "unreg" /\ UNCHANGED <<flags, installed, rearm, callouts, kernel>>
    BY <1>6 DEF unregister, See, Go
  <2>1. CASE "deleted" \in flags \/ ~installed
    <3>1. ~dkev' /\ at'[t] = "deleted" /\ knote = "none" /\ posted = "none"
      BY <1>6, <2>1 DEF unregister, See, Go
    <3> QED
      BY <1>6, <1>a, <1>b, <1>d, <2>0, <2>1, <3>1
  <2>2. CASE "deleted" \notin flags /\ installed
    <3>1. (dkev' <=> dkev) /\ at[t] = "unreg" /\ at'[t] = "kdelete"
      BY <1>6, <2>2 DEF unregister, See, Go
    <3> QED
      BY <1>a, <1>b, <2>0, <2>2, <3>1
  <2> QED
    BY <2>1, <2>2
<1>7. CASE unregister_kernel(t)
  <2>0. /\ InHand(t) /\ at[t] = "kdelete" /\ Stage(t)
        /\ UNCHANGED <<flags, installed, rearm, callouts>>
    BY <1>7 DEF unregister_kernel, Dropped, ImmediateDelete, Go
  <2>1. CASE (ImmediateDelete(t) \/ knote # "disabled") /\ Dropped(t)
    <3>1. ~dkev' /\ at'[t] = "deleted" /\ knote' = "none" /\ posted' = posted
      BY <1>7, <2>1 DEF unregister_kernel, Dropped, ImmediateDelete, Go
    <3>2. posted = "none"
      BY <2>0, <2>1 DEF ImmediateDelete
    <3> QED
      BY <1>a, <1>b, <2>0, <3>1, <3>2
  <2>2. CASE /\ ~ImmediateDelete(t) /\ knote = "enabled"
             /\ knote' = "none" /\ posted' = "delete" /\ Go(t, "deferred") /\ UNCHANGED dkev
    <3>1. at'[t] = "deferred"
      BY <2>2 DEF Go
    <3> QED
      BY <1>a, <1>b, <2>0, <2>2, <3>1
  <2>3. CASE Go(t, "deferred") /\ UNCHANGED <<knote, posted, dkev>>
    <3>1. at'[t] = "deferred"
      BY <2>3 DEF Go
    <3> QED
      BY <1>a, <1>b, <2>0, <2>3, <3>1
  <2> QED
    BY <1>7, <2>1, <2>2, <2>3 DEF unregister_kernel
<1>8. CASE unregister_deferred(t)
  BY <1>8, <1>a, <1>b, <1>c, <1>d DEF unregister_deferred, Call, Go, See
<1>9. CASE unregister_deleted(t)
  BY SMTT(60), <1>9, <1>a, <1>b, <1>c, <1>d DEF unregister_deleted, See, Go
<1>10. CASE unregister_done(t)
  BY <1>10, <1>a, <1>b, <1>c, <1>d DEF unregister_done, See, Wakes
<1>11. CASE t \in Workers /\ Pop(t)
  BY <1>11, <1>a, <1>b, <1>c, <1>d DEF Pop, Begin, Go
<1>12. CASE drain_try_lock(t)
  BY SMTT(60), <1>12, <1>a, <1>b, <1>c, <1>d DEF drain_try_lock, Runnable, Invoke, Go, Call
<1>13. CASE invoke2_flags(t)
  BY <1>13, <1>a, <1>b, <1>c, <1>d DEF invoke2_flags, Acknowledges, Delivers, Canceling, Rearming,
     MustEnd, Call, Go
<1>14. CASE latch_and_call(t)
  BY <1>14, <1>a, <1>b, <1>c, <1>d DEF latch_and_call, Go
<1>15. CASE HandlerReturns(t)
  BY <1>15, <1>a, <1>b, <1>c, <1>d DEF HandlerReturns, Go
<1>16. CASE invoke_latched(t)
  BY <1>16, <1>a, <1>b, <1>c, <1>d DEF invoke_latched, Canceling, Rearming, MustEnd, Call, Go
<1>17. CASE invoke_unregistered(t)
  BY <1>17, <1>a, <1>b, <1>c, <1>d DEF invoke_unregistered, Call, Go
<1>18. CASE cancel_callout(t)
  BY <1>18, <1>a, <1>b, <1>c, <1>d DEF cancel_callout, CancelCallout, Rearming, Call, Go
<1>19. CASE drain_try_unlock(t)
  BY <1>19, <1>a, <1>b, <1>c, <1>d DEF drain_try_unlock, Invoke, Call, Go
<1>20. CASE drain_requeue(t)
  BY <1>20, <1>a, <1>b, <1>c, <1>d DEF drain_requeue, Done, Go, See
<1>21. CASE drain_drop(t)
  BY SMTT(60), <1>21, <1>a, <1>b, <1>c, <1>d DEF drain_drop, Done, Go, See
<1>22. CASE t \in Managers /\ merge_kevent(t)
  BY SMTT(60), <1>22, <1>a, <1>b, <1>c, <1>d DEF merge_kevent, MergedFlags, Call, Go
<1>23. CASE merge_data(t)
  BY <1>23, <1>a, <1>b, <1>c, <1>d DEF merge_data, Call, Go
<1>24. CASE finalize_activation(t)
  BY <1>24, <1>a, <1>b, <1>c, <1>d DEF finalize_activation, Call, Go
<1>25. CASE activate_resume(t)
  BY <1>25, <1>a, <1>b, <1>c, <1>d DEF activate_resume, Go
<1>26. CASE transfer_or_wakeup(t)
  BY <1>26, <1>a, <1>b, <1>c, <1>d DEF transfer_or_wakeup, Return, Done, See, Go
<1>27. CASE wait_lock(t)
  BY <1>27, <1>a, <1>b, <1>c, <1>d DEF wait_lock, Runnable, Call, Go, WaitDirties
<1>28. CASE wait_activate(t)
  BY <1>28, <1>a, <1>b, <1>c, <1>d DEF wait_activate, Go
<1>29. CASE wait_unregistered(t)
  BY <1>29, <1>a, <1>b, <1>c, <1>d DEF wait_unregistered, Go, CancelCallout
<1>30. CASE wait_await(t)
  BY <1>30, <1>a, <1>b, <1>c, <1>d DEF wait_await, Done, See, Go
<1>31. CASE wait_sleep(t)
  BY SMTT(60), <1>31, <1>a, <1>b, <1>c, <1>d DEF wait_sleep, Go, See
<1>32. CASE xref_release(t)
  BY <1>32, <1>a, <1>b, <1>c, <1>d DEF xref_release, Done, See, Go
<1>33. CASE dispatch_source_cancel(t)
  BY <1>33, <1>a, <1>b, <1>c, <1>d DEF dispatch_source_cancel, Begin, Go
<1>34. CASE t \in callers /\ dispatch_activate(t)
  BY <1>34, <1>a, <1>b, <1>c, <1>d DEF dispatch_activate, Begin, Go
<1>35. CASE t \in callers /\ dispatch_source_cancel_and_wait(t)
  BY SMTT(60), <1>35, <1>a, <1>b, <1>c, <1>d DEF dispatch_source_cancel_and_wait, MayWait, Call,
     Go
<1>36. CASE t \in callers /\ dispatch_release(t)
  BY SMTT(60), <1>36, <1>a, <1>b, <1>c, <1>d DEF dispatch_release, Begin, Go
<1> QED
  BY SMTT(60), <1>1, <1>2, <1>3, <1>4, <1>5, <1>6, <1>7, <1>8, <1>9, <1>10, <1>11, <1>12, <1>13,
     <1>14, <1>15, <1>16, <1>17, <1>18, <1>19, <1>20, <1>21, <1>22, <1>23, <1>24, <1>25, <1>26,
     <1>27, <1>28, <1>29, <1>30, <1>31, <1>32, <1>33, <1>34, <1>35, <1>36
  DEF SourceMoves, SourceInside

(* What a thread knows of the source at its next label.                      *)
LEMMA StageSelf ==
  ASSUME KnoteFits, KnoteFits', \A u \in Actors : Stage(u), SourceTypes,
         \A u \in Actors : Course(u), DrainLocked, CallsFit,
         SourceTypes', \A u \in Actors : Course(u)', DrainLocked', CallsFit',
         NEW t \in Actors, SourceMoves(t), ~MayVanish
  PROVE  Stage(t)'
<1>a. /\ InHand(t) \/ InHand(t)' =>
           /\ Somebody("unreg") <=> at[t] = "unreg"
           /\ Somebody("unreg")' <=> at'[t] = "unreg"
           /\ Somebody("deferred") <=> at[t] = "deferred"
           /\ Somebody("deferred")' <=> at'[t] = "deferred"
           /\ Somebody("deleted") <=> at[t] = "deleted"
           /\ Somebody("deleted")' <=> at'[t] = "deleted"
           /\ Somebody("wake") <=> at[t] = "wake"
           /\ Somebody("wake")' <=> at'[t] = "wake"
      /\ ~InHand(t) /\ ~InHand(t)' =>
           /\ Somebody("unreg")' <=> Somebody("unreg")
           /\ Somebody("deferred")' <=> Somebody("deferred")
           /\ Somebody("deleted")' <=> Somebody("deleted")
           /\ Somebody("wake")' <=> Somebody("wake")
  BY PlaceMoves
<1>b. at[t] # "data" /\ at'[t] # "data" => (Somebody("data")' <=> Somebody("data"))
  BY PlaceMoves
<1>c. at[t] = "data" => Somebody("data")
  BY PlaceMoves
<1>d. Stage(t) /\ Course(t) /\ Course(t)'
  OBVIOUS
<1>e. /\ at[t] = "finalize" => ~installed /\ dkev /\ flags \cap State = {}
      /\ at[t] = "lock" => "canceled" \in flags
  BY DEF CallsFit
<1> USE DEF SourceTypes, SourceBits, State, Over, IsOver, NoData, Course, InHand, Stage,
    KnoteFits, SourceLabels, Activation, Arming, Unregistering, Waking, Draining, WaitOrActivate,
    Activators, Referring, word, fields, callouts, kernel, locals, history
<1>1. CASE wakeup(t)
  BY <1>1, <1>a, <1>b, <1>c, <1>d, <1>e DEF wakeup, See, Go
<1>2. CASE class_wakeup(t)
  BY <1>2, <1>a, <1>b, <1>c, <1>d, <1>e DEF class_wakeup, HasWork, Acknowledges, Consumes,
     Flushes, Return, Done, Go, See, ShouldWakeup, Runnable
<1>3. CASE tryarm(t)
  BY SMTT(60), <1>3, <1>a, <1>b, <1>c, <1>d, <1>e DEF tryarm, MayArm, ArmFailed, Call, Go
<1>4. CASE kevent_resume(t)
  BY <1>4, <1>a, <1>b, <1>c, <1>d, <1>e DEF kevent_resume, Armed, Call, Go
<1>5. CASE kevent_register_fails(t)
  BY <1>5, <1>a, <1>b, <1>c, <1>d, <1>e DEF kevent_register_fails, ArmFailed, Call, Go
<1>6. CASE unregister(t)
  <2>1. CASE "deleted" \in flags \/ ~installed
    BY ZenonT(60), <1>6, <1>a, <1>b, <1>c, <1>d, <2>1 DEF unregister, See, Go
  <2>2. CASE "deleted" \notin flags /\ installed
    BY <1>6, <1>a, <1>b, <1>c, <1>d, <2>2 DEF unregister, See, Go
  <2> QED
    BY <1>6, <2>1, <2>2
<1>7. CASE unregister_kernel(t)
  <2>0. at[t] = "kdelete" /\ UNCHANGED <<flags, installed, rearm, ret, doing>>
    BY <1>7 DEF unregister_kernel
  <2>1. CASE Dropped(t)
    <3>1. ~dkev' /\ at'[t] = "deleted"
      BY <2>1 DEF Dropped, Go
    <3> QED
      BY <1>a, <1>d, <2>0, <3>1
  <2>2. CASE Go(t, "deferred") /\ UNCHANGED dkev
    <3>1. (dkev' <=> dkev) /\ at'[t] = "deferred"
      BY SMTT(60), <2>2 DEF Go
    <3> QED
      BY <1>a, <1>d, <2>0, <3>1
  <2> QED
    BY <1>7, <2>1, <2>2 DEF unregister_kernel
<1>8. CASE unregister_deferred(t)
  BY SMTT(60), <1>8, <1>a, <1>b, <1>c, <1>d, <1>e DEF unregister_deferred, Call, Go, See
<1>9. CASE unregister_deleted(t)
  BY SMTT(60), <1>9, <1>a, <1>b, <1>c, <1>d, <1>e DEF unregister_deleted, See, Go
<1>10. CASE unregister_done(t)
  BY SMTT(60), <1>10, <1>a, <1>b, <1>c, <1>d, <1>e DEF unregister_done, See, Wakes
<1>11. CASE t \in Workers /\ Pop(t)
  BY SMTT(60), <1>11, <1>a, <1>b, <1>c, <1>d, <1>e DEF Pop, Begin, Go
<1>12. CASE drain_try_lock(t)
  BY SMTT(60), <1>12, <1>a, <1>b, <1>c, <1>d, <1>e DEF drain_try_lock, Runnable, Invoke, Go, Call
<1>13. CASE invoke2_flags(t)
  <2>1. CASE at[t] = "flags" /\ Acknowledges(flags)
    BY SMTT(60), <1>13, <1>a, <1>b, <1>c, <1>d, <2>1 DEF invoke2_flags, Acknowledges, Delivers,
       Canceling, Rearming, MustEnd, Call, Go
  <2>2. CASE ~(at[t] = "flags" /\ Acknowledges(flags)) /\ Delivers
    BY SMTT(60), <1>13, <1>a, <1>b, <1>c, <1>d, <2>2 DEF invoke2_flags, Acknowledges, Delivers,
       Canceling, Rearming, MustEnd, Call, Go
  <2>3. CASE ~(at[t] = "flags" /\ Acknowledges(flags)) /\ ~Delivers /\ MustEnd(flags)
             /\ "deleted" \in flags
    BY <1>13, <1>a, <1>b, <1>c, <1>d, <2>3 DEF invoke2_flags, Acknowledges, Delivers, Canceling,
       Rearming, MustEnd, Call, Go
  <2>4. CASE ~(at[t] = "flags" /\ Acknowledges(flags)) /\ ~Delivers /\ MustEnd(flags)
             /\ "deleted" \notin flags
    BY SMTT(60), <1>13, <1>a, <1>b, <1>c, <1>d, <2>4 DEF invoke2_flags, Acknowledges, Delivers,
       Canceling,
       Rearming, MustEnd, Call, Go
  <2>5. CASE ~(at[t] = "flags" /\ Acknowledges(flags)) /\ ~Delivers /\ ~MustEnd(flags) /\ rearm
             /\ "armed" \notin flags /\ "deferred" \in flags
    BY <1>13, <1>a, <1>b, <1>c, <1>d, <2>5 DEF invoke2_flags, Acknowledges, Delivers, Canceling,
       Rearming, MustEnd, Call, Go
  <2>6. CASE ~(at[t] = "flags" /\ Acknowledges(flags)) /\ ~Delivers /\ ~MustEnd(flags) /\ rearm
             /\ "armed" \notin flags /\ "deferred" \notin flags
    BY SMTT(60), <1>13, <1>a, <1>b, <1>c, <1>d, <2>6 DEF invoke2_flags, Acknowledges, Delivers,
       Canceling, Rearming, MustEnd, Call, Go
  <2>7. CASE ~(at[t] = "flags" /\ Acknowledges(flags)) /\ ~Delivers /\ ~MustEnd(flags)
             /\ ~(rearm /\ "armed" \notin flags)
    BY SMTT(60), <1>13, <1>a, <1>b, <1>c, <1>d, <2>7 DEF invoke2_flags, Acknowledges, Delivers,
       Canceling, Rearming, MustEnd, Call, Go
  <2> QED
    BY SMTT(60), <1>13, <2>1, <2>2, <2>3, <2>4, <2>5, <2>6, <2>7
<1>14. CASE latch_and_call(t)
  BY SMTT(60), <1>14, <1>a, <1>b, <1>c, <1>d, <1>e DEF latch_and_call, Go
<1>15. CASE HandlerReturns(t)
  BY SMTT(60), <1>15, <1>a, <1>b, <1>c, <1>d, <1>e DEF HandlerReturns, Go
<1>16. CASE invoke_latched(t)
  <2>1. CASE MustEnd(flags) /\ "deleted" \in flags
    BY <1>16, <1>a, <1>b, <1>c, <1>d, <2>1 DEF invoke_latched, Canceling, Rearming, MustEnd, Call,
       Go
  <2>2. CASE MustEnd(flags) /\ "deleted" \notin flags
    BY <1>16, <1>a, <1>b, <1>c, <1>d, <2>2 DEF invoke_latched, Canceling, Rearming, MustEnd, Call,
       Go
  <2>3. CASE ~MustEnd(flags) /\ rearm /\ "armed" \notin flags /\ "deferred" \in flags
    BY <1>16, <1>a, <1>b, <1>c, <1>d, <2>3 DEF invoke_latched, Canceling, Rearming, MustEnd, Call,
       Go
  <2>4. CASE ~MustEnd(flags) /\ rearm /\ "armed" \notin flags /\ "deferred" \notin flags
    BY <1>16, <1>a, <1>b, <1>c, <1>d, <2>4 DEF invoke_latched, Canceling, Rearming, MustEnd, Call,
       Go
  <2>5. CASE ~MustEnd(flags) /\ ~(rearm /\ "armed" \notin flags)
    BY SMTT(60), <1>16, <1>a, <1>b, <1>c, <1>d, <2>5 DEF invoke_latched, Canceling, Rearming,
       MustEnd, Call,
       Go
  <2> QED
    BY <1>16, <2>1, <2>2, <2>3, <2>4, <2>5
<1>17. CASE invoke_unregistered(t)
  BY <1>17, <1>a, <1>b, <1>c, <1>d, <1>e DEF invoke_unregistered, Call, Go
<1>18. CASE cancel_callout(t)
  BY <1>18, <1>a, <1>b, <1>c, <1>d, <1>e DEF cancel_callout, CancelCallout, Rearming, Call, Go
<1>19. CASE drain_try_unlock(t)
  BY <1>19, <1>a, <1>b, <1>c, <1>d, <1>e DEF drain_try_unlock, Invoke, Call, Go
<1>20. CASE drain_requeue(t)
  BY <1>20, <1>a, <1>b, <1>c, <1>d, <1>e DEF drain_requeue, Done, Go, See
<1>21. CASE drain_drop(t)
  BY SMTT(60), <1>21, <1>a, <1>b, <1>c, <1>d, <1>e DEF drain_drop, Done, Go, See
<1>22. CASE t \in Managers /\ merge_kevent(t)
  BY <1>22, <1>a, <1>b, <1>c, <1>d, <1>e DEF merge_kevent, MergedFlags, Call, Go
<1>23. CASE merge_data(t)
  BY <1>23, <1>a, <1>b, <1>c, <1>d, <1>e DEF merge_data, Call, Go
<1>24. CASE finalize_activation(t)
  BY <1>24, <1>a, <1>b, <1>c, <1>d, <1>e DEF finalize_activation, Call, Go
<1>25. CASE activate_resume(t)
  BY <1>25, <1>a, <1>b, <1>c, <1>d, <1>e DEF activate_resume, Go
<1>26. CASE transfer_or_wakeup(t)
  BY <1>26, <1>a, <1>b, <1>c, <1>d, <1>e DEF transfer_or_wakeup, Return, Done, See, Go
<1>27. CASE wait_lock(t)
  BY <1>27, <1>a, <1>b, <1>c, <1>d, <1>e DEF wait_lock, Runnable, Call, Go, WaitDirties
<1>28. CASE wait_activate(t)
  BY <1>28, <1>a, <1>b, <1>c, <1>d, <1>e DEF wait_activate, Go
<1>29. CASE wait_unregistered(t)
  BY <1>29, <1>a, <1>b, <1>c, <1>d, <1>e DEF wait_unregistered, Go, CancelCallout
<1>30. CASE wait_await(t)
  BY SMTT(60), <1>30, <1>a, <1>b, <1>c, <1>d, <1>e DEF wait_await, Done, See, Go
<1>31. CASE wait_sleep(t)
  BY SMTT(60), <1>31, <1>a, <1>b, <1>c, <1>d, <1>e DEF wait_sleep, Go, See
<1>32. CASE xref_release(t)
  BY SMTT(60), <1>32, <1>a, <1>b, <1>c, <1>d, <1>e DEF xref_release, Done, See, Go
<1>33. CASE dispatch_source_cancel(t)
  BY SMTT(60), <1>33, <1>a, <1>b, <1>c, <1>d, <1>e DEF dispatch_source_cancel, Begin, Go
<1>34. CASE t \in callers /\ dispatch_activate(t)
  BY <1>34, <1>a, <1>b, <1>c, <1>d, <1>e DEF dispatch_activate, Begin, Go
<1>35. CASE t \in callers /\ dispatch_source_cancel_and_wait(t)
  BY <1>35, <1>a, <1>b, <1>c, <1>d, <1>e DEF dispatch_source_cancel_and_wait, MayWait, Call, Go
<1>36. CASE t \in callers /\ dispatch_release(t)
  BY SMTT(60), <1>36, <1>a, <1>b, <1>c, <1>d, <1>e DEF dispatch_release, Begin, Go
<1> QED
  BY SMTT(60), <1>1, <1>2, <1>3, <1>4, <1>5, <1>6, <1>7, <1>8, <1>9, <1>10, <1>11, <1>12, <1>13,
     <1>14, <1>15, <1>16, <1>17, <1>18, <1>19, <1>20, <1>21, <1>22, <1>23, <1>24, <1>25, <1>26,
     <1>27, <1>28, <1>29, <1>30, <1>31, <1>32, <1>33, <1>34, <1>35, <1>36
  DEF SourceMoves, SourceInside

(* Another thread does not change what the one that has the source knows.    *)
LEMMA StageOthers ==
  ASSUME KnoteFits, KnoteFits', \A u \in Actors : Stage(u), SourceTypes,
         \A u \in Actors : Course(u), DrainLocked, CallsFit,
         SourceTypes', \A u \in Actors : Course(u)', DrainLocked', CallsFit',
         NEW t \in Actors, SourceMoves(t), ~MayVanish, ~InHand(t), NEW u \in Actors, u # t
  PROVE  Stage(u)'
<1>b. at[t] # "data" /\ at'[t] # "data" => (Somebody("data")' <=> Somebody("data"))
  BY PlaceMoves
<1>c. at[t] = "data" => Somebody("data")
  BY PlaceMoves
<1>d. /\ Stage(u) /\ (InHand(u)' => InHand(u) /\ at'[u] = at[u])
      /\ ret'[u] = ret[u] /\ seen'[u] = seen[u] /\ doing'[u] = doing[u]
      /\ at'[u] = at[u] \/ at'[u] = "await"
  BY PlaceMoves, SourceOthersStay, SourceFrame
<1>e. InHand(u)' => ~InHand(t) /\ ~InHand(t)'
  BY PlaceMoves
<1>f. /\ at[u] \in Arming \cup Unregistering \cup {"latch", "handler", "uncancel", "callout"} =>
           InHand(u)
      /\ at'[u] \in Arming \cup Unregistering \cup {"latch", "handler", "uncancel", "callout"} =>
           InHand(u)'
  BY DEF InHand, Activation, Draining
<1>g. InHand(u) /\ Somebody("deferred") => at[u] = "deferred"
  BY SoleHolder DEF Somebody, InHand, Activation, Unregistering
<1>h. at[t] \notin Arming \cup Unregistering \cup {"finalize", "resume", "locked", "transfer"}
      /\ at[t] \notin Draining
  BY DEF InHand, Activation
<1> USE DEF SourceTypes, SourceBits, State, Over, IsOver, NoData, Stage, KnoteFits, Arming,
    Unregistering, Draining, Waking, word, fields, callouts, kernel, locals, history
<1>1. CASE wakeup(t)
  BY <1>1, <1>b, <1>c, <1>d, <1>e, <1>f, <1>g, <1>h DEF wakeup, See, Go
<1>2. CASE class_wakeup(t)
  BY <1>2, <1>b, <1>c, <1>d, <1>e, <1>f, <1>g, <1>h DEF class_wakeup, HasWork, Acknowledges,
     Consumes, Flushes, Return, Done, Go, See, ShouldWakeup, Runnable
<1>3. CASE tryarm(t)
  BY <1>3, <1>b, <1>c, <1>d, <1>e, <1>f, <1>g, <1>h DEF tryarm, MayArm, ArmFailed, Call, Go
<1>4. CASE kevent_resume(t)
  BY SMTT(60), <1>4, <1>b, <1>c, <1>d, <1>e, <1>f, <1>g, <1>h DEF kevent_resume, Armed, Call, Go
<1>5. CASE kevent_register_fails(t)
  BY SMTT(60), <1>5, <1>b, <1>c, <1>d, <1>e, <1>f, <1>g, <1>h DEF kevent_register_fails,
     ArmFailed, Call, Go
<1>6. CASE unregister(t)
  BY SMTT(60), <1>6, <1>b, <1>c, <1>d, <1>e, <1>f, <1>g, <1>h DEF unregister, See, Go
<1>7. CASE unregister_kernel(t)
  BY SMTT(60), <1>7, <1>b, <1>c, <1>d, <1>e, <1>f, <1>g, <1>h DEF unregister_kernel, Dropped,
     ImmediateDelete, Go
<1>8. CASE unregister_deferred(t)
  BY SMTT(60), <1>8, <1>b, <1>c, <1>d, <1>e, <1>f, <1>g, <1>h DEF unregister_deferred, Call, Go,
     See
<1>9. CASE unregister_deleted(t)
  BY SMTT(60), <1>9, <1>b, <1>c, <1>d, <1>e, <1>f, <1>g, <1>h DEF unregister_deleted, See, Go
<1>10. CASE unregister_done(t)
  BY SMTT(60), <1>10, <1>b, <1>c, <1>d, <1>e, <1>f, <1>g, <1>h DEF unregister_done, See, Wakes
<1>11. CASE t \in Workers /\ Pop(t)
  BY SMTT(60), <1>11, <1>b, <1>c, <1>d, <1>e, <1>f, <1>g, <1>h DEF Pop, Begin, Go
<1>12. CASE drain_try_lock(t)
  BY SMTT(60), <1>12, <1>b, <1>c, <1>d, <1>e, <1>f, <1>g, <1>h DEF drain_try_lock, Runnable,
     Invoke, Go, Call
<1>13. CASE invoke2_flags(t)
  BY SMTT(60), <1>13, <1>b, <1>c, <1>d, <1>e, <1>f, <1>g, <1>h DEF invoke2_flags, Acknowledges,
     Delivers, Canceling, Rearming, MustEnd, Call, Go
<1>14. CASE latch_and_call(t)
  BY SMTT(60), <1>14, <1>b, <1>c, <1>d, <1>e, <1>f, <1>g, <1>h DEF latch_and_call, Go
<1>15. CASE HandlerReturns(t)
  BY SMTT(60), <1>15, <1>b, <1>c, <1>d, <1>e, <1>f, <1>g, <1>h DEF HandlerReturns, Go
<1>16. CASE invoke_latched(t)
  BY SMTT(60), <1>16, <1>b, <1>c, <1>d, <1>e, <1>f, <1>g, <1>h DEF invoke_latched, Canceling,
     Rearming, MustEnd, Call, Go
<1>17. CASE invoke_unregistered(t)
  BY SMTT(60), <1>17, <1>b, <1>c, <1>d, <1>e, <1>f, <1>g, <1>h DEF invoke_unregistered, Call, Go
<1>18. CASE cancel_callout(t)
  BY SMTT(60), <1>18, <1>b, <1>c, <1>d, <1>e, <1>f, <1>g, <1>h DEF cancel_callout, CancelCallout,
     Rearming, Call, Go
<1>19. CASE drain_try_unlock(t)
  BY SMTT(60), <1>19, <1>b, <1>c, <1>d, <1>e, <1>f, <1>g, <1>h DEF drain_try_unlock, Invoke, Call,
     Go
<1>20. CASE drain_requeue(t)
  BY SMTT(60), <1>20, <1>b, <1>c, <1>d, <1>e, <1>f, <1>g, <1>h DEF drain_requeue, Done, Go, See
<1>21. CASE drain_drop(t)
  BY SMTT(60), <1>21, <1>b, <1>c, <1>d, <1>e, <1>f, <1>g, <1>h DEF drain_drop, Done, Go, See
<1>22. CASE t \in Managers /\ merge_kevent(t)
  BY SMTT(60), <1>22, <1>b, <1>c, <1>d, <1>e, <1>f, <1>g, <1>h DEF merge_kevent, MergedFlags,
     Call, Go
<1>23. CASE merge_data(t)
  BY SMTT(60), <1>23, <1>b, <1>c, <1>d, <1>e, <1>f, <1>g, <1>h DEF merge_data, Call, Go
<1>24. CASE finalize_activation(t)
  BY <1>24, <1>b, <1>c, <1>d, <1>e, <1>f, <1>g, <1>h DEF finalize_activation, Call, Go
<1>25. CASE activate_resume(t)
  BY <1>25, <1>b, <1>c, <1>d, <1>e, <1>f, <1>g, <1>h DEF activate_resume, Go
<1>26. CASE transfer_or_wakeup(t)
  BY SMTT(60), <1>26, <1>b, <1>c, <1>d, <1>e, <1>f, <1>g, <1>h DEF transfer_or_wakeup, Return,
     Done, See, Go
<1>27. CASE wait_lock(t)
  BY <1>27, <1>b, <1>c, <1>d, <1>e, <1>f, <1>g, <1>h DEF wait_lock, Runnable, Call, Go,
     WaitDirties
<1>28. CASE wait_activate(t)
  BY SMTT(60), <1>28, <1>b, <1>c, <1>d, <1>e, <1>f, <1>g, <1>h DEF wait_activate, Go
<1>29. CASE wait_unregistered(t)
  BY SMTT(60), <1>29, <1>b, <1>c, <1>d, <1>e, <1>f, <1>g, <1>h DEF wait_unregistered, Go,
     CancelCallout
<1>30. CASE wait_await(t)
  BY SMTT(60), <1>30, <1>b, <1>c, <1>d, <1>e, <1>f, <1>g, <1>h DEF wait_await, Done, See, Go
<1>31. CASE wait_sleep(t)
  BY SMTT(60), <1>31, <1>b, <1>c, <1>d, <1>e, <1>f, <1>g, <1>h DEF wait_sleep, Go, See
<1>32. CASE xref_release(t)
  BY SMTT(60), <1>32, <1>b, <1>c, <1>d, <1>e, <1>f, <1>g, <1>h DEF xref_release, Done, See, Go
<1>33. CASE dispatch_source_cancel(t)
  BY SMTT(60), <1>33, <1>b, <1>c, <1>d, <1>e, <1>f, <1>g, <1>h DEF dispatch_source_cancel, Begin,
     Go
<1>34. CASE t \in callers /\ dispatch_activate(t)
  BY SMTT(60), <1>34, <1>b, <1>c, <1>d, <1>e, <1>f, <1>g, <1>h DEF dispatch_activate, Begin, Go
<1>35. CASE t \in callers /\ dispatch_source_cancel_and_wait(t)
  BY SMTT(60), <1>35, <1>b, <1>c, <1>d, <1>e, <1>f, <1>g, <1>h
     DEF dispatch_source_cancel_and_wait, MayWait, Call, Go
<1>36. CASE t \in callers /\ dispatch_release(t)
  BY <1>36, <1>b, <1>c, <1>d, <1>e, <1>f, <1>g, <1>h DEF dispatch_release, Begin, Go
<1> QED
  BY ZenonT(60), <1>1, <1>2, <1>3, <1>4, <1>5, <1>6, <1>7, <1>8, <1>9, <1>10, <1>11, <1>12, <1>13,
     <1>14, <1>15, <1>16, <1>17, <1>18, <1>19, <1>20, <1>21, <1>22, <1>23, <1>24, <1>25, <1>26,
     <1>27, <1>28, <1>29, <1>30, <1>31, <1>32, <1>33, <1>34, <1>35, <1>36
  DEF SourceMoves, SourceInside

(* One call more or less refers to the source.                               *)
LEMMA ReferrersMove ==
  ASSUME SourceTypes, NEW t \in Actors, SourceMoves(t)
  PROVE  /\ Cardinality(Referrers) \in Nat
         /\ Cardinality(Referrers)' = Cardinality(Referrers)
              + (IF doing'[t] \in Referring THEN 1 ELSE 0)
              - (IF doing[t] \in Referring THEN 1 ELSE 0)
<1> DEFINE S == {u \in Actors : doing[u] \in Referring}
           R == {u \in Actors : doing'[u] \in Referring}
<1>1. IsFiniteSet(S)
  BY SourceAssumption, FS_Subset DEF S, Actors
<1>2. S \ {t} = R \ {t}
  BY SourceFrame
<1>3. (t \in S <=> doing[t] \in Referring) /\ (t \in R <=> doing'[t] \in Referring)
  OBVIOUS
<1>4. Cardinality(Referrers) = Cardinality(S) /\ Cardinality(Referrers)' = Cardinality(R)
  BY DEF Referrers
<1> HIDE DEF S, R
<1> QED
  BY <1>1, <1>2, <1>3, <1>4, CountMoves

(* The handler that cancels its source is the drainer's.                     *)
LEMMA HandlerMoves ==
  ASSUME SourceTypes, DrainLocked, DrainLocked', NEW t \in Actors, SourceMoves(t)
  PROVE  /\ HasSource(t) \/ HasSource(t)' =>
              /\ CancelsInHandler <=> doing[t] = "invoke" /\ at[t] \in Waking
              /\ CancelsInHandler' <=> doing'[t] = "invoke" /\ at'[t] \in Waking
         /\ ~HasSource(t) /\ ~HasSource(t)' => (CancelsInHandler' <=> CancelsInHandler)
<1>1. ASSUME NEW u \in Actors, u # t
      PROVE  /\ HasSource(u)' <=> HasSource(u)
             /\ HasSource(t) \/ HasSource(t)' => ~HasSource(u)
  BY <1>1, SourceOthersStay DEF DrainLocked
<1>2. \A u \in Actors : doing[u] = "invoke" /\ at[u] \in Waking => HasSource(u)
  BY DEF HasSource
<1>3. \A u \in Actors : doing'[u] = "invoke" /\ at'[u] \in Waking => HasSource(u)'
  BY DEF HasSource
<1>4. ASSUME NEW u \in Actors, u # t
      PROVE  doing'[u] = "invoke" /\ at'[u] \in Waking <=> doing[u] = "invoke" /\ at[u] \in Waking
  BY SMTT(60), <1>4, SourceFrame DEF Waking
<1> QED
  BY <1>1, <1>2, <1>3, <1>4 DEF CancelsInHandler

(* The references of the source add up.                                      *)
LEMMA SourceReferencesStep ==
  ASSUME SourceReferences, InQueueOnce, KnoteFits, \A u \in Actors : Stage(u),
         SourceTypes, \A u \in Actors : Course(u), DrainLocked, CallsFit,
         SourceTypes', \A u \in Actors : Course(u)', DrainLocked', CallsFit',
         NEW t \in Actors, SourceMoves(t), ~MayVanish
  PROVE  SourceReferences'
<1>a. /\ InHand(t) \/ InHand(t)' =>
           /\ Somebody("unreg") <=> at[t] = "unreg"
           /\ Somebody("unreg")' <=> at'[t] = "unreg"
           /\ Somebody("deferred") <=> at[t] = "deferred"
           /\ Somebody("deferred")' <=> at'[t] = "deferred"
           /\ Somebody("deleted") <=> at[t] = "deleted"
           /\ Somebody("deleted")' <=> at'[t] = "deleted"
           /\ Somebody("wake") <=> at[t] = "wake"
           /\ Somebody("wake")' <=> at'[t] = "wake"
      /\ ~InHand(t) /\ ~InHand(t)' =>
           /\ Somebody("unreg")' <=> Somebody("unreg")
           /\ Somebody("deferred")' <=> Somebody("deferred")
           /\ Somebody("deleted")' <=> Somebody("deleted")
           /\ Somebody("wake")' <=> Somebody("wake")
  BY PlaceMoves
<1>b. /\ Cardinality(Referrers) \in Nat
      /\ Cardinality(Referrers)' = Cardinality(Referrers)
           + (IF doing'[t] \in Referring THEN 1 ELSE 0) - (IF doing[t] \in Referring THEN 1 ELSE 0)
  BY ReferrersMove
<1>c. /\ HasSource(t) \/ HasSource(t)' =>
           /\ CancelsInHandler <=> doing[t] = "invoke" /\ at[t] \in Waking
           /\ CancelsInHandler' <=> doing'[t] = "invoke" /\ at'[t] \in Waking
      /\ ~HasSource(t) /\ ~HasSource(t)' => (CancelsInHandler' <=> CancelsInHandler)
  BY HandlerMoves
<1>d. Stage(t) /\ Course(t) /\ Course(t)'
  OBVIOUS
<1>e. pushed => enqueued
  BY DEF InQueueOnce
<1>f. Activates(t) => phase = "activating"
  BY DEF DrainLocked
<1> USE DEF SourceReferences, One, Registered, SourceTypes, Course, InHand, HasSource, Stage,
    Activates, SourceLabels, Activation, Arming, Unregistering, Waking, Draining, WaitOrActivate,
    Activators, Referring, word, fields, callouts, kernel, locals, history
<1>1. CASE wakeup(t)
  BY <1>1, <1>a, <1>b, <1>c, <1>d, <1>e, <1>f DEF wakeup, See, Go
<1>2. CASE class_wakeup(t)
  <2>1. /\ UNCHANGED <<dkev, phase, clientRef>> /\ at[t] = "class_wakeup"
        /\ at'[t] \notin {"class_wakeup", "wakeup", "deleted", "wake"}
    BY <1>2 DEF class_wakeup, HasWork, Acknowledges, Consumes, Flushes, Return, Done, Go, See,
       ShouldWakeup, Runnable
  <2>2. Registered' <=> Registered
    BY <1>a, <1>d, <2>1
  <2>3. doing'[t] = IF doing[t] \in {"invoke", "release", "wait"} THEN doing[t] ELSE "none"
    BY <1>2 DEF class_wakeup, HasWork, Acknowledges, Consumes, Flushes, Return, Done, Go, See,
       ShouldWakeup, Runnable
  <2>4. CancelsInHandler' <=> CancelsInHandler /\ doing[t] # "invoke"
    BY <1>c, <2>1, <2>3
  <2>5. doing[t] = "invoke" => CancelsInHandler
    BY <1>c, <2>1
  <2>6. \/ refcnt' = refcnt - (IF Consumes(t) THEN 1 ELSE 0) /\ (pushed' <=> pushed)
        \/ refcnt' = refcnt + 1 - (IF Consumes(t) THEN 1 ELSE 0) /\ pushed' /\ ~pushed
    <3>1. refcnt \in Int
      BY <1>b
    <3>2. CASE ~HasWork(seen[t])
      BY <1>2, <3>1, <3>2 DEF class_wakeup
    <3>3. CASE HasWork(seen[t]) /\ ShouldWakeup
      BY ZenonT(60), <1>2, <1>e, <3>1, <3>3 DEF class_wakeup, ShouldWakeup
    <3>4. CASE HasWork(seen[t]) /\ ~ShouldWakeup
      <4>1. pushed' <=> pushed
        BY <1>2, <3>4 DEF class_wakeup
      <4>2. refcnt' = refcnt - (IF Consumes(t) THEN 1 ELSE 0)
        BY <1>2, <3>1, <3>4 DEF class_wakeup, Consumes
      <4> QED
        BY <4>1, <4>2
    <3> QED
      BY <3>2, <3>3, <3>4
  <2> HIDE DEF Registered, HasSource, Activates, InHand, Stage
  <2> QED
    BY <1>b, <2>1, <2>2, <2>3, <2>4, <2>5, <2>6 DEF Consumes
<1>3. CASE tryarm(t)
  BY SMTT(60), <1>3, <1>a, <1>b, <1>c, <1>d, <1>e, <1>f DEF tryarm, MayArm, ArmFailed, Call, Go
<1>4. CASE kevent_resume(t)
  BY <1>4, <1>a, <1>b, <1>c, <1>d, <1>e, <1>f DEF kevent_resume, Armed, Call, Go
<1>5. CASE kevent_register_fails(t)
  BY <1>5, <1>a, <1>b, <1>c, <1>d, <1>e, <1>f DEF kevent_register_fails, ArmFailed, Call, Go
<1>6. CASE unregister(t)
  <2>1. /\ UNCHANGED <<phase, clientRef, pushed, refcnt, doing>> /\ at[t] = "unreg"
        /\ \/ ~dkev' /\ at'[t] = "deleted"
           \/ (dkev' <=> dkev) /\ at'[t] = "kdelete"
    BY <1>6 DEF unregister, See, Go
  <2>2. Registered' /\ Registered
    BY <1>a, <1>d, <2>1
  <2>3. CancelsInHandler' <=> CancelsInHandler
    BY <1>c, <2>1
  <2> HIDE DEF Registered, HasSource, Activates, InHand, Stage
  <2> QED
    BY <1>b, <2>1, <2>2, <2>3
<1>7. CASE unregister_kernel(t)
  <2>1. /\ UNCHANGED <<phase, clientRef, pushed, refcnt, doing>> /\ at[t] = "kdelete"
        /\ \/ ~dkev' /\ at'[t] = "deleted"
           \/ (dkev' <=> dkev) /\ at'[t] = "deferred"
    BY <1>7 DEF unregister_kernel, Dropped, ImmediateDelete, Go
  <2>2. Registered' /\ Registered
    BY <1>a, <1>d, <2>1
  <2>3. CancelsInHandler' <=> CancelsInHandler
    BY <1>c, <2>1
  <2> HIDE DEF Registered, HasSource, Activates, InHand, Stage
  <2> QED
    BY <1>b, <2>1, <2>2, <2>3
<1>8. CASE unregister_deferred(t)
  BY <1>8, <1>a, <1>b, <1>c, <1>d, <1>e, <1>f DEF unregister_deferred, Call, Go, See
<1>9. CASE unregister_deleted(t)
  BY SMTT(60), <1>9, <1>a, <1>b, <1>c, <1>d, <1>e, <1>f DEF unregister_deleted, See, Go
<1>10. CASE unregister_done(t)
  BY <1>10, <1>a, <1>b, <1>c, <1>d, <1>e, <1>f DEF unregister_done, See, Wakes
<1>11. CASE t \in Workers /\ Pop(t)
  BY SMTT(60), <1>11, <1>a, <1>b, <1>c, <1>d, <1>e, <1>f DEF Pop, Begin, Go
<1>12. CASE drain_try_lock(t)
  BY SMTT(60), <1>12, <1>a, <1>b, <1>c, <1>d, <1>e, <1>f DEF drain_try_lock, Runnable, Invoke, Go,
     Call
<1>13. CASE invoke2_flags(t)
  BY <1>13, <1>a, <1>b, <1>c, <1>d, <1>e, <1>f DEF invoke2_flags, Acknowledges, Delivers,
     Canceling, Rearming, MustEnd, Call, Go
<1>14. CASE latch_and_call(t)
  BY <1>14, <1>a, <1>b, <1>c, <1>d, <1>e, <1>f DEF latch_and_call, Go
<1>15. CASE HandlerReturns(t)
  BY <1>15, <1>a, <1>b, <1>c, <1>d, <1>e, <1>f DEF HandlerReturns, Go
<1>16. CASE invoke_latched(t)
  BY <1>16, <1>a, <1>b, <1>c, <1>d, <1>e, <1>f DEF invoke_latched, Canceling, Rearming, MustEnd,
     Call, Go
<1>17. CASE invoke_unregistered(t)
  BY <1>17, <1>a, <1>b, <1>c, <1>d, <1>e, <1>f DEF invoke_unregistered, Call, Go
<1>18. CASE cancel_callout(t)
  BY <1>18, <1>a, <1>b, <1>c, <1>d, <1>e, <1>f DEF cancel_callout, CancelCallout, Rearming, Call,
     Go
<1>19. CASE drain_try_unlock(t)
  BY <1>19, <1>a, <1>b, <1>c, <1>d, <1>e, <1>f DEF drain_try_unlock, Invoke, Call, Go
<1>20. CASE drain_requeue(t)
  BY SMTT(60), <1>20, <1>a, <1>b, <1>c, <1>d, <1>e, <1>f DEF drain_requeue, Done, Go, See
<1>21. CASE drain_drop(t)
  BY SMTT(60), <1>21, <1>a, <1>b, <1>c, <1>d, <1>e, <1>f DEF drain_drop, Done, Go, See
<1>22. CASE t \in Managers /\ merge_kevent(t)
  BY <1>22, <1>a, <1>b, <1>c, <1>d, <1>e, <1>f DEF merge_kevent, MergedFlags, Call, Go
<1>23. CASE merge_data(t)
  BY <1>23, <1>a, <1>b, <1>c, <1>d, <1>e, <1>f DEF merge_data, Call, Go
<1>24. CASE finalize_activation(t)
  BY <1>24, <1>a, <1>b, <1>c, <1>d, <1>e, <1>f DEF finalize_activation, Call, Go
<1>25. CASE activate_resume(t)
  BY SMTT(60), <1>25, <1>a, <1>b, <1>c, <1>d, <1>e, <1>f DEF activate_resume, Go
<1>26. CASE transfer_or_wakeup(t)
  BY <1>26, <1>a, <1>b, <1>c, <1>d, <1>e, <1>f DEF transfer_or_wakeup, Return, Done, See, Go
<1>27. CASE wait_lock(t)
  BY <1>27, <1>a, <1>b, <1>c, <1>d, <1>e, <1>f DEF wait_lock, Runnable, Call, Go, WaitDirties
<1>28. CASE wait_activate(t)
  BY <1>28, <1>a, <1>b, <1>c, <1>d, <1>e, <1>f DEF wait_activate, Go
<1>29. CASE wait_unregistered(t)
  BY <1>29, <1>a, <1>b, <1>c, <1>d, <1>e, <1>f DEF wait_unregistered, Go, CancelCallout
<1>30. CASE wait_await(t)
  BY SMTT(60), <1>30, <1>a, <1>b, <1>c, <1>d, <1>e, <1>f DEF wait_await, Done, See, Go
<1>31. CASE wait_sleep(t)
  BY SMTT(60), <1>31, <1>a, <1>b, <1>c, <1>d, <1>e, <1>f DEF wait_sleep, Go, See
<1>32. CASE xref_release(t)
  BY SMTT(60), <1>32, <1>a, <1>b, <1>c, <1>d, <1>e, <1>f DEF xref_release, Done, See, Go
<1>33. CASE dispatch_source_cancel(t)
  BY <1>33, <1>a, <1>b, <1>c, <1>d, <1>e, <1>f DEF dispatch_source_cancel, Begin, Go
<1>34. CASE t \in callers /\ dispatch_activate(t)
  BY <1>34, <1>a, <1>b, <1>c, <1>d, <1>e, <1>f DEF dispatch_activate, Begin, Go
<1>35. CASE t \in callers /\ dispatch_source_cancel_and_wait(t)
  BY <1>35, <1>a, <1>b, <1>c, <1>d, <1>e, <1>f DEF dispatch_source_cancel_and_wait, MayWait, Call,
     Go
<1>36. CASE t \in callers /\ dispatch_release(t)
  BY <1>36, <1>a, <1>b, <1>c, <1>d, <1>e, <1>f DEF dispatch_release, Begin, Go
<1> QED
  BY SMTT(60), <1>1, <1>2, <1>3, <1>4, <1>5, <1>6, <1>7, <1>8, <1>9, <1>10, <1>11, <1>12, <1>13,
     <1>14, <1>15, <1>16, <1>17, <1>18, <1>19, <1>20, <1>21, <1>22, <1>23, <1>24, <1>25, <1>26,
     <1>27, <1>28, <1>29, <1>30, <1>31, <1>32, <1>33, <1>34, <1>35, <1>36
  DEF SourceMoves, SourceInside

(* Nobody is told of the end before it.                                      *)
LEMMA ToldOfEndStep ==
  ASSUME ToldOfEnd, CallsFit, SourceTypes, \A u \in Actors : Course(u), NEW t \in Actors,
         Stage(t), SourceMoves(t), ~MayVanish
  PROVE  ToldOfEnd'
<1>a. "deleted" \in flags => "deleted" \in flags'
  BY FlagsGrow
<1>b. /\ at[t] \in {"transfer", "wakeup", "class_wakeup"} /\ doing[t] = "waitActivate" =>
           "deleted" \in flags
      /\ at[t] = "lock" => phase # "activating"
  BY DEF CallsFit, Waking
<1>c. at[t] = "callout" => "deleted" \in flags
  BY DEF Stage
<1>d. ASSUME NEW f, IsDeleted(f) PROVE "deleted" \in f
  BY <1>d DEF IsDeleted, State
<1> USE DEF ToldOfEnd, word, fields, callouts, kernel, locals, history
<1>1. CASE wakeup(t)
  BY <1>1, <1>a, <1>b, <1>c, <1>d DEF wakeup, See, Go
<1>2. CASE class_wakeup(t)
  BY <1>2, <1>a, <1>b, <1>c, <1>d DEF class_wakeup, HasWork, Acknowledges, Consumes, Flushes,
     Return, Done, Go, See, ShouldWakeup, Runnable
<1>3. CASE tryarm(t)
  BY <1>3, <1>a, <1>b, <1>c, <1>d DEF tryarm, MayArm, ArmFailed, Call, Go
<1>4. CASE kevent_resume(t)
  BY <1>4, <1>a, <1>b, <1>c, <1>d DEF kevent_resume, Armed, Call, Go
<1>5. CASE kevent_register_fails(t)
  BY <1>5, <1>a, <1>b, <1>c, <1>d DEF kevent_register_fails, ArmFailed, Call, Go
<1>6. CASE unregister(t)
  BY <1>6, <1>a, <1>b, <1>c, <1>d DEF unregister, See, Go
<1>7. CASE unregister_kernel(t)
  BY <1>7, <1>a, <1>b, <1>c, <1>d DEF unregister_kernel, Dropped, ImmediateDelete, Go
<1>8. CASE unregister_deferred(t)
  BY <1>8, <1>a, <1>b, <1>c, <1>d DEF unregister_deferred, Call, Go, See
<1>9. CASE unregister_deleted(t)
  BY <1>9, <1>a, <1>b, <1>c, <1>d DEF unregister_deleted, See, Go
<1>10. CASE unregister_done(t)
  BY <1>10, <1>a, <1>b, <1>c, <1>d DEF unregister_done, See, Wakes
<1>11. CASE t \in Workers /\ Pop(t)
  BY <1>11, <1>a, <1>b, <1>c, <1>d DEF Pop, Begin, Go
<1>12. CASE drain_try_lock(t)
  BY <1>12, <1>a, <1>b, <1>c, <1>d DEF drain_try_lock, Runnable, Invoke, Go, Call
<1>13. CASE invoke2_flags(t)
  BY <1>13, <1>a, <1>b, <1>c, <1>d DEF invoke2_flags, Acknowledges, Delivers, Canceling, Rearming,
     MustEnd, Call, Go
<1>14. CASE latch_and_call(t)
  BY <1>14, <1>a, <1>b, <1>c, <1>d DEF latch_and_call, Go
<1>15. CASE HandlerReturns(t)
  BY <1>15, <1>a, <1>b, <1>c, <1>d DEF HandlerReturns, Go
<1>16. CASE invoke_latched(t)
  BY <1>16, <1>a, <1>b, <1>c, <1>d DEF invoke_latched, Canceling, Rearming, MustEnd, Call, Go
<1>17. CASE invoke_unregistered(t)
  BY <1>17, <1>a, <1>b, <1>c, <1>d DEF invoke_unregistered, Call, Go
<1>18. CASE cancel_callout(t)
  BY <1>18, <1>a, <1>b, <1>c, <1>d DEF cancel_callout, CancelCallout, Rearming, Call, Go
<1>19. CASE drain_try_unlock(t)
  BY <1>19, <1>a, <1>b, <1>c, <1>d DEF drain_try_unlock, Invoke, Call, Go
<1>20. CASE drain_requeue(t)
  BY <1>20, <1>a, <1>b, <1>c, <1>d DEF drain_requeue, Done, Go, See
<1>21. CASE drain_drop(t)
  BY <1>21, <1>a, <1>b, <1>c, <1>d DEF drain_drop, Done, Go, See
<1>22. CASE t \in Managers /\ merge_kevent(t)
  BY <1>22, <1>a, <1>b, <1>c, <1>d DEF merge_kevent, MergedFlags, Call, Go
<1>23. CASE merge_data(t)
  BY <1>23, <1>a, <1>b, <1>c, <1>d DEF merge_data, Call, Go
<1>24. CASE finalize_activation(t)
  BY <1>24, <1>a, <1>b, <1>c, <1>d DEF finalize_activation, Call, Go
<1>25. CASE activate_resume(t)
  BY <1>25, <1>a, <1>b, <1>c, <1>d DEF activate_resume, Go
<1>26. CASE transfer_or_wakeup(t)
  BY <1>26, <1>a, <1>b, <1>c, <1>d DEF transfer_or_wakeup, Return, Done, See, Go
<1>27. CASE wait_lock(t)
  BY <1>27, <1>a, <1>b, <1>c, <1>d DEF wait_lock, Runnable, Call, Go, WaitDirties
<1>28. CASE wait_activate(t)
  BY <1>28, <1>a, <1>b, <1>c, <1>d DEF wait_activate, Go
<1>29. CASE wait_unregistered(t)
  BY <1>29, <1>a, <1>b, <1>c, <1>d DEF wait_unregistered, Go, CancelCallout
<1>30. CASE wait_await(t)
  BY <1>30, <1>a, <1>b, <1>c, <1>d DEF wait_await, Done, See, Go
<1>31. CASE wait_sleep(t)
  BY <1>31, <1>a, <1>b, <1>c, <1>d DEF wait_sleep, Go, See
<1>32. CASE xref_release(t)
  BY <1>32, <1>a, <1>b, <1>c, <1>d DEF xref_release, Done, See, Go
<1>33. CASE dispatch_source_cancel(t)
  BY <1>33, <1>a, <1>b, <1>c, <1>d DEF dispatch_source_cancel, Begin, Go
<1>34. CASE t \in callers /\ dispatch_activate(t)
  BY <1>34, <1>a, <1>b, <1>c, <1>d DEF dispatch_activate, Begin, Go
<1>35. CASE t \in callers /\ dispatch_source_cancel_and_wait(t)
  BY <1>35, <1>a, <1>b, <1>c, <1>d DEF dispatch_source_cancel_and_wait, MayWait, Call, Go
<1>36. CASE t \in callers /\ dispatch_release(t)
  BY <1>36, <1>a, <1>b, <1>c, <1>d DEF dispatch_release, Begin, Go
<1> QED
  BY <1>1, <1>2, <1>3, <1>4, <1>5, <1>6, <1>7, <1>8, <1>9, <1>10, <1>11, <1>12, <1>13, <1>14,
     <1>15, <1>16, <1>17, <1>18, <1>19, <1>20, <1>21, <1>22, <1>23, <1>24, <1>25, <1>26, <1>27,
     <1>28, <1>29, <1>30, <1>31, <1>32, <1>33, <1>34, <1>35, <1>36 DEF SourceMoves, SourceInside

(* A new source.                                                             *)
LEMMA SourceInitInv == SourceInit => SourceInv
<1> SUFFICES ASSUME SourceInit PROVE SourceInv
  OBVIOUS
<1> USE DEF SourceInit
<1>a. Nobody \notin Actors
  BY SourceAssumption DEF Actors
<1>1. SourceTypes
  BY SourceAssumption DEF SourceTypes, SourceLabels
<1>2. \A t \in Actors : Course(t)
  BY DEF Course, SourceLabels, Activation, Arming, Unregistering, Waking, Draining,
     WaitOrActivate, Activators, Referring
<1>3. DrainLocked
  BY <1>a DEF DrainLocked, HasSource, Activates, Draining, Activators
<1>4. CallsFit
  BY DEF CallsFit, WaitOrActivate, Activators
<1>5. KnoteFits
  BY DEF KnoteFits, NoData, Somebody
<1>6. \A t \in Actors : Stage(t)
  BY DEF Stage, Draining
<1>7. ToldOfEnd
  BY SourceAssumption DEF ToldOfEnd
<1>8. InQueueOnce
  BY DEF InQueueOnce, Somebody
<1>9. SourceReferences
  <2>1. Referrers = {} /\ ~CancelsInHandler
    BY DEF Referrers, Referring, CancelsInHandler
  <2>2. Cardinality({}) = 0
    BY FS_EmptySet
  <2> QED
    BY <2>1, <2>2 DEF SourceReferences, One, Registered
<1> QED
  BY <1>1, <1>2, <1>3, <1>4, <1>5, <1>6, <1>7, <1>8, <1>9 DEF SourceInv

(* The kernel delivers an event.                                             *)
LEMMA DeliveryKeeps == ASSUME SourceInv, KernelDelivers, ~MayVanish PROVE SourceInv'
<1>1. /\ knote = "enabled" /\ knote' = "disabled" /\ posted' = "event"
      /\ UNCHANGED <<flags, word, pushed, fields, callouts, refcnt, at, locals, seen, history>>
  BY DEF KernelDelivers
<1>2. SourceTypes' /\ \A t \in Actors : Course(t)'
  BY <1>1 DEF SourceInv, SourceTypes, Course, word, fields, callouts, locals, history
<1>3. DrainLocked' /\ CallsFit'
  BY <1>1 DEF SourceInv, DrainLocked, HasSource, Activates, CallsFit, word, fields, callouts,
     locals, history
<1>4. KnoteFits'
  BY <1>1 DEF SourceInv, KnoteFits, NoData, Somebody, IsOver, word, fields, callouts, locals,
     history
<1>5. \A t \in Actors : Stage(t)'
  BY <1>1 DEF SourceInv, KnoteFits, Stage, NoData, Somebody, IsOver, word, fields, callouts,
     locals, history
<1>6. ToldOfEnd' /\ InQueueOnce'
  BY <1>1 DEF SourceInv, ToldOfEnd, InQueueOnce, Somebody, word, fields, callouts, locals, history
<1>7. SourceReferences'
  BY <1>1 DEF SourceInv, SourceReferences, Registered, Somebody, CancelsInHandler, Referrers,
              word, fields, callouts, locals, history
<1> QED
  BY <1>2, <1>3, <1>4, <1>5, <1>6, <1>7 DEF SourceInv

(* A step of a thread, or a call.                                            *)
LEMMA MovesKeep ==
  ASSUME SourceInv, NEW t \in Actors, SourceMoves(t), ~MayVanish PROVE SourceInv'
<1>a. /\ SourceTypes /\ \A u \in Actors : Course(u)
      /\ DrainLocked /\ CallsFit /\ KnoteFits /\ \A u \in Actors : Stage(u)
      /\ ToldOfEnd /\ InQueueOnce /\ SourceReferences
  BY DEF SourceInv
<1>1. SourceTypes' /\ \A u \in Actors : Course(u)'
  BY <1>a, SourceTypesStep, CourseStep
<1>2. DrainLocked' /\ CallsFit'
  BY <1>a, DrainLockedStep, CallsFitStep
<1>3. KnoteFits'
  BY <1>a, <1>1, <1>2, KnoteFitsStep
<1>4. ASSUME NEW u \in Actors PROVE Stage(u)'
  <2>1. CASE u = t
    BY <1>a, <1>1, <1>2, <1>3, <2>1, StageSelf
  <2>2. CASE u # t /\ ~InHand(t)
    BY <1>a, <1>1, <1>2, <1>3, <2>2, StageOthers
  <2>3. CASE u # t /\ InHand(t)
    <3>1. ~InHand(u)' /\ ~HasSource(u)'
      BY <1>a, <1>1, <1>2, <2>3, PlaceMoves, SoleHolder, SourceOthersStay
    <3> QED
      BY <3>1 DEF Stage, InHand, HasSource, Activation, Draining, Arming, Unregistering, Waking
  <2> QED
    BY <2>1, <2>2, <2>3
<1>5. ToldOfEnd' /\ InQueueOnce'
  BY <1>a, ToldOfEndStep, InQueueOnceStep
<1>6. SourceReferences'
  BY <1>a, <1>1, <1>2, SourceReferencesStep
<1> QED
  BY <1>1, <1>2, <1>3, <1>4, <1>5, <1>6 DEF SourceInv

(* The invariant of a source whose resource stays.                           *)
LEMMA SourceInvariant == ASSUME ~MayVanish PROVE SourceSpec => []SourceInv
<1>1. ASSUME SourceInv, [SourceNext]_sourceVars PROVE SourceInv'
  <2>1. CASE KernelDelivers
    BY <1>1, <2>1, DeliveryKeeps
  <2>2. CASE \E t \in Actors : SourceInside(t) \/ dispatch_source_cancel(t)
    BY <1>1, <2>2, MovesKeep DEF SourceMoves
  <2>3. CASE \E c \in callers : \/ dispatch_activate(c) \/ dispatch_source_cancel_and_wait(c)
                               \/ dispatch_release(c)
    <3>1. callers \subseteq Actors
      BY <1>1 DEF SourceInv, SourceTypes, Actors
    <3> QED
      BY <1>1, <2>3, <3>1, MovesKeep DEF SourceMoves
  <2>4. CASE UNCHANGED sourceVars
    BY <1>1, <2>4 DEF sourceVars, word, fields, callouts, kernel, locals, history, SourceInv,
       SourceTypes, Course, DrainLocked, HasSource, Activates, CallsFit, KnoteFits, NoData,
       Somebody, IsOver, Stage, ToldOfEnd, InQueueOnce, SourceReferences, Registered,
       CancelsInHandler, Referrers
  <2> QED
    BY <1>1, <2>1, <2>2, <2>3, <2>4 DEF SourceNext
<1> QED
  BY <1>1, SourceInitInv, PTL DEF SourceSpec

(* Cancellation is final, as long as the monitored resource does not         *)
(* vanish: when the cancel handler is called, or                             *)
(* dispatch_source_cancel_and_wait returns, the knote is gone, no event is   *)
(* on its way and no handler runs; the kevent is not freed under an event,   *)
(* and the source not under a thread that uses it.                           *)
THEOREM SourceCancellationFinal == ASSUME ~MayVanish PROVE SourceSpec => []CancellationFinal
<1>1. ASSUME SourceInv PROVE CancellationFinal
  <2> USE <1>1 DEF SourceInv
  <2>1. cancelH = "called" \/ returned =>
          knote = "none" /\ posted = "none" /\ SourceAt({"handler"}) = {}
    BY DEF ToldOfEnd, KnoteFits, Stage, SourceAt
  <2>2. ~dkev => knote = "none" /\ posted = "none"
    BY DEF KnoteFits
  <2>3. ~({"armed", "deleted"} \subseteq flags)
    BY DEF KnoteFits
  <2>4. ASSUME refcnt = 0
        PROVE  /\ ~clientRef /\ ~pushed /\ knote = "none" /\ posted = "none"
               /\ SourceAt({"idle"}) = Actors
    <3>1. IsFiniteSet(Referrers)
      BY SourceAssumption, FS_Subset DEF Referrers, Actors
    <3>2. Cardinality(Referrers) \in Nat /\ (Cardinality(Referrers) = 0 => Referrers = {})
      BY <3>1, FS_CardinalityType, FS_EmptySet
    <3>3. ~clientRef /\ ~Registered /\ ~pushed /\ Referrers = {}
      BY <2>4, <3>2 DEF SourceReferences, One
    <3>4. ASSUME NEW t \in Actors PROVE at[t] = "idle"
      BY <3>3 DEF Referrers, CallsFit, Course, SourceTypes
    <3> QED
      BY <2>2, <3>3, <3>4 DEF Registered, SourceAt
  <2>5. ~trapped
    BY DEF ToldOfEnd
  <2> QED
    BY <2>1, <2>2, <2>3, <2>4, <2>5 DEF CancellationFinal
<1> QED
  BY <1>1, SourceInvariant, PTL

-----------------------------------------------------------------------------
\* A waiter is one that cancelled, and one that sleeps is yet to be woken.
Waiting ==
  /\ "waiter" \in flags => "canceled" \in flags
  /\ \A t \in Actors :
       /\ doing[t] = "wait" \/ (doing[t] = "invoke" /\ at[t] \in Waking) => "canceled" \in flags
       /\ at[t] = "sleep" => "waiter" \in seen[t] /\ ~IsDeleted(seen[t])
       /\ at[t] = "asleep" => \/ "waiter" \in flags /\ (dkev \/ Somebody("deleted"))
                              \/ \E u \in Actors : at[u] = "wake" /\ "waiter" \in seen[u]

\* An armed knote is enabled, or has handed an event out.
KnoteServed ==
  /\ "armed" \in flags => \/ knote = "enabled" \/ posted # "none"
                          \/ Somebody("kevent") \/ Somebody("deleted")
  /\ "deferred" \in flags \/ Somebody("deferred") => knote # "enabled"

\* An event to be delivered.
Undelivered == flags \cap Over = {} /\ data
\* What the source is owed: HasWork, but for the event handler of a source that was
\* found deleted by dispatch_source_cancel_and_wait, which leaves it to the release.
IsOwed ==
  \/ ~installed \/ Acknowledges(flags) \/ Undelivered
  \/ ~IsOver /\ rearm /\ "armed" \notin flags
  \/ /\ MustEnd(flags)
     /\ "deleted" \notin flags \/ cancelH = "set" \/ (eventH /\ "released" \in flags)

\* Who sets DIRTY, and who else looks at the source.
Flusher(u) == \/ at[u] \in {"data", "wakeup"} /\ Flushes(u)
              \/ at[u] = "class_wakeup" /\ Flushes(u) /\ HasWork(seen[u])
              \/ at[u] = "lock" /\ ret[u] = "first"
OnTheWay(u) == \/ Flusher(u) \/ at[u] = "wakeup"
               \/ at[u] = "class_wakeup" /\ HasWork(seen[u])

\* What a drainer that goes on to unlock does not look at any more.
Overlooks(t) ==
  \/ at[t] \in {"handler", "latched"} /\ Undelivered
  \/ /\ at[t] \in Arming /\ ret[t] = "rearm" /\ "retq" \notin wish[t]
     /\ Undelivered \/ MustEnd(flags)
  \/ at[t] = "unlock" /\ IsOwed

DrainerTold == (\E t \in Actors : Overlooks(t)) => dirty \/ \E u \in Actors : Flusher(u)
SourceWatched == Runnable /\ ~enqueued /\ IsOwed => \E u \in Actors : OnTheWay(u)

SourceRestInv == Waiting /\ KnoteServed /\ DrainerTold /\ SourceWatched

(* What a step does to the threads that wait.                                *)
LEMMA WaitMoves ==
  ASSUME SourceTypes, SourceTypes', NEW t \in Actors, Course(t), CallsFit, Waiting, KnoteFits,
         SourceMoves(t), ~MayVanish
  PROVE  /\ "waiter" \in flags' => "canceled" \in flags'
         /\ "canceled" \in flags => "canceled" \in flags'
         /\ doing'[t] = "wait" \/ (doing'[t] = "invoke" /\ at'[t] \in Waking)
              => "canceled" \in flags'
         /\ at'[t] = "sleep" => "waiter" \in seen'[t] /\ ~IsDeleted(seen'[t])
         /\ at'[t] = "asleep" => at[t] = "sleep" /\ flags = seen[t] /\ UNCHANGED <<flags, dkev>>
         /\ at[t] # "deleted" => ("waiter" \in flags => "waiter" \in flags')
         /\ at[t] # "deleted" => (dkev => dkev' \/ at'[t] = "deleted")
         /\ at[t] = "deleted" => at'[t] = "wake" /\ ("waiter" \in flags => "waiter" \in seen'[t])
         /\ at[t] = "wake" => /\ "waiter" \in seen[t] => \A u \in Actors : at'[u] # "asleep"
                              /\ UNCHANGED <<flags, dkev>>
<1>a. /\ at[t] = "lock" \/ doing[t] = "waitActivate" => "canceled" \in flags
      /\ "deferred" \in flags => flags \cap Over # {}
  BY DEF CallsFit, KnoteFits, IsOver
<1> USE DEF SourceTypes, Course, Waiting, IsDeleted, SourceBits, State, Over, SourceLabels,
    Activation, Arming, Unregistering, Waking, Draining, WaitOrActivate, Activators, Referring,
    word, fields, callouts, kernel, locals, history
<1>1. CASE wakeup(t)
  BY <1>1, <1>a DEF wakeup, See, Go
<1>2. CASE class_wakeup(t)
  BY <1>2, <1>a DEF class_wakeup, HasWork, Acknowledges, Consumes, Flushes, Return, Done, Go, See,
     ShouldWakeup, Runnable
<1>3. CASE tryarm(t)
  BY <1>3, <1>a DEF tryarm, MayArm, ArmFailed, Call, Go
<1>4. CASE kevent_resume(t)
  BY <1>4, <1>a DEF kevent_resume, Armed, Call, Go
<1>5. CASE kevent_register_fails(t)
  BY <1>5, <1>a DEF kevent_register_fails, ArmFailed, Call, Go
<1>6. CASE unregister(t)
  BY <1>6, <1>a DEF unregister, See, Go
<1>7. CASE unregister_kernel(t)
  BY <1>7, <1>a DEF unregister_kernel, Dropped, ImmediateDelete, Go
<1>8. CASE unregister_deferred(t)
  BY <1>8, <1>a DEF unregister_deferred, Call, Go, See
<1>9. CASE unregister_deleted(t)
  BY <1>9, <1>a DEF unregister_deleted, See, Go
<1>10. CASE unregister_done(t)
  BY <1>10, <1>a DEF unregister_done, See, Wakes
<1>11. CASE t \in Workers /\ Pop(t)
  BY <1>11, <1>a DEF Pop, Begin, Go
<1>12. CASE drain_try_lock(t)
  BY <1>12, <1>a DEF drain_try_lock, Runnable, Invoke, Go, Call
<1>13. CASE invoke2_flags(t)
  BY <1>13, <1>a DEF invoke2_flags, Acknowledges, Delivers, Canceling, Rearming, MustEnd, Call, Go
<1>14. CASE latch_and_call(t)
  BY <1>14, <1>a DEF latch_and_call, Go
<1>15. CASE HandlerReturns(t)
  BY <1>15, <1>a DEF HandlerReturns, Go
<1>16. CASE invoke_latched(t)
  BY <1>16, <1>a DEF invoke_latched, Canceling, Rearming, MustEnd, Call, Go
<1>17. CASE invoke_unregistered(t)
  BY <1>17, <1>a DEF invoke_unregistered, Call, Go
<1>18. CASE cancel_callout(t)
  BY <1>18, <1>a DEF cancel_callout, CancelCallout, Rearming, Call, Go
<1>19. CASE drain_try_unlock(t)
  BY <1>19, <1>a DEF drain_try_unlock, Invoke, Call, Go
<1>20. CASE drain_requeue(t)
  BY <1>20, <1>a DEF drain_requeue, Done, Go, See
<1>21. CASE drain_drop(t)
  BY <1>21, <1>a DEF drain_drop, Done, Go, See
<1>22. CASE t \in Managers /\ merge_kevent(t)
  BY <1>22, <1>a DEF merge_kevent, MergedFlags, Call, Go
<1>23. CASE merge_data(t)
  BY <1>23, <1>a DEF merge_data, Call, Go
<1>24. CASE finalize_activation(t)
  BY <1>24, <1>a DEF finalize_activation, Call, Go
<1>25. CASE activate_resume(t)
  BY <1>25, <1>a DEF activate_resume, Go
<1>26. CASE transfer_or_wakeup(t)
  BY <1>26, <1>a DEF transfer_or_wakeup, Return, Done, See, Go
<1>27. CASE wait_lock(t)
  BY <1>27, <1>a DEF wait_lock, Runnable, Call, Go, WaitDirties
<1>28. CASE wait_activate(t)
  BY <1>28, <1>a DEF wait_activate, Go
<1>29. CASE wait_unregistered(t)
  BY <1>29, <1>a DEF wait_unregistered, Go, CancelCallout
<1>30. CASE wait_await(t)
  BY <1>30, <1>a DEF wait_await, Done, See, Go
<1>31. CASE wait_sleep(t)
  BY <1>31, <1>a DEF wait_sleep, Go, See
<1>32. CASE xref_release(t)
  BY <1>32, <1>a DEF xref_release, Done, See, Go
<1>33. CASE dispatch_source_cancel(t)
  BY <1>33, <1>a DEF dispatch_source_cancel, Begin, Go
<1>34. CASE t \in callers /\ dispatch_activate(t)
  BY <1>34, <1>a DEF dispatch_activate, Begin, Go
<1>35. CASE t \in callers /\ dispatch_source_cancel_and_wait(t)
  BY <1>35, <1>a DEF dispatch_source_cancel_and_wait, MayWait, Call, Go
<1>36. CASE t \in callers /\ dispatch_release(t)
  BY <1>36, <1>a DEF dispatch_release, Begin, Go
<1> QED
  BY <1>1, <1>2, <1>3, <1>4, <1>5, <1>6, <1>7, <1>8, <1>9, <1>10, <1>11, <1>12, <1>13, <1>14,
     <1>15, <1>16, <1>17, <1>18, <1>19, <1>20, <1>21, <1>22, <1>23, <1>24, <1>25, <1>26, <1>27,
     <1>28, <1>29, <1>30, <1>31, <1>32, <1>33, <1>34, <1>35, <1>36 DEF SourceMoves, SourceInside

(* An armed knote stays one that will be heard of.                           *)
LEMMA KnoteServedStep ==
  ASSUME KnoteServed, KnoteFits, \A u \in Actors : Stage(u),
         SourceTypes, \A u \in Actors : Course(u), DrainLocked, CallsFit,
         SourceTypes', \A u \in Actors : Course(u)', DrainLocked', CallsFit',
         NEW t \in Actors, SourceMoves(t), ~MayVanish
  PROVE  KnoteServed'
<1>a. InHand(t) \/ InHand(t)' =>
        /\ Somebody("kevent") <=> at[t] = "kevent"
        /\ Somebody("kevent")' <=> at'[t] = "kevent"
        /\ Somebody("deleted") <=> at[t] = "deleted"
        /\ Somebody("deleted")' <=> at'[t] = "deleted"
        /\ Somebody("deferred") <=> at[t] = "deferred"
        /\ Somebody("deferred")' <=> at'[t] = "deferred"
  BY PlaceMoves DEF Somebody, InHand, Activation, Arming
<1>b. ~InHand(t) /\ ~InHand(t)' =>
        /\ Somebody("kevent") => Somebody("kevent")'
        /\ Somebody("deleted") => Somebody("deleted")'
        /\ Somebody("deferred")' => Somebody("deferred")
  <2>1. \A u \in Actors : at[u] = "kevent" => at'[u] = "kevent" \/ u = t
    BY SourceFrame
  <2>2. ~InHand(t) => at[t] # "kevent"
    BY DEF InHand, Activation, Arming
  <2>3. ~InHand(t) /\ Somebody("kevent") => Somebody("kevent")'
    BY <2>1, <2>2 DEF Somebody
  <2> QED
    BY <2>3, PlaceMoves
<1>c. Stage(t) /\ Course(t)
  OBVIOUS
<1>d. /\ knote = "enabled" => posted = "none"
      /\ "deferred" \in flags /\ "armed" \notin flags => knote # "enabled"
  BY DEF KnoteFits
<1> USE DEF KnoteServed, SourceTypes, Course, InHand, Stage, SourceBits, State, Over,
    SourceLabels, Activation, Arming, Unregistering, Waking, Draining, WaitOrActivate, Activators,
    Referring, word, fields, callouts, kernel, locals, history
<1>1. CASE wakeup(t)
  BY <1>1, <1>a, <1>b, <1>c, <1>d DEF wakeup, See, Go
<1>2. CASE class_wakeup(t)
  BY <1>2, <1>a, <1>b, <1>c, <1>d DEF class_wakeup, HasWork, Acknowledges, Consumes, Flushes,
     Return, Done, Go, See, ShouldWakeup, Runnable
<1>3. CASE tryarm(t)
  BY <1>3, <1>a, <1>b, <1>c, <1>d DEF tryarm, MayArm, ArmFailed, Call, Go
<1>4. CASE kevent_resume(t)
  BY <1>4, <1>a, <1>b, <1>c, <1>d DEF kevent_resume, Armed, Call, Go
<1>5. CASE kevent_register_fails(t)
  BY <1>5, <1>a, <1>b, <1>c, <1>d DEF kevent_register_fails, ArmFailed, Call, Go
<1>6. CASE unregister(t)
  <2>1. /\ at[t] = "unreg" /\ at'[t] \in {"deleted", "kdelete"} /\ InHand(t)
        /\ UNCHANGED <<flags, knote, posted>>
    BY <1>6 DEF unregister, See, Go
  <2> HIDE DEF Stage, Course, InHand, SourceTypes
  <2> QED
    BY <1>a, <2>1
<1>7. CASE unregister_kernel(t)
  <2>1. at[t] = "kdelete" /\ InHand(t) /\ flags' = flags
    BY <1>7 DEF unregister_kernel, Dropped, ImmediateDelete, Go
  <2>2. \/ at'[t] = "deleted" /\ knote' = "none"
        \/ at'[t] = "deferred" /\ knote' = "none" /\ posted' = "delete"
        \/ at'[t] = "deferred" /\ knote = "disabled" /\ UNCHANGED <<knote, posted>>
    BY <1>7 DEF unregister_kernel, Dropped, ImmediateDelete, Go
  <2> HIDE DEF Stage, Course, InHand, SourceTypes
  <2> QED
    BY <1>a, <2>1, <2>2
<1>8. CASE unregister_deferred(t)
  BY <1>8, <1>a, <1>b, <1>c, <1>d DEF unregister_deferred, Call, Go, See
<1>9. CASE unregister_deleted(t)
  BY <1>9, <1>a, <1>b, <1>c, <1>d DEF unregister_deleted, See, Go
<1>10. CASE unregister_done(t)
  BY <1>10, <1>a, <1>b, <1>c, <1>d DEF unregister_done, See, Wakes
<1>11. CASE t \in Workers /\ Pop(t)
  BY <1>11, <1>a, <1>b, <1>c, <1>d DEF Pop, Begin, Go
<1>12. CASE drain_try_lock(t)
  BY <1>12, <1>a, <1>b, <1>c, <1>d DEF drain_try_lock, Runnable, Invoke, Go, Call
<1>13. CASE invoke2_flags(t)
  BY <1>13, <1>a, <1>b, <1>c, <1>d DEF invoke2_flags, Acknowledges, Delivers, Canceling, Rearming,
     MustEnd, Call, Go
<1>14. CASE latch_and_call(t)
  BY <1>14, <1>a, <1>b, <1>c, <1>d DEF latch_and_call, Go
<1>15. CASE HandlerReturns(t)
  BY <1>15, <1>a, <1>b, <1>c, <1>d DEF HandlerReturns, Go
<1>16. CASE invoke_latched(t)
  BY <1>16, <1>a, <1>b, <1>c, <1>d DEF invoke_latched, Canceling, Rearming, MustEnd, Call, Go
<1>17. CASE invoke_unregistered(t)
  BY <1>17, <1>a, <1>b, <1>c, <1>d DEF invoke_unregistered, Call, Go
<1>18. CASE cancel_callout(t)
  BY <1>18, <1>a, <1>b, <1>c, <1>d DEF cancel_callout, CancelCallout, Rearming, Call, Go
<1>19. CASE drain_try_unlock(t)
  BY <1>19, <1>a, <1>b, <1>c, <1>d DEF drain_try_unlock, Invoke, Call, Go
<1>20. CASE drain_requeue(t)
  BY <1>20, <1>a, <1>b, <1>c, <1>d DEF drain_requeue, Done, Go, See
<1>21. CASE drain_drop(t)
  BY <1>21, <1>a, <1>b, <1>c, <1>d DEF drain_drop, Done, Go, See
<1>22. CASE t \in Managers /\ merge_kevent(t)
  BY <1>22, <1>a, <1>b, <1>c, <1>d DEF merge_kevent, MergedFlags, Call, Go
<1>23. CASE merge_data(t)
  BY <1>23, <1>a, <1>b, <1>c, <1>d DEF merge_data, Call, Go
<1>24. CASE finalize_activation(t)
  BY <1>24, <1>a, <1>b, <1>c, <1>d DEF finalize_activation, Call, Go
<1>25. CASE activate_resume(t)
  BY <1>25, <1>a, <1>b, <1>c, <1>d DEF activate_resume, Go
<1>26. CASE transfer_or_wakeup(t)
  BY <1>26, <1>a, <1>b, <1>c, <1>d DEF transfer_or_wakeup, Return, Done, See, Go
<1>27. CASE wait_lock(t)
  BY <1>27, <1>a, <1>b, <1>c, <1>d DEF wait_lock, Runnable, Call, Go, WaitDirties
<1>28. CASE wait_activate(t)
  BY <1>28, <1>a, <1>b, <1>c, <1>d DEF wait_activate, Go
<1>29. CASE wait_unregistered(t)
  BY <1>29, <1>a, <1>b, <1>c, <1>d DEF wait_unregistered, Go, CancelCallout
<1>30. CASE wait_await(t)
  BY <1>30, <1>a, <1>b, <1>c, <1>d DEF wait_await, Done, See, Go
<1>31. CASE wait_sleep(t)
  BY <1>31, <1>a, <1>b, <1>c, <1>d DEF wait_sleep, Go, See
<1>32. CASE xref_release(t)
  BY <1>32, <1>a, <1>b, <1>c, <1>d DEF xref_release, Done, See, Go
<1>33. CASE dispatch_source_cancel(t)
  BY <1>33, <1>a, <1>b, <1>c, <1>d DEF dispatch_source_cancel, Begin, Go
<1>34. CASE t \in callers /\ dispatch_activate(t)
  BY <1>34, <1>a, <1>b, <1>c, <1>d DEF dispatch_activate, Begin, Go
<1>35. CASE t \in callers /\ dispatch_source_cancel_and_wait(t)
  BY <1>35, <1>a, <1>b, <1>c, <1>d DEF dispatch_source_cancel_and_wait, MayWait, Call, Go
<1>36. CASE t \in callers /\ dispatch_release(t)
  BY <1>36, <1>a, <1>b, <1>c, <1>d DEF dispatch_release, Begin, Go
<1> QED
  BY <1>1, <1>2, <1>3, <1>4, <1>5, <1>6, <1>7, <1>8, <1>9, <1>10, <1>11, <1>12, <1>13, <1>14,
     <1>15, <1>16, <1>17, <1>18, <1>19, <1>20, <1>21, <1>22, <1>23, <1>24, <1>25, <1>26, <1>27,
     <1>28, <1>29, <1>30, <1>31, <1>32, <1>33, <1>34, <1>35, <1>36 DEF SourceMoves, SourceInside

(* Only the thread that has the source changes its fields, but for the       *)
(* data.                                                                     *)
LEMMA FieldsMove ==
  ASSUME SourceTypes, NEW t \in Actors, Course(t), SourceMoves(t), ~InHand(t)
  PROVE  /\ UNCHANGED <<installed, rearm, dkev, eventH, cancelH>>
         /\ data => data'
<1> USE DEF SourceTypes, Course, InHand, SourceLabels, Activation, Arming, Unregistering, Waking,
    Draining, WaitOrActivate, Activators, Referring, word, fields, callouts, kernel, locals,
    history
<1>1. CASE wakeup(t)
  BY <1>1 DEF wakeup, See, Go
<1>2. CASE class_wakeup(t)
  BY <1>2 DEF class_wakeup, HasWork, Acknowledges, Consumes, Flushes, Return, Done, Go, See,
     ShouldWakeup, Runnable
<1>3. CASE tryarm(t)
  BY <1>3 DEF tryarm, MayArm, ArmFailed, Call, Go
<1>4. CASE kevent_resume(t)
  BY <1>4 DEF kevent_resume, Armed, Call, Go
<1>5. CASE kevent_register_fails(t)
  BY <1>5 DEF kevent_register_fails, ArmFailed, Call, Go
<1>6. CASE unregister(t)
  BY <1>6 DEF unregister, See, Go
<1>7. CASE unregister_kernel(t)
  BY <1>7 DEF unregister_kernel, Dropped, ImmediateDelete, Go
<1>8. CASE unregister_deferred(t)
  BY <1>8 DEF unregister_deferred, Call, Go, See
<1>9. CASE unregister_deleted(t)
  BY <1>9 DEF unregister_deleted, See, Go
<1>10. CASE unregister_done(t)
  BY <1>10 DEF unregister_done, See, Wakes
<1>11. CASE t \in Workers /\ Pop(t)
  BY <1>11 DEF Pop, Begin, Go
<1>12. CASE drain_try_lock(t)
  BY <1>12 DEF drain_try_lock, Runnable, Invoke, Go, Call
<1>13. CASE invoke2_flags(t)
  BY <1>13 DEF invoke2_flags, Acknowledges, Delivers, Canceling, Rearming, MustEnd, Call, Go
<1>14. CASE latch_and_call(t)
  BY <1>14 DEF latch_and_call, Go
<1>15. CASE HandlerReturns(t)
  BY <1>15 DEF HandlerReturns, Go
<1>16. CASE invoke_latched(t)
  BY <1>16 DEF invoke_latched, Canceling, Rearming, MustEnd, Call, Go
<1>17. CASE invoke_unregistered(t)
  BY <1>17 DEF invoke_unregistered, Call, Go
<1>18. CASE cancel_callout(t)
  BY <1>18 DEF cancel_callout, CancelCallout, Rearming, Call, Go
<1>19. CASE drain_try_unlock(t)
  BY <1>19 DEF drain_try_unlock, Invoke, Call, Go
<1>20. CASE drain_requeue(t)
  BY <1>20 DEF drain_requeue, Done, Go, See
<1>21. CASE drain_drop(t)
  BY <1>21 DEF drain_drop, Done, Go, See
<1>22. CASE t \in Managers /\ merge_kevent(t)
  BY <1>22 DEF merge_kevent, MergedFlags, Call, Go
<1>23. CASE merge_data(t)
  BY <1>23 DEF merge_data, Call, Go
<1>24. CASE finalize_activation(t)
  BY <1>24 DEF finalize_activation, Call, Go
<1>25. CASE activate_resume(t)
  BY <1>25 DEF activate_resume, Go
<1>26. CASE transfer_or_wakeup(t)
  BY <1>26 DEF transfer_or_wakeup, Return, Done, See, Go
<1>27. CASE wait_lock(t)
  BY <1>27 DEF wait_lock, Runnable, Call, Go, WaitDirties
<1>28. CASE wait_activate(t)
  BY <1>28 DEF wait_activate, Go
<1>29. CASE wait_unregistered(t)
  BY <1>29 DEF wait_unregistered, Go, CancelCallout
<1>30. CASE wait_await(t)
  BY <1>30 DEF wait_await, Done, See, Go
<1>31. CASE wait_sleep(t)
  BY <1>31 DEF wait_sleep, Go, See
<1>32. CASE xref_release(t)
  BY <1>32 DEF xref_release, Done, See, Go
<1>33. CASE dispatch_source_cancel(t)
  BY <1>33 DEF dispatch_source_cancel, Begin, Go
<1>34. CASE t \in callers /\ dispatch_activate(t)
  BY <1>34 DEF dispatch_activate, Begin, Go
<1>35. CASE t \in callers /\ dispatch_source_cancel_and_wait(t)
  BY <1>35 DEF dispatch_source_cancel_and_wait, MayWait, Call, Go
<1>36. CASE t \in callers /\ dispatch_release(t)
  BY SMTT(60), <1>36 DEF dispatch_release, Begin, Go
<1> QED
  BY <1>1, <1>2, <1>3, <1>4, <1>5, <1>6, <1>7, <1>8, <1>9, <1>10, <1>11, <1>12, <1>13, <1>14,
     <1>15, <1>16, <1>17, <1>18, <1>19, <1>20, <1>21, <1>22, <1>23, <1>24, <1>25, <1>26, <1>27,
     <1>28, <1>29, <1>30, <1>31, <1>32, <1>33, <1>34, <1>35, <1>36 DEF SourceMoves, SourceInside

(* Who gives the source something to do sets out to look at it.              *)
LEMMA TellMoves ==
  ASSUME SourceTypes, NEW t \in Actors, Course(t), Waiting, KnoteFits, SourceMoves(t), ~MayVanish,
         ~InHand(t)
  PROVE  /\ owner # Nobody => (dirty => dirty')
         /\ Undelivered' => Undelivered \/ Flusher(t)'
         /\ MustEnd(flags)' => MustEnd(flags) \/ Flusher(t)' \/ "deleted" \in flags
         /\ IsOwed' => IsOwed \/ Flusher(t)'
         /\ Flusher(t) /\ IsOwed' /\ owner # Nobody => Flusher(t)' \/ dirty'
         /\ OnTheWay(t) /\ IsOwed' /\ ShouldWakeup => OnTheWay(t)' \/ enqueued' \/ owner' # Nobody
<1>a. "deferred" \in flags => flags \cap Over # {}
  BY DEF KnoteFits, IsOver
<1>b. Nobody \notin Actors
  BY SourceAssumption DEF Actors
<1> USE DEF SourceTypes, Course, Waiting, InHand, Undelivered, MustEnd, IsOwed, IsOver, Flusher,
    OnTheWay, ShouldWakeup, Runnable, Flushes, Acknowledges, HasWork, SourceBits, State, Over,
    SourceLabels, Activation, Arming, Unregistering, Waking, Draining, WaitOrActivate, Activators,
    Referring, word, fields, callouts, kernel, locals, history
<1>1. CASE wakeup(t)
  BY <1>1, <1>a, <1>b DEF wakeup, See, Go
<1>2. CASE class_wakeup(t)
  BY <1>2, <1>a, <1>b DEF class_wakeup, HasWork, Acknowledges, Consumes, Flushes, Return, Done,
     Go, See, ShouldWakeup, Runnable
<1>3. CASE tryarm(t)
  BY <1>3, <1>a, <1>b DEF tryarm, MayArm, ArmFailed, Call, Go
<1>4. CASE kevent_resume(t)
  BY <1>4, <1>a, <1>b DEF kevent_resume, Armed, Call, Go
<1>5. CASE kevent_register_fails(t)
  BY <1>5, <1>a, <1>b DEF kevent_register_fails, ArmFailed, Call, Go
<1>6. CASE unregister(t)
  BY <1>6, <1>a, <1>b DEF unregister, See, Go
<1>7. CASE unregister_kernel(t)
  BY <1>7, <1>a, <1>b DEF unregister_kernel, Dropped, ImmediateDelete, Go
<1>8. CASE unregister_deferred(t)
  BY <1>8, <1>a, <1>b DEF unregister_deferred, Call, Go, See
<1>9. CASE unregister_deleted(t)
  BY <1>9, <1>a, <1>b DEF unregister_deleted, See, Go
<1>10. CASE unregister_done(t)
  BY <1>10, <1>a, <1>b DEF unregister_done, See, Wakes
<1>11. CASE t \in Workers /\ Pop(t)
  BY <1>11, <1>a, <1>b DEF Pop, Begin, Go
<1>12. CASE drain_try_lock(t)
  BY <1>12, <1>a, <1>b DEF drain_try_lock, Runnable, Invoke, Go, Call
<1>13. CASE invoke2_flags(t)
  BY <1>13, <1>a, <1>b DEF invoke2_flags, Acknowledges, Delivers, Canceling, Rearming, MustEnd,
     Call, Go
<1>14. CASE latch_and_call(t)
  BY <1>14, <1>a, <1>b DEF latch_and_call, Go
<1>15. CASE HandlerReturns(t)
  BY <1>15, <1>a, <1>b DEF HandlerReturns, Go
<1>16. CASE invoke_latched(t)
  BY <1>16, <1>a, <1>b DEF invoke_latched, Canceling, Rearming, MustEnd, Call, Go
<1>17. CASE invoke_unregistered(t)
  BY <1>17, <1>a, <1>b DEF invoke_unregistered, Call, Go
<1>18. CASE cancel_callout(t)
  BY <1>18, <1>a, <1>b DEF cancel_callout, CancelCallout, Rearming, Call, Go
<1>19. CASE drain_try_unlock(t)
  BY <1>19, <1>a, <1>b DEF drain_try_unlock, Invoke, Call, Go
<1>20. CASE drain_requeue(t)
  BY <1>20, <1>a, <1>b DEF drain_requeue, Done, Go, See
<1>21. CASE drain_drop(t)
  BY <1>21, <1>a, <1>b DEF drain_drop, Done, Go, See
<1>22. CASE t \in Managers /\ merge_kevent(t)
  BY <1>22, <1>a, <1>b DEF merge_kevent, MergedFlags, Call, Go
<1>23. CASE merge_data(t)
  BY <1>23, <1>a, <1>b DEF merge_data, Call, Go
<1>24. CASE finalize_activation(t)
  BY <1>24, <1>a, <1>b DEF finalize_activation, Call, Go
<1>25. CASE activate_resume(t)
  BY <1>25, <1>a, <1>b DEF activate_resume, Go
<1>26. CASE transfer_or_wakeup(t)
  BY <1>26, <1>a, <1>b DEF transfer_or_wakeup, Return, Done, See, Go
<1>27. CASE wait_lock(t)
  BY <1>27, <1>a, <1>b DEF wait_lock, Runnable, Call, Go, WaitDirties
<1>28. CASE wait_activate(t)
  BY <1>28, <1>a, <1>b DEF wait_activate, Go
<1>29. CASE wait_unregistered(t)
  BY <1>29, <1>a, <1>b DEF wait_unregistered, Go, CancelCallout
<1>30. CASE wait_await(t)
  BY <1>30, <1>a, <1>b DEF wait_await, Done, See, Go
<1>31. CASE wait_sleep(t)
  BY <1>31, <1>a, <1>b DEF wait_sleep, Go, See
<1>32. CASE xref_release(t)
  BY SMTT(60), <1>32, <1>a, <1>b DEF xref_release, Done, See, Go
<1>33. CASE dispatch_source_cancel(t)
  BY <1>33, <1>a, <1>b DEF dispatch_source_cancel, Begin, Go
<1>34. CASE t \in callers /\ dispatch_activate(t)
  BY SMTT(60), <1>34, <1>a, <1>b DEF dispatch_activate, Begin, Go
<1>35. CASE t \in callers /\ dispatch_source_cancel_and_wait(t)
  <2>0. /\ at[t] = "idle" /\ cancelH = "none"
        /\ UNCHANGED <<word, fields, callouts, seen>> /\ at'[t] \in {"idle", "await", "lock"}
    BY <1>35 DEF dispatch_source_cancel_and_wait, MayWait, Call, Go
  <2>1. CASE "canceled" \in flags \/ "waiter" \in flags
    <3>1. \A b \in State \cup Over : b \in flags' <=> b \in flags
      BY <1>35, <2>1 DEF dispatch_source_cancel_and_wait
    <3> QED
      BY <2>0, <3>1
  <2>2. CASE "canceled" \notin flags /\ "waiter" \notin flags /\ "deferred" \in flags
    <3>1. flags' = flags \cup {"canceled", "waiter"}
      BY SMTT(60), <1>35, <2>2 DEF dispatch_source_cancel_and_wait
    <3> QED
      BY SMTT(60), <1>a, <2>0, <2>2, <3>1
  <2>3. CASE "canceled" \notin flags /\ "waiter" \notin flags /\ "deferred" \notin flags
    <3>1. flags' = flags \cup {"canceled"}
      BY <1>35, <2>3 DEF dispatch_source_cancel_and_wait
    <3>2. CASE IsDeleted(flags)
      BY <2>0, <2>3, <3>1, <3>2 DEF IsDeleted
    <3>3. CASE ~IsDeleted(flags)
      <4>1. at'[t] = "lock" /\ ret'[t] = "first"
        BY SMTT(60), <1>35, <2>3, <3>1, <3>3 DEF dispatch_source_cancel_and_wait, Call, Go
      <4> QED
        BY <2>0, <4>1
    <3> QED
      BY <3>2, <3>3
  <2> QED
    BY <2>1, <2>2, <2>3
<1>36. CASE t \in callers /\ dispatch_release(t)
  BY SMTT(60), <1>36, <1>a, <1>b DEF dispatch_release, Begin, Go
<1> QED
  BY <1>1, <1>2, <1>3, <1>4, <1>5, <1>6, <1>7, <1>8, <1>9, <1>10, <1>11, <1>12, <1>13, <1>14,
     <1>15, <1>16, <1>17, <1>18, <1>19, <1>20, <1>21, <1>22, <1>23, <1>24, <1>25, <1>26, <1>27,
     <1>28, <1>29, <1>30, <1>31, <1>32, <1>33, <1>34, <1>35, <1>36 DEF SourceMoves, SourceInside

(* What a drainer overlooks was there when it last looked, or came since.    *)
LEMMA OverlooksStep ==
  ASSUME SourceTypes, \A u \in Actors : Course(u), DrainLocked, CallsFit, KnoteFits, Waiting,
         NEW t \in Actors, Stage(t), SourceMoves(t), ~MayVanish, Overlooks(t)'
  PROVE  /\ Overlooks(t)
         /\ UNCHANGED <<owner, dirty, installed, data, rearm, eventH, cancelH>>
<1>a. /\ "deferred" \in flags => IsOver /\ rearm
      /\ "deleted" \in flags => "armed" \notin flags
      /\ "deleted" \in flags /\ "deferred" \notin flags /\ at[t] = "callout" => ~rearm
  <2>1. at[t] = "callout" => /\ ~Somebody("unreg") /\ ~Somebody("deferred")
                            /\ ~Somebody("deleted") /\ ~Somebody("wake")
    BY SoleHolder DEF Somebody, InHand, Draining, Activation, Unregistering
  <2> QED
    BY <2>1 DEF KnoteFits
<1>b. Course(t)
  OBVIOUS
<1>c. doing[t] = "invoke" /\ at[t] \in Waking => "canceled" \in flags
  BY DEF Waiting
<1> USE DEF SourceTypes, Course, Stage, InHand, Undelivered, MustEnd, IsOwed, IsOver, Overlooks,
    Acknowledges, SourceBits, State, Over, SourceLabels, Activation, Arming, Unregistering,
    Waking, Draining, WaitOrActivate, Activators, Referring, word, fields, callouts, kernel,
    locals, history
<1>1. CASE wakeup(t)
  BY <1>1, <1>a, <1>b, <1>c DEF wakeup, See, Go
<1>2. CASE class_wakeup(t)
  <2>1. at[t] = "class_wakeup" /\ (at'[t] = "latched" => doing[t] = "invoke")
        /\ at'[t] \notin {"handler", "unlock"} \cup Arming /\ flags' = flags
    BY <1>2 DEF class_wakeup, Return, Done, Go
  <2>2. at'[t] = "latched" => flags \cap Over # {}
    BY <1>c, <2>1
  <2> QED
    BY <2>1, <2>2
<1>3. CASE tryarm(t)
  <2>1. /\ at[t] = "arm" /\ at'[t] \in {"kevent", "unreg"} 
        /\ at'[t] = "kevent" => ret'[t] = ret[t]
        /\ UNCHANGED <<owner, dirty, data, rearm, eventH, cancelH, wish>>
        /\ installed' /\ flags' \in {flags, flags \cup {"armed"}}
    BY <1>3 DEF tryarm, MayArm, ArmFailed, Call, Go
  <2>2. ret[t] # "rearm" <=> ~installed
    BY <2>1
  <2>3. /\ flags' \cap Over = flags \cap Over
        /\ "deferred" \in flags' <=> "deferred" \in flags
    BY <2>1
  <2> QED
    BY <2>1, <2>2, <2>3
<1>4. CASE kevent_resume(t)
  BY <1>4, <1>a, <1>b, <1>c DEF kevent_resume, Armed, Call, Go
<1>5. CASE kevent_register_fails(t)
  BY <1>5, <1>a, <1>b, <1>c DEF kevent_register_fails, ArmFailed, Call, Go
<1>6. CASE unregister(t)
  <2>1. at'[t] \in {"deleted", "kdelete"}
    BY ZenonT(60), <1>6 DEF unregister, See, Go
  <2> QED
    BY <2>1
<1>7. CASE unregister_kernel(t)
  <2>1. at'[t] \in {"deleted", "deferred"}
    BY ZenonT(60), <1>7 DEF unregister_kernel, Dropped, ImmediateDelete, Go
  <2> QED
    BY <2>1
<1>8. CASE unregister_deferred(t)
  BY <1>8, <1>a, <1>b, <1>c DEF unregister_deferred, Call, Go, See
<1>9. CASE unregister_deleted(t)
  BY <1>9, <1>a, <1>b, <1>c DEF unregister_deleted, See, Go
<1>10. CASE unregister_done(t)
  BY <1>10, <1>a, <1>b, <1>c DEF unregister_done, See, Wakes
<1>11. CASE t \in Workers /\ Pop(t)
  BY <1>11, <1>a, <1>b, <1>c DEF Pop, Begin, Go
<1>12. CASE drain_try_lock(t)
  BY <1>12, <1>a, <1>b, <1>c DEF drain_try_lock, Runnable, Invoke, Go, Call
<1>13. CASE invoke2_flags(t)
  BY <1>13, <1>a, <1>b, <1>c DEF invoke2_flags, Acknowledges, Delivers, Canceling, Rearming,
     MustEnd, Call, Go
<1>14. CASE latch_and_call(t)
  BY <1>14, <1>a, <1>b, <1>c DEF latch_and_call, Go
<1>15. CASE HandlerReturns(t)
  BY <1>15, <1>a, <1>b, <1>c DEF HandlerReturns, Go
<1>16. CASE invoke_latched(t)
  BY <1>16, <1>a, <1>b, <1>c DEF invoke_latched, Canceling, Rearming, MustEnd, Call, Go
<1>17. CASE invoke_unregistered(t)
  BY <1>17, <1>a, <1>b, <1>c DEF invoke_unregistered, Call, Go
<1>18. CASE cancel_callout(t)
  BY <1>18, <1>a, <1>b, <1>c DEF cancel_callout, CancelCallout, Rearming, Call, Go
<1>19. CASE drain_try_unlock(t)
  BY <1>19, <1>a, <1>b, <1>c DEF drain_try_unlock, Invoke, Call, Go
<1>20. CASE drain_requeue(t)
  BY <1>20, <1>a, <1>b, <1>c DEF drain_requeue, Done, Go, See
<1>21. CASE drain_drop(t)
  BY <1>21, <1>a, <1>b, <1>c DEF drain_drop, Done, Go, See
<1>22. CASE t \in Managers /\ merge_kevent(t)
  BY <1>22, <1>a, <1>b, <1>c DEF merge_kevent, MergedFlags, Call, Go
<1>23. CASE merge_data(t)
  BY <1>23, <1>a, <1>b, <1>c DEF merge_data, Call, Go
<1>24. CASE finalize_activation(t)
  BY <1>24, <1>a, <1>b, <1>c DEF finalize_activation, Call, Go
<1>25. CASE activate_resume(t)
  BY <1>25, <1>a, <1>b, <1>c DEF activate_resume, Go
<1>26. CASE transfer_or_wakeup(t)
  BY <1>26, <1>a, <1>b, <1>c DEF transfer_or_wakeup, Return, Done, See, Go
<1>27. CASE wait_lock(t)
  BY <1>27, <1>a, <1>b, <1>c DEF wait_lock, Runnable, Call, Go, WaitDirties
<1>28. CASE wait_activate(t)
  BY <1>28, <1>a, <1>b, <1>c DEF wait_activate, Go
<1>29. CASE wait_unregistered(t)
  BY <1>29, <1>a, <1>b, <1>c DEF wait_unregistered, Go, CancelCallout
<1>30. CASE wait_await(t)
  BY <1>30, <1>a, <1>b, <1>c DEF wait_await, Done, See, Go
<1>31. CASE wait_sleep(t)
  BY <1>31, <1>a, <1>b, <1>c DEF wait_sleep, Go, See
<1>32. CASE xref_release(t)
  BY <1>32, <1>a, <1>b, <1>c DEF xref_release, Done, See, Go
<1>33. CASE dispatch_source_cancel(t)
  BY <1>33, <1>a, <1>b, <1>c DEF dispatch_source_cancel, Begin, Go
<1>34. CASE t \in callers /\ dispatch_activate(t)
  BY <1>34, <1>a, <1>b, <1>c DEF dispatch_activate, Begin, Go
<1>35. CASE t \in callers /\ dispatch_source_cancel_and_wait(t)
  BY <1>35, <1>a, <1>b, <1>c DEF dispatch_source_cancel_and_wait, MayWait, Call, Go
<1>36. CASE t \in callers /\ dispatch_release(t)
  BY <1>36, <1>a, <1>b, <1>c DEF dispatch_release, Begin, Go
<1> QED
  BY <1>1, <1>2, <1>3, <1>4, <1>5, <1>6, <1>7, <1>8, <1>9, <1>10, <1>11, <1>12, <1>13, <1>14,
     <1>15, <1>16, <1>17, <1>18, <1>19, <1>20, <1>21, <1>22, <1>23, <1>24, <1>25, <1>26, <1>27,
     <1>28, <1>29, <1>30, <1>31, <1>32, <1>33, <1>34, <1>35, <1>36 DEF SourceMoves, SourceInside

(* A source that comes free is looked at, or its drainer was told.           *)
LEMMA WatchMoves ==
  ASSUME SourceTypes, NEW t \in Actors, Course(t), DrainLocked,
         SourceMoves(t), ~MayVanish, Runnable', ~enqueued'
  PROVE  \/ ShouldWakeup
         \/ OnTheWay(t)'
         \/ /\ at[t] = "unlock" /\ ~dirty
            /\ UNCHANGED <<flags, installed, data, rearm, eventH, cancelH>>
<1>a. Nobody \notin Actors /\ (owner # Nobody => phase = "active")
  BY SourceAssumption DEF Actors, DrainLocked
<1>b. HasSource(t) => owner = t
  BY DEF DrainLocked
<1> USE DEF SourceTypes, Course, OnTheWay, ShouldWakeup, Runnable, SourceLabels, Activation,
    Arming, Unregistering, Waking, Draining, WaitOrActivate, Activators, Referring, word, fields,
    callouts, kernel, locals, history
<1>1. CASE wakeup(t)
  BY <1>1, <1>a, <1>b DEF wakeup, See, Go
<1>2. CASE class_wakeup(t)
  BY <1>2, <1>a, <1>b DEF class_wakeup, HasWork, Acknowledges, Consumes, Flushes, Return, Done,
     Go, See, ShouldWakeup, Runnable
<1>3. CASE tryarm(t)
  BY <1>3, <1>a, <1>b DEF tryarm, MayArm, ArmFailed, Call, Go
<1>4. CASE kevent_resume(t)
  BY <1>4, <1>a, <1>b DEF kevent_resume, Armed, Call, Go
<1>5. CASE kevent_register_fails(t)
  BY <1>5, <1>a, <1>b DEF kevent_register_fails, ArmFailed, Call, Go
<1>6. CASE unregister(t)
  BY <1>6, <1>a, <1>b DEF unregister, See, Go
<1>7. CASE unregister_kernel(t)
  BY <1>7, <1>a, <1>b DEF unregister_kernel, Dropped, ImmediateDelete, Go
<1>8. CASE unregister_deferred(t)
  BY <1>8, <1>a, <1>b DEF unregister_deferred, Call, Go, See
<1>9. CASE unregister_deleted(t)
  BY <1>9, <1>a, <1>b DEF unregister_deleted, See, Go
<1>10. CASE unregister_done(t)
  BY <1>10, <1>a, <1>b DEF unregister_done, See, Wakes
<1>11. CASE t \in Workers /\ Pop(t)
  BY <1>11, <1>a, <1>b DEF Pop, Begin, Go
<1>12. CASE drain_try_lock(t)
  BY <1>12, <1>a, <1>b DEF drain_try_lock, Runnable, Invoke, Go, Call
<1>13. CASE invoke2_flags(t)
  BY <1>13, <1>a, <1>b DEF invoke2_flags, Acknowledges, Delivers, Canceling, Rearming, MustEnd,
     Call, Go
<1>14. CASE latch_and_call(t)
  BY <1>14, <1>a, <1>b DEF latch_and_call, Go
<1>15. CASE HandlerReturns(t)
  BY <1>15, <1>a, <1>b DEF HandlerReturns, Go
<1>16. CASE invoke_latched(t)
  BY <1>16, <1>a, <1>b DEF invoke_latched, Canceling, Rearming, MustEnd, Call, Go
<1>17. CASE invoke_unregistered(t)
  BY <1>17, <1>a, <1>b DEF invoke_unregistered, Call, Go
<1>18. CASE cancel_callout(t)
  BY <1>18, <1>a, <1>b DEF cancel_callout, CancelCallout, Rearming, Call, Go
<1>19. CASE drain_try_unlock(t)
  BY <1>19, <1>a, <1>b DEF drain_try_unlock, Invoke, Call, Go
<1>20. CASE drain_requeue(t)
  BY <1>20, <1>a, <1>b DEF drain_requeue, Done, Go, See
<1>21. CASE drain_drop(t)
  BY <1>21, <1>a, <1>b DEF drain_drop, Done, Go, See
<1>22. CASE t \in Managers /\ merge_kevent(t)
  BY <1>22, <1>a, <1>b DEF merge_kevent, MergedFlags, Call, Go
<1>23. CASE merge_data(t)
  BY <1>23, <1>a, <1>b DEF merge_data, Call, Go
<1>24. CASE finalize_activation(t)
  BY <1>24, <1>a, <1>b DEF finalize_activation, Call, Go
<1>25. CASE activate_resume(t)
  BY <1>25, <1>a, <1>b DEF activate_resume, Go
<1>26. CASE transfer_or_wakeup(t)
  BY <1>26, <1>a, <1>b DEF transfer_or_wakeup, Return, Done, See, Go
<1>27. CASE wait_lock(t)
  BY <1>27, <1>a, <1>b DEF wait_lock, Runnable, Call, Go, WaitDirties
<1>28. CASE wait_activate(t)
  BY <1>28, <1>a, <1>b DEF wait_activate, Go
<1>29. CASE wait_unregistered(t)
  BY <1>29, <1>a, <1>b DEF wait_unregistered, Go, CancelCallout
<1>30. CASE wait_await(t)
  BY <1>30, <1>a, <1>b DEF wait_await, Done, See, Go
<1>31. CASE wait_sleep(t)
  BY <1>31, <1>a, <1>b DEF wait_sleep, Go, See
<1>32. CASE xref_release(t)
  BY <1>32, <1>a, <1>b DEF xref_release, Done, See, Go
<1>33. CASE dispatch_source_cancel(t)
  BY <1>33, <1>a, <1>b DEF dispatch_source_cancel, Begin, Go
<1>34. CASE t \in callers /\ dispatch_activate(t)
  BY <1>34, <1>a, <1>b DEF dispatch_activate, Begin, Go
<1>35. CASE t \in callers /\ dispatch_source_cancel_and_wait(t)
  BY <1>35, <1>a, <1>b DEF dispatch_source_cancel_and_wait, MayWait, Call, Go
<1>36. CASE t \in callers /\ dispatch_release(t)
  BY <1>36, <1>a, <1>b DEF dispatch_release, Begin, Go
<1> QED
  BY <1>1, <1>2, <1>3, <1>4, <1>5, <1>6, <1>7, <1>8, <1>9, <1>10, <1>11, <1>12, <1>13, <1>14,
     <1>15, <1>16, <1>17, <1>18, <1>19, <1>20, <1>21, <1>22, <1>23, <1>24, <1>25, <1>26, <1>27,
     <1>28, <1>29, <1>30, <1>31, <1>32, <1>33, <1>34, <1>35, <1>36 DEF SourceMoves, SourceInside

(* Whoever waits has cancelled, and whoever sleeps will be woken.            *)
LEMMA WaitingStep ==
  ASSUME Waiting, SourceTypes, \A u \in Actors : Course(u), DrainLocked, CallsFit, KnoteFits,
         \A u \in Actors : Stage(u),
         SourceTypes', \A u \in Actors : Course(u)', DrainLocked', CallsFit', KnoteFits',
         \A u \in Actors : Stage(u)', NEW t \in Actors, SourceMoves(t), ~MayVanish
  PROVE  Waiting'
<1>1. /\ "waiter" \in flags' => "canceled" \in flags'
      /\ "canceled" \in flags => "canceled" \in flags'
  BY WaitMoves
<1>2. ASSUME NEW u \in Actors
      PROVE  /\ doing'[u] = "wait" \/ (doing'[u] = "invoke" /\ at'[u] \in Waking)
                  => "canceled" \in flags'
             /\ at'[u] = "sleep" => "waiter" \in seen'[u] /\ ~IsDeleted(seen'[u])
  <2>1. CASE u = t
    BY <2>1, WaitMoves
  <2>2. CASE u # t
    BY <1>1, <2>2, SourceFrame DEF Waiting, Waking
  <2> QED
    BY <2>1, <2>2
<1>3. Somebody("deleted") <=> \E v \in Actors : at[v] = "deleted"
  BY DEF Somebody
<1>4. at'[t] = "deleted" => Somebody("deleted")'
  BY DEF Somebody
<1>5. at[t] # "deleted" /\ Somebody("deleted") => Somebody("deleted")'
  BY SourceFrame DEF Somebody
<1>6. ASSUME NEW u \in Actors, at'[u] = "asleep"
      PROVE  \/ "waiter" \in flags' /\ (dkev' \/ Somebody("deleted")')
             \/ \E v \in Actors : at'[v] = "wake" /\ "waiter" \in seen'[v]
  <2>1. CASE u = t
    <3>1. "waiter" \in flags /\ ~IsDeleted(flags) /\ UNCHANGED <<flags, dkev>> /\ at[t] = "sleep"
      BY <1>6, <2>1, WaitMoves DEF Waiting
    <3>2. dkev \/ Somebody("deleted")
      <4>1. flags \subseteq SourceBits
        BY DEF SourceTypes
      <4> QED
        BY <3>1, <4>1 DEF KnoteFits, IsDeleted, State, SourceBits
    <3> QED
      BY <1>5, <3>1, <3>2
  <2>2. CASE u # t
    <3>1. at[u] = "asleep"
      BY <1>6, <2>2, SourceFrame
    <3>2. CASE "waiter" \in flags /\ (dkev \/ Somebody("deleted"))
      <4>1. CASE at[t] = "deleted"
        BY <3>2, <4>1, WaitMoves
      <4>2. CASE at[t] # "deleted"
        BY <1>4, <1>5, <3>2, <4>2, WaitMoves
      <4> QED
        BY <4>1, <4>2
    <3>3. ASSUME NEW v \in Actors, at[v] = "wake", "waiter" \in seen[v]
          PROVE  at'[v] = "wake" /\ "waiter" \in seen'[v]
      <4>1. CASE v = t
        BY <1>6, <3>3, <4>1, WaitMoves
      <4>2. CASE v # t
        BY <3>3, <4>2, SourceFrame
      <4> QED
        BY <4>1, <4>2
    <3> QED
      BY <3>1, <3>2, <3>3 DEF Waiting
  <2> QED
    BY <2>1, <2>2
<1> QED
  BY <1>1, <1>2, <1>6 DEF Waiting

(* What a wakeup read keeps calling for work until a drainer takes it.       *)
LEMMA WorkStays ==
  ASSUME UNCHANGED <<installed, rearm, eventH, cancelH>>, data => data', NEW f, HasWork(f)
  PROVE  HasWork(f)'
BY DEF HasWork

(* The others are still on their way.                                        *)
LEMMA LookersStay ==
  ASSUME SourceTypes, NEW t \in Actors, SourceMoves(t), NEW u \in Actors, u # t,
         UNCHANGED <<installed, rearm, eventH, cancelH>>, data => data'
  PROVE  /\ Flusher(u) => Flusher(u)'
         /\ OnTheWay(u) => OnTheWay(u)'
<1>1. /\ at[u] \in {"data", "wakeup", "class_wakeup", "lock"} => at'[u] = at[u]
      /\ doing'[u] = doing[u] /\ ret'[u] = ret[u] /\ seen'[u] = seen[u]
  BY SourceFrame
<1>2. HasWork(seen[u]) => HasWork(seen[u])'
  BY <1>1, WorkStays DEF HasWork
<1> QED
  BY <1>1, <1>2 DEF Flusher, OnTheWay, Flushes

(* The thread that has the source is known from the state word.              *)
LEMMA HolderKnown ==
  ASSUME SourceTypes, \A t \in Actors : Course(t), DrainLocked, NEW t \in Actors, InHand(t)
  PROVE  owner = t \/ phase = "activating"
BY DEF SourceTypes, Course, DrainLocked, InHand, HasSource, Activates, SourceLabels, Activation,
       Arming, Unregistering, Waking, Draining, WaitOrActivate, Activators, Referring

(* A drainer is told of what it does not look at any more.                   *)
LEMMA DrainerToldStep ==
  ASSUME DrainerTold, Waiting, SourceTypes, \A u \in Actors : Course(u), DrainLocked, CallsFit,
         KnoteFits,
         \A u \in Actors : Stage(u),
         SourceTypes', \A u \in Actors : Course(u)', DrainLocked', CallsFit', KnoteFits',
         \A u \in Actors : Stage(u)', NEW t \in Actors, SourceMoves(t), ~MayVanish
  PROVE  DrainerTold'
<1> SUFFICES ASSUME NEW v \in Actors, Overlooks(v)'
             PROVE  dirty' \/ \E u \in Actors : Flusher(u)'
  BY DEF DrainerTold
<1>1. CASE v = t
  <2>1. Overlooks(t) /\ UNCHANGED <<owner, dirty, installed, data, rearm, eventH, cancelH>>
    BY <1>1, OverlooksStep
  <2>2. ~Flusher(t)
    BY <2>1 DEF Overlooks, Flusher, Arming
  <2>3. dirty \/ \E u \in Actors \ {t} : Flusher(u)
    BY <2>1, <2>2 DEF DrainerTold
  <2>4. \A u \in Actors \ {t} : Flusher(u) => Flusher(u)'
    BY <2>1, LookersStay
  <2> QED
    BY <2>1, <2>3, <2>4
<1>2. CASE v # t
  <2>1. InHand(v)' /\ HasSource(v)'
    <3>1. at'[v] \in Draining \cup Arming
      BY DEF Overlooks, Draining
    <3>2. at'[v] \in Arming => ret'[v] = "rearm" /\ doing'[v] = "invoke"
      BY DEF Overlooks, Course, SourceTypes, Arming, Draining, Activation, Waking, Unregistering,
             WaitOrActivate, Activators, Referring
    <3> QED
      BY <3>1, <3>2 DEF InHand, HasSource, Activation
  <2>2. InHand(v) /\ HasSource(v) /\ owner = v
    BY <1>2, <2>1, SourceOthersStay DEF DrainLocked
  <2>3. at'[v] = at[v] /\ ret'[v] = ret[v] /\ wish'[v] = wish[v]
    BY <1>2, <2>2, PlaceMoves, SourceFrame
  <2>4. ~InHand(t)
    BY <1>2, <2>2, PlaceMoves
  <2>5. owner # Nobody
    BY <2>2, SourceAssumption DEF Actors
  <2>6. /\ UNCHANGED <<installed, rearm, dkev, eventH, cancelH>>
        /\ data => data'
    BY <2>4, FieldsMove
  <2>7. Overlooks(v)' => IsOwed'
    <3>1. at'[v] \in Arming => "deleted" \notin flags'
      <4>1. Stage(v)'
        OBVIOUS
      <4>2. at'[v] \in {"arm", "kevent"} => "deleted" \notin flags'
        BY <4>1 DEF Stage, State
      <4> QED
        BY <4>2 DEF Arming
    <3> QED
      BY <3>1 DEF Overlooks, IsOwed, Undelivered
  <2>8. Overlooks(v) \/ Flusher(t)'
    <3>1. /\ Undelivered' => Undelivered \/ Flusher(t)'
          /\ MustEnd(flags)' => MustEnd(flags) \/ Flusher(t)' \/ "deleted" \in flags
          /\ IsOwed' => IsOwed \/ Flusher(t)'
      BY <2>4, TellMoves
    <3>2. at[v] \in Arming => "deleted" \notin flags
      <4>1. Stage(v)
        OBVIOUS
      <4>2. at[v] \in {"arm", "kevent"} => "deleted" \notin flags
        BY <4>1 DEF Stage, State
      <4> QED
        BY <4>2 DEF Arming
    <3> QED
      BY <2>3, <3>1, <3>2 DEF Overlooks
  <2>9. CASE Overlooks(v) /\ ~Flusher(t)'
    <3>1. dirty => dirty'
      BY <2>4, <2>5, TellMoves
    <3>2. Flusher(t) => dirty'
      BY <2>4, <2>5, <2>7, <2>9, TellMoves
    <3>3. \A u \in Actors \ {t} : Flusher(u) => Flusher(u)'
      BY <2>6, LookersStay
    <3> QED
      BY <2>9, <3>1, <3>2, <3>3 DEF DrainerTold
  <2> QED
    BY <2>8, <2>9
<1> QED
  BY <1>1, <1>2

(* A free source that is owed something is looked at.                        *)
LEMMA SourceWatchedStep ==
  ASSUME SourceWatched, DrainerTold, Waiting, SourceTypes, \A u \in Actors : Course(u),
         DrainLocked, CallsFit, KnoteFits,
         \A u \in Actors : Stage(u),
         SourceTypes', \A u \in Actors : Course(u)', DrainLocked', CallsFit', KnoteFits',
         \A u \in Actors : Stage(u)', NEW t \in Actors, SourceMoves(t), ~MayVanish
  PROVE  SourceWatched'
<1> SUFFICES ASSUME Runnable', ~enqueued', IsOwed' PROVE \E u \in Actors : OnTheWay(u)'
  BY DEF SourceWatched
<1>1. CASE ShouldWakeup
  <2>1. ~InHand(t)
    BY <1>1, HolderKnown, SourceAssumption DEF ShouldWakeup, Runnable, Actors
  <2>2. /\ UNCHANGED <<installed, rearm, dkev, eventH, cancelH>>
        /\ data => data'
    BY <2>1, FieldsMove
  <2>3. /\ IsOwed => \E u \in Actors : OnTheWay(u)
        /\ OnTheWay(t) => OnTheWay(t)'
        /\ IsOwed \/ OnTheWay(t)'
    BY <1>1, <2>1, TellMoves DEF SourceWatched, ShouldWakeup, OnTheWay, Runnable
  <2>4. \A u \in Actors \ {t} : OnTheWay(u) => OnTheWay(u)'
    BY <2>2, LookersStay
  <2> QED
    BY <2>3, <2>4
<1>2. CASE /\ at[t] = "unlock" /\ ~dirty
           /\ UNCHANGED <<flags, installed, data, rearm, eventH, cancelH>>
  <2>1. IsOwed
    BY <1>2 DEF IsOwed, IsOver, Acknowledges, MustEnd, Undelivered
  <2>2. \E u \in Actors : Flusher(u)
    BY <1>2, <2>1 DEF DrainerTold, Overlooks
  <2>3. ~Flusher(t)
    BY <1>2 DEF Flusher
  <2> QED
    BY <1>2, <2>2, <2>3, LookersStay DEF OnTheWay
<1> QED
  BY <1>1, <1>2, WatchMoves

(* The kernel delivers an event.                                             *)
LEMMA DeliveryKeepsRest ==
  ASSUME SourceInv, SourceRestInv, KernelDelivers, ~MayVanish PROVE SourceRestInv'
<1>1. /\ knote = "enabled" /\ knote' = "disabled" /\ posted' = "event"
      /\ UNCHANGED <<flags, word, pushed, fields, callouts, refcnt, at, locals, seen, history>>
  BY DEF KernelDelivers
<1> USE <1>1 DEF word, fields, callouts, locals, history, SourceRestInv, Somebody
<1>2. Waiting'
  BY DEF Waiting
<1>3. KnoteServed'
  BY DEF KnoteServed
<1>4. \A t \in Actors : /\ Flusher(t)' <=> Flusher(t)
                        /\ OnTheWay(t)' <=> OnTheWay(t)
  BY DEF Flusher, OnTheWay, Flushes, HasWork, Acknowledges
<1>5. /\ IsOwed' <=> IsOwed
      /\ \A t \in Actors : Overlooks(t)' <=> Overlooks(t)
  BY DEF Overlooks, IsOwed, IsOver, Acknowledges, MustEnd, Undelivered
<1>6. DrainerTold'
  BY <1>4, <1>5 DEF DrainerTold
<1>7. SourceWatched'
  BY <1>4, <1>5 DEF SourceWatched, Runnable
<1> QED
  BY <1>2, <1>3, <1>6, <1>7

(* A step of a thread, or a call.                                            *)
LEMMA MovesKeepRest ==
  ASSUME SourceInv, SourceRestInv, NEW t \in Actors, SourceMoves(t), ~MayVanish
  PROVE  SourceRestInv'
<1>1. /\ SourceTypes /\ \A u \in Actors : Course(u)
      /\ DrainLocked /\ CallsFit /\ KnoteFits /\ \A u \in Actors : Stage(u)
      /\ Waiting /\ KnoteServed /\ DrainerTold /\ SourceWatched
  BY DEF SourceInv, SourceRestInv
<1>2. /\ SourceTypes' /\ \A u \in Actors : Course(u)'
      /\ DrainLocked' /\ CallsFit' /\ KnoteFits' /\ \A u \in Actors : Stage(u)'
  BY MovesKeep DEF SourceInv
<1>3. Waiting' /\ KnoteServed'
  BY <1>1, <1>2, WaitingStep, KnoteServedStep
<1>4. DrainerTold'
  BY <1>1, <1>2, DrainerToldStep
<1>5. SourceWatched'
  BY <1>1, <1>2, SourceWatchedStep
<1> QED
  BY <1>3, <1>4, <1>5 DEF SourceRestInv

(* Who is to look at a source whose resource stays.                          *)
LEMMA SourceRestInvariant == ASSUME ~MayVanish PROVE SourceSpec => []SourceRestInv
<1>1. ASSUME SourceInit PROVE SourceRestInv
  <2> USE <1>1 DEF SourceInit
  <2>1. Waiting /\ KnoteServed
    BY DEF Waiting, KnoteServed, Waking, Somebody
  <2>2. DrainerTold
    BY DEF DrainerTold, Overlooks, Arming
  <2>3. SourceWatched
    BY DEF SourceWatched, Runnable
  <2> QED
    BY <2>1, <2>2, <2>3 DEF SourceRestInv
<1>2. ASSUME SourceInv, SourceRestInv, [SourceNext]_sourceVars PROVE SourceRestInv'
  <2>1. CASE KernelDelivers
    BY <1>2, <2>1, DeliveryKeepsRest
  <2>2. CASE \E t \in Actors : SourceInside(t) \/ dispatch_source_cancel(t)
    BY <1>2, <2>2, MovesKeepRest DEF SourceMoves
  <2>3. CASE \E c \in callers : \/ dispatch_activate(c) \/ dispatch_source_cancel_and_wait(c)
                               \/ dispatch_release(c)
    <3>1. callers \subseteq Actors
      BY <1>2 DEF SourceInv, SourceTypes, Actors
    <3> QED
      BY <1>2, <2>3, <3>1, MovesKeepRest DEF SourceMoves
  <2>4. CASE UNCHANGED sourceVars
    <3> USE <1>2, <2>4
        DEF sourceVars, word, fields, callouts, kernel, locals, history, SourceRestInv
    <3>1. Waiting' /\ KnoteServed'
      BY DEF Waiting, KnoteServed, Somebody
    <3>2. DrainerTold'
      BY DEF DrainerTold, Overlooks, Undelivered, IsOwed, IsOver, Acknowledges, MustEnd, Flusher,
             Flushes, HasWork
    <3>3. SourceWatched'
      BY DEF SourceWatched, Runnable, Undelivered, IsOwed, IsOver, Acknowledges, MustEnd,
         OnTheWay,
             Flusher, Flushes, HasWork
    <3> QED
      BY <3>1, <3>2, <3>3
  <2> QED
    BY <1>2, <2>1, <2>2, <2>3, <2>4 DEF SourceNext
<1> QED
  BY <1>1, <1>2, SourceInvariant, PTL DEF SourceSpec

(* Nothing is left behind, as long as the monitored resource does not        *)
(* vanish. When nobody is at work the source is unlocked and out of its      *)
(* queue, its data was delivered and it is armed, or it is deleted and has   *)
(* called or dropped its handlers; nobody sleeps in                          *)
(* dispatch_source_cancel_and_wait, and what is left of its references is    *)
(* the client's and that of a source that is not deleted.                    *)
THEOREM SourceNothingLeftBehind == ASSUME ~MayVanish PROVE SourceSpec => []NothingLeftBehind
<1>1. ASSUME SourceInv, SourceRestInv, Quiet PROVE NothingLeftBehind
  <2> USE <1>1 DEF SourceInv, SourceRestInv
  <2>1. /\ phase = "active" /\ ~pushed /\ posted = "none"
        /\ \A t \in Actors : at[t] \in {"idle", "asleep"}
    BY DEF Quiet, SourceAt
  <2>2. \A l : l \notin {"idle", "asleep"} => ~Somebody(l)
    BY <2>1 DEF Somebody
  <2>3. owner = Nobody
    BY <2>1 DEF DrainLocked, HasSource, SourceTypes, Draining, Arming, Unregistering, Waking
  <2>4. ~enqueued
    BY <2>1, <2>2 DEF InQueueOnce
  <2>5. ~IsOwed
    BY <2>1, <2>3, <2>4 DEF SourceWatched, Runnable, OnTheWay, Flusher
  <2>6. IsDeleted(flags) <=> ~dkev
    <3>1. flags \subseteq SourceBits
      BY DEF SourceTypes
    <3>2. ~dkev => "deleted" \in flags /\ "deferred" \notin flags /\ "armed" \notin flags
      BY <2>2 DEF KnoteFits
    <3>3. dkev /\ "deleted" \in flags => "deferred" \in flags
      BY <2>2 DEF KnoteFits
    <3> QED
      BY <3>1, <3>2, <3>3 DEF IsDeleted, State
  <2>7. "armed" \in flags => "deferred" \notin flags /\ "deleted" \notin flags
    BY <2>1, <2>2 DEF KnoteServed, KnoteFits
  <2>8. ASSUME flags \cap Over = {}
        PROVE  ~data /\ (IsDeleted(flags) \/ flags \cap State = {"armed"})
    <3>1. ~data /\ (~rearm \/ "armed" \in flags)
      BY <2>5, <2>8 DEF IsOwed, Undelivered, IsOver
    <3>2. ~rearm => ~dkev
      BY DEF KnoteFits
    <3>3. "armed" \in flags => flags \cap State = {"armed"}
      BY <2>7 DEF State
    <3> QED
      BY <2>6, <3>1, <3>2, <3>3
  <2>9. ASSUME flags \cap Over # {}
        PROVE  IsDeleted(flags) /\ cancelH # "set" /\ ("released" \in flags => ~eventH)
    <3>1. "deferred" \notin flags
      BY <2>5, <2>7 DEF IsOwed, Acknowledges
    <3>2. /\ "deleted" \in flags /\ cancelH # "set"
          /\ "released" \in flags => ~eventH
      BY <2>5, <2>9, <3>1 DEF IsOwed, MustEnd
    <3>3. ~dkev
      BY <2>2, <3>1, <3>2 DEF KnoteFits
    <3> QED
      BY <2>6, <3>2, <3>3
  <2>10. ASSUME NEW t \in Actors, at[t] = "asleep" PROVE FALSE
    <3>1. "waiter" \in flags /\ dkev
      BY <2>1, <2>2, <2>10 DEF Waiting
    <3>2. flags \cap Over # {}
      BY <3>1 DEF Waiting, Over
    <3> QED
      BY <2>6, <2>9, <3>1, <3>2
  <2>11. refcnt = One(clientRef) + One(dkev)
    <3>1. Referrers = {} /\ ~CancelsInHandler
      <4>1. ASSUME NEW t \in Actors PROVE doing[t] \notin Referring /\ at[t] \notin Waking
        <5>1. Course(t) /\ at[t] \in {"idle", "asleep"}
          BY <2>1
        <5> HIDE <1>1
        <5> QED
          BY <5>1 DEF Course, Referring, Waking, Draining, Arming, Unregistering
      <4> QED
        BY <4>1 DEF Referrers, CancelsInHandler
    <3>2. Cardinality({}) = 0
      BY FS_EmptySet
    <3>3. Registered <=> dkev
      BY <2>2 DEF Registered
    <3> QED
      BY <2>1, <3>1, <3>2, <3>3 DEF SourceReferences, One
  <2>12. SourceAt({"asleep"}) = {}
    BY <2>10 DEF SourceAt
  <2>13. refcnt = (IF clientRef THEN 1 ELSE 0) + (IF IsDeleted(flags) THEN 0 ELSE 1)
    BY <2>6, <2>11 DEF One
  <2> QED
    BY <2>3, <2>4, <2>8, <2>9, <2>12, <2>13 DEF NothingLeftBehind
<1>2. SourceInv /\ SourceRestInv => NothingLeftBehind
  BY <1>1 DEF NothingLeftBehind
<1> QED
  BY <1>2, SourceInvariant, SourceRestInvariant, PTL
=============================================================================
