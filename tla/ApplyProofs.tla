---------------------------- MODULE ApplyProofs ----------------------------
(* One call of dispatch_apply never touches its dispatch_apply_s after it is  *)
(* freed and holds the width its callouts need, for every number of           *)
(* processors, iterations, queues and widths.                                *)
EXTENDS Apply, Counting, SequenceTheorems

(* What is fixed: the workers are numbered from the caller, 0, on.            *)
LEMMA Places ==
  /\ ActiveCpus \in Nat /\ ActiveCpus >= 1 /\ Depth \in Nat /\ Root = Depth + 1
  /\ Root \in Nat /\ {MaxIterations, MaxWidth, MaxOther} \subseteq Nat
  /\ Workers = 0 .. ActiveCpus - 1 /\ 0 \in Workers /\ Helpers = Workers \ {0}
  /\ Workers \subseteq Nat /\ IsFiniteSet(Workers) /\ Queues = 1 .. Depth
<1>1. /\ ActiveCpus \in Nat /\ ActiveCpus >= 1 /\ Depth \in Nat
      /\ {MaxIterations, MaxWidth, MaxOther} \subseteq Nat
  BY ApplyAssumption, ApplyWidthAssumption
<1>2. Workers = 0 .. ActiveCpus - 1 /\ 0 \in Workers /\ Helpers = Workers \ {0}
        /\ Workers \subseteq Nat
  BY <1>1 DEF Workers, Helpers
<1>3. IsFiniteSet(Workers)
  <2>1. 0 \in Int /\ ActiveCpus - 1 \in Int
    BY <1>1
  <2>2. IsFiniteSet(0 .. ActiveCpus - 1)
    BY <2>1, FS_Interval
  <2> QED
    BY <1>2, <2>2
<1> QED
  BY <1>1, <1>2, <1>3 DEF Root, Queues

(* The types of the state, in the form the steps use them.                    *)
Typed ==
  /\ pc \in [Workers -> Labels] /\ idx \in [Workers -> Nat] /\ done \in [Workers -> Nat]
  /\ used \in [Queues -> Nat] /\ other \in [Queues -> Nat] /\ dq_width \in [Queues -> Nat]
  /\ dq \in Nat /\ dq >= 1 /\ dq <= Root /\ rq \in Nat /\ rq >= 1 /\ rq <= Root
  /\ tq \in Nat /\ tq >= 1 /\ tq <= Root
  /\ da_width \in Nat /\ excess \in Nat /\ da_event \in Int
  /\ da.iterations \in Nat /\ da.index \in Nat /\ da.todo \in Nat /\ da.thr_cnt \in Nat
  /\ da = [iterations |-> da.iterations, index |-> da.index, todo |-> da.todo,
            thr_cnt |-> da.thr_cnt]

LEMMA TypesRead == TypeOK => Typed
<1> SUFFICES ASSUME TypeOK PROVE Typed
  OBVIOUS
<1>1. pc \in [Workers -> Labels] /\ idx \in [Workers -> Nat] /\ done \in [Workers -> Nat]
  BY Places DEF TypeOK, WorkerTypes
<1>2. used \in [Queues -> Nat] /\ other \in [Queues -> Nat] /\ dq_width \in [Queues -> Nat]
  BY SMTT(60), Places DEF TypeOK, QueueTypes
<1>3. /\ dq \in Nat /\ dq >= 1 /\ dq <= Root /\ rq \in Nat /\ rq >= 1 /\ rq <= Root
      /\ tq \in Nat /\ tq >= 1 /\ tq <= Root
      /\ da_width \in Nat /\ excess \in Nat
  BY Places DEF TypeOK, CallTypes
<1>4. /\ da.iterations \in Nat /\ da.index \in Nat /\ da.todo \in Nat /\ da.thr_cnt \in Nat
      /\ da = [iterations |-> da.iterations, index |-> da.index, todo |-> da.todo,
                thr_cnt |-> da.thr_cnt] /\ da_event \in Int
  BY Places DEF TypeOK, ApplyTypes
<1> QED
  BY <1>1, <1>2, <1>3, <1>4 DEF Typed

LEMMA Starts == Init => ApplyInv
<1> SUFFICES ASSUME Init PROVE ApplyInv
  OBVIOUS
<1>1. TypeOK
  BY Places DEF Init, TypeOK, QueueTypes, ApplyTypes, CallTypes, WorkerTypes, Labels
<1>2. ~Shared
  BY Places DEF Init, Shared, Sharing, HasReturned
<1>3. Alone
  BY Places DEF Init, Alone, HasReturned
<1>4. Width
  <2>1. \A q \in Queues : q < dq /\ ~(q >= dq) /\ used[q] = 0 /\ other[q] = 0
    BY Places DEF Init
  <2> QED
    BY <2>1 DEF Width, ForItself, ForHelpers
<1>5. Route /\ pc[0] \notin {"none", "queued", "gone"}
  BY Places DEF Init, Route, Serially, Sharing
<1> QED
  BY <1>1, <1>2, <1>3, <1>4, <1>5 DEF ApplyInv

-----------------------------------------------------------------------------
(* The caller before it shares anything.                                     *)
Before == {"idle", "sync", "serial", "serialCallout", "reserve", "excess", "advance", "f2"}

LEMMA BeforeAlone ==
  ApplyInv /\ pc[0] \in Before =>
    Alone /\ ~HasReturned /\ Route /\ Width /\ TypeOK /\ Typed
<1>1. ApplyInv /\ pc[0] \in Before => Alone /\ ~HasReturned /\ Route /\ Width /\ TypeOK
  BY DEF ApplyInv, Before, Shared, Sharing, HasReturned
<1> QED
  BY <1>1, TypesRead

(* The choice of thr_cnt, in a call that may share: more than one thread.    *)
LEMMA Counts ==
  ASSUME NEW n \in 1..MaxIterations, NEW m \in Nat
  PROVE  ThreadCount(m, n) \in 1..ActiveCpus
<1>1. \/ ActiveCpus \div m \in Int /\ ActiveCpus \div m >= 1 /\ ActiveCpus \div m <= ActiveCpus
      \/ m = 0
      \/ ~(m < ActiveCpus)
  <2> SUFFICES ASSUME m > 0, m < ActiveCpus
               PROVE  ActiveCpus \div m \in Int /\ ActiveCpus \div m >= 1
                        /\ ActiveCpus \div m <= ActiveCpus
    OBVIOUS
  <2> DEFINE d == ActiveCpus \div m
  <2>1. ActiveCpus = m * d + (ActiveCpus % m) /\ ActiveCpus % m \in 0 .. m - 1 /\ d \in Int
    BY Places
  <2>2. d >= 1
    BY <2>1, Places
  <2> HIDE DEF d
  <2>3. m * d >= d
    <3>1. m * d >= 1 * d
      BY <2>1, <2>2, SMT
    <3> QED
      BY <2>1, <3>1
  <2>5. m * d \in Int /\ ActiveCpus % m >= 0
    BY <2>1
  <2>4. d <= ActiveCpus
    BY <2>1, <2>3, <2>5, Places
  <2> QED
    BY <2>1, <2>2, <2>4 DEF d
<1> QED
  BY <1>1, Places DEF ThreadCount, Min2

LEMMA CallKeeps ==
  ASSUME ApplyInv, NEW n \in 1..MaxIterations, NEW m \in Nestings,
         NEW q \in 1..Root, NEW p \in 1..Root, dispatch_apply_f(n, m, q, p)
  PROVE  ApplyInv'
<1> DEFINE k == ThreadCount(m, n)
<1>1. k \in 1..ActiveCpus
  <2>1. m \in Nat
    BY ApplyAssumption
  <2> QED
    BY <2>1, Counts
<1>2. n \in Nat /\ n > 0 /\ n <= MaxIterations /\ q \in Nat /\ q >= 1 /\ q <= Root
  BY Places
<1>3. pc[0] = "idle" /\ Alone /\ Route /\ Width /\ TypeOK /\ Typed
  BY BeforeAlone DEF Before, dispatch_apply_f
<1>4. /\ da' = [iterations |-> n, index |-> 0, todo |-> n, thr_cnt |-> k]
      /\ func' = Mode(q, p, k)
      /\ pc' = [pc EXCEPT ![0] = IF Mode(q, p, k) = "direct" THEN "f2" ELSE "sync"]
      /\ dq' = q /\ rq' = q
      /\ UNCHANGED <<dq_width, other, used, da_event, frees, tq, da_width, excess, idx, done, ended>>
  BY DEF dispatch_apply_f, Goto, queues
<1>5. /\ Mode(q, p, k) \in {"serial", "redirect", "direct"}
      /\ Mode(q, p, k) = "redirect" => q # Root /\ ~(k <= 1)
      /\ Mode(q, p, k) = "direct" => q = Root
  BY DEF Mode
<1> HIDE DEF k
<1>6. pc'[0] \in {"f2", "sync"} /\ (pc'[0] = "f2" <=> func' = "direct")
       /\ \A w \in Helpers : pc'[w] = pc[w]
  BY <1>3, <1>4, <1>5, Places DEF Typed
<1>7. TypeOK'
  <2>1. QueueTypes'
    BY <1>3, <1>4 DEF TypeOK, QueueTypes
  <2>2. ApplyTypes'
    BY <1>1, <1>2, <1>3, <1>4, Places DEF TypeOK, ApplyTypes
  <2>3. CallTypes'
    BY <1>2, <1>3, <1>4, <1>5 DEF TypeOK, CallTypes
  <2>4. WorkerTypes'
    BY <1>3, <1>4 DEF TypeOK, WorkerTypes, Labels
  <2> QED
    BY <2>1, <2>2, <2>3, <2>4 DEF TypeOK
<1>8. Route'
  BY <1>1, <1>2, <1>4, <1>5, <1>6 DEF Route, Serially, Sharing
<1>9. Alone' /\ ~Shared'
  <2>1. ~HasReturned' /\ ~Shared'
    BY <1>6 DEF HasReturned, Shared, Sharing
  <2>2. ~HasReturned
    BY <1>3 DEF HasReturned
  <2> QED
    BY <1>1, <1>2, <1>3, <1>4, <1>6, <2>1, <2>2 DEF Alone
<1>10. Width'
  <2>1. ASSUME NEW c \in Queues
        PROVE  used'[c] = used[c] /\ other'[c] = other[c] /\ ForItself(c)' = 0 /\ ForHelpers(c)' = 0
                 /\ ForItself(c) = 0 /\ ForHelpers(c) = 0
    <3>1. dq = Root /\ c \in Int /\ c < Root /\ ~(c >= dq)
      BY <1>3, Places DEF Route
    <3>2. pc'[0] = "f2" => ~(c >= dq')
      BY <1>4, <1>5, <1>6, <3>1
    <3>3. ForItself(c) = 0 /\ ForHelpers(c) = 0
      BY <3>1 DEF ForItself, ForHelpers
    <3>4. ForItself(c)' = 0 /\ ForHelpers(c)' = 0
      BY <1>2, <1>4, <1>6, <3>1, <3>2 DEF ForItself, ForHelpers, Sharing
    <3> QED
      BY <1>4, <3>3, <3>4
  <2> QED
    BY <1>3, <2>1 DEF Width
<1> QED
  BY <1>6, <1>7, <1>8, <1>9, <1>10 DEF ApplyInv

LEMMA SyncEnterKeeps == ASSUME ApplyInv, sync_enter PROVE ApplyInv'
<1>1. pc[0] = "sync" /\ Alone /\ Route /\ Width /\ TypeOK /\ Typed
        /\ func \in {"serial", "redirect"}
  <2>1. pc[0] = "sync" /\ Alone /\ Route /\ Width /\ TypeOK /\ Typed
    BY BeforeAlone DEF Before, sync_enter
  <2> QED
    BY <2>1 DEF Route, TypeOK, CallTypes
<1>2. UNCHANGED <<dq_width, other, da, da_event, frees, dq, func, tq, excess, idx, done, ended>>
  BY DEF sync_enter, queues, call
<1>3. CASE rq # Root /\ SyncMayEnter(rq) /\ used' = [used EXCEPT ![rq] = @ + 1]
            /\ rq' = rq + 1 /\ UNCHANGED <<da_width, pc>>
  <2>2. rq \in Queues /\ rq < Root /\ dq <= rq /\ rq \in Nat /\ rq + 1 <= Root
    <3>1. rq \in Nat /\ rq >= 1 /\ rq <= Depth /\ dq <= rq
      BY SMTT(60), <1>1, <1>3, Places DEF Typed, Route
    <3> QED
      BY <3>1, Places
  <2>3. TypeOK'
    <3>1. QueueTypes'
      BY <1>1, <1>2, <1>3, <2>2 DEF TypeOK, QueueTypes, Typed
    <3>2. ApplyTypes' /\ WorkerTypes'
      BY <1>1, <1>2, <1>3 DEF TypeOK, ApplyTypes, WorkerTypes
    <3>3. CallTypes'
      <4>1. rq' \in 1..Root
        BY <1>3, <2>2, Places
      <4> QED
        BY <1>1, <1>2, <1>3, <4>1 DEF TypeOK, CallTypes
    <3> QED
      BY <3>1, <3>2, <3>3 DEF TypeOK
  <2>4. Route'
    <3>1. dq <= rq' /\ dq' = dq /\ pc' = pc /\ pc'[0] = "sync" /\ func' = func
      BY <1>1, <1>2, <1>3, <2>2 DEF Typed
    <3> QED
      BY <1>1, <1>2, <1>3, <3>1 DEF Route, Serially, Sharing
  <2>5. Alone' /\ ~Shared'
    BY <1>1, <1>2, <1>3 DEF Alone, HasReturned, Shared, Sharing
  <2>6. Width'
    <3>1. ASSUME NEW c \in Queues
          PROVE  used'[c] = other'[c] + ForItself(c)' + ForHelpers(c)'
      <4>1. used[c] = other[c] + ForItself(c) + ForHelpers(c) /\ c \in Int
              /\ other[c] \in Int /\ used[c] \in Int
        BY <1>1, Places DEF Width, Typed
      <4>2. ForHelpers(c) = 0 /\ ForHelpers(c)' = 0
        BY <1>1, <1>3 DEF ForHelpers, Sharing
      <4>3. ForItself(c)' = ForItself(c) + (IF c = rq THEN 1 ELSE 0) /\ ForItself(c) \in Int
        BY <1>1, <1>2, <1>3, <2>2, <4>1 DEF ForItself, Typed
      <4>4. used'[c] = used[c] + (IF c = rq THEN 1 ELSE 0) /\ other'[c] = other[c]
        BY <1>1, <1>2, <1>3, <4>1 DEF Typed
      <4> QED
        BY <4>1, <4>2, <4>3, <4>4
    <3> QED
      BY <3>1 DEF Width
  <2> QED
    BY <1>1, <1>3, <2>3, <2>4, <2>5, <2>6 DEF ApplyInv
<1>4. CASE rq = Root /\ rq' = dq /\ da_width' = da.thr_cnt - 1 /\ used' = used
            /\ Goto(0, IF func = "serial" THEN "serial" ELSE "reserve")
  <2>2. /\ pc'[0] = (IF func = "serial" THEN "serial" ELSE "reserve")
        /\ pc' \in [Workers -> Labels]
        /\ \A w \in Helpers : pc'[w] = pc[w]
    BY <1>1, <1>4, Places DEF Goto, Typed, Labels
  <2>1. da.thr_cnt > 0 /\ da.thr_cnt <= ActiveCpus
    BY <1>1, Places DEF Alone, TypeOK, ApplyTypes
  <2>3. TypeOK'
    <3>1. QueueTypes'
      BY <1>1, <1>2, <1>4 DEF TypeOK, QueueTypes
    <3>2. ApplyTypes' /\ WorkerTypes'
      BY <1>1, <1>2, <2>2 DEF TypeOK, ApplyTypes, WorkerTypes
    <3>3. CallTypes'
      <4>1. da_width' \in 0 .. ActiveCpus - 1
        BY SMTT(60), <1>1, <1>4, <2>1, Places DEF Typed
      <4> QED
        BY <1>1, <1>2, <1>4, <4>1 DEF TypeOK, CallTypes
    <3> QED
      BY <3>1, <3>2, <3>3 DEF TypeOK
  <2>4. Route'
    <3>1. dq # Root => dq <= Depth
      BY SMTT(60), <1>1, Places DEF Typed
    <3>2. /\ rq' = dq /\ dq' = dq /\ func' = func /\ tq' = tq /\ da_width' = da.thr_cnt - 1
          /\ da' = da /\ excess' = excess /\ frees' = frees
          /\ pc'[0] \in {"serial", "reserve"}
          /\ pc'[0] = "serial" <=> func = "serial"
      BY <1>1, <1>2, <1>4, <2>2
    <3>3. /\ dq \in Nat /\ dq <= Root /\ Depth \in Nat /\ Root = Depth + 1
          /\ da.thr_cnt \in Nat /\ da.thr_cnt > 0
          /\ func = "redirect" => dq # Root /\ da.thr_cnt > 1
      BY <1>1, <2>1, Places DEF Route, Typed
    <3>4. CASE func = "serial"
      BY <3>2, <3>3, <3>4 DEF Route, Serially, Sharing
    <3>5. CASE func = "redirect"
      BY <3>1, <3>2, <3>3, <3>5 DEF Route, Serially, Sharing
    <3> QED
      BY <1>1, <3>4, <3>5
  <2>5. Alone' /\ ~Shared'
    BY <1>1, <1>2, <2>2, Places DEF Alone, HasReturned, Shared, Sharing
  <2>6. Width'
    <3>1. ASSUME NEW c \in Queues
          PROVE  used'[c] = other'[c] + ForItself(c)' + ForHelpers(c)'
      <4>1. used[c] = other[c] + ForItself(c) + ForHelpers(c) /\ c \in Int
              /\ other[c] \in Int /\ used[c] \in Int /\ c < Root
        BY SMTT(60), <1>1, Places DEF Width, Typed
      <4>2. ForHelpers(c) = 0 /\ ForHelpers(c)' = 0
        BY <1>1, <1>2, <1>4, <2>2, <4>1 DEF ForHelpers, Sharing, Typed
      <4>3. ForItself(c)' = ForItself(c) /\ ForItself(c) \in Int
        BY <1>1, <1>2, <1>4, <2>2, <4>1 DEF ForItself, Typed
      <4> QED
        BY <1>2, <1>4, <4>1, <4>2, <4>3
    <3> QED
      BY <3>1 DEF Width
  <2> QED
    BY <2>2, <2>3, <2>4, <2>5, <2>6 DEF ApplyInv
<1> QED
  BY <1>3, <1>4 DEF sync_enter

LEMMA ApplySerialKeeps == ASSUME ApplyInv, apply_serial PROVE ApplyInv'
<1>1. pc[0] = "serial" /\ Alone /\ Route /\ Width /\ TypeOK /\ Typed
  BY BeforeAlone DEF Before, apply_serial
<1>2. /\ UNCHANGED <<dq_width, other, used, da, da_event, frees, dq, func, rq, tq, da_width,
                     excess, idx, done, ended>>
      /\ pc' = [pc EXCEPT ![0] = "serialCallout"]
  BY DEF apply_serial, queues, call, redirect, Goto
<1>3. pc'[0] = "serialCallout" /\ \A w \in Helpers : pc'[w] = pc[w]
  BY <1>1, <1>2, Places DEF Typed
<1>4. TypeOK'
  <2>1. QueueTypes' /\ ApplyTypes'
    BY <1>1, <1>2 DEF TypeOK, QueueTypes, ApplyTypes
  <2>2. CallTypes'
    BY <1>1, <1>2 DEF TypeOK, CallTypes
  <2>3. WorkerTypes'
    BY <1>1, <1>2 DEF TypeOK, WorkerTypes, Labels
  <2> QED
    BY <2>1, <2>2, <2>3 DEF TypeOK
<1>5. Route'
  BY <1>1, <1>2, <1>3 DEF Route, Serially, Sharing
<1>6. Alone' /\ ~Shared'
  BY <1>1, <1>2, <1>3, Places DEF Alone, HasReturned, Shared, Sharing
<1>7. Width'
  BY <1>1, <1>2, <1>3 DEF Width, ForItself, ForHelpers, Sharing
<1> QED
  BY <1>3, <1>4, <1>5, <1>6, <1>7 DEF ApplyInv

LEMMA SerialCalloutKeeps == ASSUME ApplyInv, serial_callout PROVE ApplyInv'
<1>1. pc[0] = "serialCallout" /\ Alone /\ Route /\ Width /\ TypeOK /\ Typed
  BY BeforeAlone DEF Before, serial_callout
<1>2. /\ UNCHANGED <<dq_width, other, used, da, da_event, dq, func, tq, da_width, excess, done>>
      /\ ended' = ended \cup {idx[0]} /\ idx' = [idx EXCEPT ![0] = @ + 1]
  BY DEF serial_callout, queues, call
<1>3. idx[0] \in Nat /\ idx[0] < da.iterations /\ ended = 0 .. idx[0] - 1 /\ idx'[0] = idx[0] + 1
        /\ (\A w \in Helpers : idx'[w] = idx[w]) /\ frees = 0 /\ ended' = 0 .. idx'[0] - 1
  <2>1. idx[0] \in Nat /\ idx[0] < da.iterations /\ ended = 0 .. idx[0] - 1 /\ idx'[0] = idx[0] + 1
          /\ (\A w \in Helpers : idx'[w] = idx[w]) /\ frees = 0
    BY SMTT(60), <1>1, <1>2, Places DEF Alone, HasReturned, Typed
  <2>2. 0 .. idx[0] - 1 \cup {idx[0]} = 0 .. idx'[0] - 1
    BY <2>1
  <2> QED
    BY <1>2, <2>1, <2>2
<1>4. /\ idx[0] + 1 < da.iterations => pc' = [pc EXCEPT ![0] = "serial"] /\ UNCHANGED <<frees, rq>>
      /\ ~(idx[0] + 1 < da.iterations) =>
            pc' = [pc EXCEPT ![0] = "complete"] /\ frees' = frees + 1 /\ rq' = Root
  BY DEF serial_callout, Goto
<1>5. /\ pc'[0] \in {"serial", "complete"} /\ \A w \in Helpers : pc'[w] = pc[w]
      /\ pc'[0] = "serial" => idx[0] + 1 < da.iterations /\ rq' = rq /\ frees' = 0
      /\ pc'[0] = "complete" => idx[0] + 1 = da.iterations /\ rq' = Root /\ frees' = 1
      /\ pc' \in [Workers -> Labels]
  <2>1. CASE idx[0] + 1 < da.iterations
    <3>1. pc' = [pc EXCEPT ![0] = "serial"] /\ UNCHANGED <<frees, rq>>
      BY <1>4, <2>1
    <3> QED
      BY <1>1, <1>3, <2>1, <3>1, Places DEF Typed, Labels
  <2>2. CASE ~(idx[0] + 1 < da.iterations)
    <3>1. pc' = [pc EXCEPT ![0] = "complete"] /\ frees' = frees + 1 /\ rq' = Root
      BY <1>4, <2>2
    <3>2. idx[0] + 1 = da.iterations
      BY SMTT(60), <1>1, <1>3, <2>2 DEF Typed
    <3> QED
      BY <1>1, <1>3, <3>1, <3>2, Places DEF Typed, Labels
  <2> QED
    BY <2>1, <2>2
<1>6. TypeOK'
  <2>1. QueueTypes'
    BY <1>1, <1>2 DEF TypeOK, QueueTypes
  <2>2. ApplyTypes'
    <3>1. ended' \subseteq 0 .. MaxIterations - 1
      <4>1. da.iterations <= MaxIterations
        BY <1>1, Places DEF TypeOK, ApplyTypes
      <4>2. idx[0] + 1 <= MaxIterations /\ ended' = 0 .. idx[0] /\ MaxIterations \in Int
        BY SMTT(60), <1>1, <1>3, <4>1, Places DEF Typed
      <4> QED
        BY <1>3, <4>2
    <3> QED
      BY <1>1, <1>2, <1>5, <3>1 DEF TypeOK, ApplyTypes
  <2>3. CallTypes'
    BY <1>1, <1>2, <1>5, Places DEF TypeOK, CallTypes
  <2>4. WorkerTypes'
    <3>1. idx' \in [Workers -> Nat]
      BY SMTT(60), <1>1, <1>2, <1>3 DEF Typed
    <3> QED
      BY <1>1, <1>2, <1>5, <3>1 DEF TypeOK, WorkerTypes
  <2> QED
    BY <2>1, <2>2, <2>3, <2>4 DEF TypeOK
<1>7. Route'
  <2>1. dq <= rq'
    BY <1>1, <1>5 DEF Route, Typed
  <2> QED
    BY <1>1, <1>2, <1>5, <2>1 DEF Route, Serially, Sharing
<1>8. ~Shared'
  <2>1. Serially
    BY <1>1 DEF Route, Serially, TypeOK, CallTypes
  <2> QED
    BY <1>2, <1>5, <2>1 DEF Shared, Sharing, Serially
<1>9. Alone'
  BY SMTT(60), <1>1, <1>2, <1>3, <1>5, Places DEF Alone, HasReturned
<1>10. Width'
  <2>1. ASSUME NEW c \in Queues
        PROVE  ForItself(c)' = ForItself(c) /\ ForHelpers(c)' = 0 /\ ForHelpers(c) = 0
    <3>1. c < Root
      BY Places
    <3> QED
      BY <1>1, <1>2, <1>5, <3>1 DEF ForItself, ForHelpers, Sharing
  <2> QED
    BY <1>1, <1>2, <2>1 DEF Width
<1> QED
  BY <1>5, <1>6, <1>7, <1>8, <1>9, <1>10 DEF ApplyInv

LEMMA ReserveKeeps == ASSUME ApplyInv, redirect_reserve PROVE ApplyInv'
<1>1. pc[0] = "reserve" /\ Alone /\ Route /\ Width /\ TypeOK /\ Typed
  BY BeforeAlone DEF Before, redirect_reserve
<1> DEFINE width == Min2(available_width(rq), da_width)
<1>2. /\ UNCHANGED <<dq_width, other, da, da_event, frees, dq, func, rq, da_width, idx, done, ended>>
      /\ used' = [used EXCEPT ![rq] = @ + width] /\ excess' = da_width - width
      /\ da_width > width => pc' = [pc EXCEPT ![0] = "excess"] /\ tq' = dq
      /\ ~(da_width > width) => pc' = [pc EXCEPT ![0] = "advance"] /\ tq' = tq
  BY DEF redirect_reserve, queues, call, Goto
<1>3. rq \in Queues /\ rq <= Depth /\ dq <= rq /\ func = "redirect" /\ da_width > 0
  BY <1>1, Places DEF Route, Typed
<1>4. width \in Nat /\ width <= da_width
  <2>1. used[rq] \in Nat /\ dq_width[rq] \in Nat
    BY <1>1, <1>3 DEF Typed
  <2>2. available_width(rq) \in Nat
    BY <2>1 DEF available_width
  <2> QED
    BY <1>1, <2>2 DEF Typed, Min2
<1> HIDE DEF width
<1>5. /\ pc'[0] \in {"excess", "advance"} /\ \A w \in Helpers : pc'[w] = pc[w]
      /\ pc' \in [Workers -> Labels] /\ tq' \in 1..Root
      /\ pc'[0] = "excess" => tq' = dq /\ excess' >= 1
      /\ pc'[0] = "advance" => excess' = 0
      /\ excess' \in 0 .. da_width
  <2>1. dq \in 1..Root /\ tq \in 1..Root
    BY <1>1 DEF TypeOK, CallTypes
  <2>4. da_width \in Nat /\ excess' = da_width - width
    BY <1>1, <1>2 DEF Typed
  <2>5. excess' \in 0 .. da_width /\ (da_width > width => excess' >= 1)
          /\ (~(da_width > width) => excess' = 0)
    BY <1>4, <2>4
  <2>2. CASE da_width > width
    <3>1. pc' = [pc EXCEPT ![0] = "excess"] /\ tq' = dq
      BY <1>2, <2>2
    <3> QED
      BY <1>1, <2>1, <2>2, <2>5, <3>1, Places DEF Typed, Labels
  <2>3. CASE ~(da_width > width)
    <3>1. pc' = [pc EXCEPT ![0] = "advance"] /\ tq' = tq
      BY <1>2, <2>3
    <3> QED
      BY <1>1, <2>1, <2>3, <2>5, <3>1, Places DEF Typed, Labels
  <2> QED
    BY <2>2, <2>3
<1>6. TypeOK'
  <2>1. QueueTypes'
    <3>1. used' \in [Queues -> Nat]
      BY <1>1, <1>2, <1>3, <1>4 DEF Typed
    <3> QED
      BY <1>1, <1>2, <3>1 DEF TypeOK, QueueTypes
  <2>2. ApplyTypes' /\ WorkerTypes'
    BY <1>1, <1>2, <1>5 DEF TypeOK, ApplyTypes, WorkerTypes
  <2>3. CallTypes'
    <3>1. da_width \in 0 .. ActiveCpus - 1
      BY <1>1 DEF TypeOK, CallTypes
    <3>2. excess' \in 0 .. ActiveCpus - 1
      BY <1>5, <3>1, Places
    <3> QED
      BY <1>1, <1>2, <1>5, <3>2 DEF TypeOK, CallTypes
  <2> QED
    BY <2>1, <2>2, <2>3 DEF TypeOK
<1>7. Route'
  <2>1. dq <= rq' /\ rq' <= Depth
    BY <1>2, <1>3
  <2>2. pc'[0] = "excess" => tq' \in dq'..rq' /\ excess' \in 1..da_width'
    BY <1>1, <1>2, <1>3, <1>5 DEF Typed
  <2> QED
    BY <1>1, <1>2, <1>3, <1>5, <2>1, <2>2 DEF Route, Serially, Sharing
<1>8. Alone' /\ ~Shared'
  <2>1. da.todo = da.iterations /\ da.iterations > 0 /\ da.thr_cnt > 0
    BY <1>1 DEF Alone
  <2> QED
    BY SMTT(60), <1>1, <1>2, <1>5, <2>1, Places DEF Alone, HasReturned, Shared, Sharing
<1>9. Width'
  <2>1. ASSUME NEW c \in Queues
        PROVE  used'[c] = other'[c] + ForItself(c)' + ForHelpers(c)'
    <3>1. used[c] = other[c] + ForItself(c) + ForHelpers(c) /\ c \in Int
            /\ other[c] \in Int /\ used[c] \in Int
      BY <1>1, Places DEF Width, Typed
    <3>2. ForItself(c)' = ForItself(c) /\ ForItself(c) \in Int
      BY <1>1, <1>2, <1>5 DEF ForItself
    <3>3. ForHelpers(c)' = ForHelpers(c) + (IF c = rq THEN width ELSE 0) /\ ForHelpers(c) \in Int
      <4>1. ForHelpers(c) = IF c < dq THEN 0 ELSE IF c < rq THEN da_width ELSE 0
        BY <1>1 DEF ForHelpers
      <4>2. CASE pc'[0] = "excess"
        <5>1. ForHelpers(c)' = IF c < dq THEN 0 ELSE IF c > rq THEN 0
                               ELSE IF c < dq \/ c = rq THEN da_width - excess' ELSE da_width
          BY <1>2, <1>5, <4>2 DEF ForHelpers
        <5> QED
          BY <1>1, <1>2, <1>3, <1>4, <3>1, <4>1, <5>1 DEF Typed
      <4>3. CASE pc'[0] = "advance"
        <5>1. ForHelpers(c)' = IF c < dq THEN 0 ELSE IF c <= rq THEN da_width ELSE 0
          BY <1>2, <1>5, <4>3 DEF ForHelpers
        <5>2. width = da_width
          BY <1>1, <1>2, <1>4, <1>5, <4>3 DEF Typed
        <5> QED
          BY <1>1, <1>3, <3>1, <4>1, <5>1, <5>2 DEF Typed
      <4> QED
        BY <1>5, <4>2, <4>3
    <3>4. used'[c] = used[c] + (IF c = rq THEN width ELSE 0) /\ other'[c] = other[c]
      BY <1>1, <1>2, <1>4, <3>1 DEF Typed
    <3> QED
      BY <1>4, <3>1, <3>2, <3>3, <3>4
  <2> QED
    BY <2>1 DEF Width
<1> QED
  BY <1>5, <1>6, <1>7, <1>8, <1>9 DEF ApplyInv

LEMMA ExcessKeeps == ASSUME ApplyInv, redirect_excess PROVE ApplyInv'
<1>1. pc[0] = "excess" /\ Alone /\ Route /\ Width /\ TypeOK /\ Typed
  BY BeforeAlone DEF Before, redirect_excess
<1>2. UNCHANGED <<dq_width, other, da_event, frees, dq, func, rq, excess, idx, done, ended>>
  BY DEF redirect_excess, queues, call
<1>3. /\ rq \in Queues /\ rq <= Depth /\ dq <= rq /\ func = "redirect" /\ da_width > 0
      /\ dq <= tq /\ tq <= rq /\ excess >= 1 /\ excess <= da_width /\ da.thr_cnt = da_width + 1
      /\ da.todo = da.iterations /\ da.iterations > 0
  BY <1>1, Places DEF Route, Typed, Alone
<1>4. CASE tq # rq /\ used' = [used EXCEPT ![tq] = @ - excess] /\ tq' = tq + 1
            /\ UNCHANGED <<da, da_width, pc>>
  <2>1. tq \in Queues /\ tq < rq /\ tq' \in 1..Root /\ tq' \in dq..rq /\ dq <= tq
    <3>1. tq \in Nat /\ rq \in Nat /\ dq \in Nat /\ tq < rq /\ dq <= tq /\ tq >= 1 /\ rq <= Depth
            /\ tq' = tq + 1
      BY <1>1, <1>3, <1>4 DEF Typed
    <3>2. tq \in Queues
      BY <3>1, Places
    <3> QED
      BY <3>1, <3>2, Places
  <2>2. ASSUME NEW c \in Queues
        PROVE  /\ used[c] = other[c] + ForItself(c) + ForHelpers(c) /\ c \in Int
               /\ other[c] \in Nat /\ used[c] \in Int
               /\ ForItself(c)' = ForItself(c) /\ ForItself(c) \in Nat
               /\ ForHelpers(c)' = ForHelpers(c) - (IF c = tq THEN excess ELSE 0)
               /\ ForHelpers(c)' \in Nat /\ ForHelpers(c) \in Nat
    <3>1. used[c] = other[c] + ForItself(c) + ForHelpers(c) /\ c \in Int
            /\ other[c] \in Nat /\ used[c] \in Int
      BY <1>1, Places DEF Width, Typed
    <3>2. ForItself(c)' = ForItself(c) /\ ForItself(c) \in Nat
      BY <1>1, <1>2, <1>4 DEF ForItself
    <3>3. /\ ForHelpers(c) = IF c < dq THEN 0 ELSE IF c > rq THEN 0
                             ELSE IF c < tq \/ c = rq THEN da_width - excess ELSE da_width
          /\ ForHelpers(c)' = IF c < dq THEN 0 ELSE IF c > rq THEN 0
                              ELSE IF c < tq + 1 \/ c = rq THEN da_width - excess ELSE da_width
      BY <1>1, <1>2, <1>4 DEF ForHelpers
    <3>4. ForHelpers(c)' = ForHelpers(c) - (IF c = tq THEN excess ELSE 0)
               /\ ForHelpers(c)' \in Nat /\ ForHelpers(c) \in Nat
      BY <1>1, <1>3, <1>4, <2>1, <3>1, <3>3 DEF Typed
    <3> QED
      BY <3>1, <3>2, <3>4
  <2>3. ASSUME NEW c \in Queues
        PROVE  used'[c] = other'[c] + ForItself(c)' + ForHelpers(c)' /\ used'[c] \in Nat
    <3>1. used'[c] = IF c = tq THEN used[c] - excess ELSE used[c]
      BY <1>1, <1>4 DEF Typed
    <3>2. excess \in Nat /\ other'[c] = other[c]
      BY <1>1, <1>2 DEF Typed
    <3> QED
      BY <2>2, <3>1, <3>2
  <2>4. TypeOK'
    <3>1. QueueTypes'
      <4>1. used' \in [Queues -> Nat]
        BY <1>1, <1>4, <2>3 DEF Typed
      <4> QED
        BY <1>1, <1>2, <4>1 DEF TypeOK, QueueTypes
    <3>2. ApplyTypes' /\ WorkerTypes'
      BY <1>1, <1>2, <1>4 DEF TypeOK, ApplyTypes, WorkerTypes
    <3>3. CallTypes'
      BY <1>1, <1>2, <1>4, <2>1 DEF TypeOK, CallTypes
    <3> QED
      BY <3>1, <3>2, <3>3 DEF TypeOK
  <2>5. Route'
    BY <1>1, <1>2, <1>4, <2>1 DEF Route, Serially, Sharing
  <2>6. Alone' /\ ~Shared'
    BY <1>1, <1>2, <1>4 DEF Alone, HasReturned, Shared, Sharing
  <2> QED
    BY <1>1, <1>4, <2>3, <2>4, <2>5, <2>6 DEF ApplyInv, Width
<1>5. CASE /\ tq = rq /\ da_width' = da_width - excess /\ UNCHANGED <<used, tq>>
           /\ IF da_width = excess THEN Goto(0, "serial") /\ da' = da
                                   ELSE Goto(0, "advance") /\ Trim(excess)
  <2>1. /\ pc'[0] = (IF da_width = excess THEN "serial" ELSE "advance")
        /\ pc' \in [Workers -> Labels] /\ \A w \in Helpers : pc'[w] = pc[w]
    BY ZenonT(60), <1>1, <1>5, Places DEF Typed, Labels, Goto
  <2>2. /\ da'.iterations = da.iterations /\ da'.todo = da.todo /\ da'.index = da.index
        /\ da'.thr_cnt = (IF da_width = excess THEN da.thr_cnt ELSE da.thr_cnt - excess)
        /\ da' = [iterations |-> da.iterations, index |-> da.index, todo |-> da.todo,
                  thr_cnt |-> da'.thr_cnt]
    BY <1>1, <1>5 DEF Typed, Trim
  <2>3. /\ da_width' \in 0 .. da_width
        /\ pc'[0] = "serial" => da_width' = 0
        /\ pc'[0] = "advance" => da_width' > 0 /\ da'.thr_cnt = da_width' + 1
        /\ da'.thr_cnt \in 1 .. da.thr_cnt
    <3>1. da_width \in Nat /\ excess \in Nat /\ da.thr_cnt \in Nat
      BY <1>1 DEF Typed
    <3> QED
      BY <1>3, <1>5, <2>1, <2>2, <3>1
  <2>4. TypeOK'
    <3>1. QueueTypes'
      BY <1>1, <1>2, <1>5 DEF TypeOK, QueueTypes
    <3>2. ApplyTypes'
      <4>1. da.thr_cnt \in 0..ActiveCpus
        BY <1>1 DEF TypeOK, ApplyTypes
      <4>2. da'.thr_cnt \in 0..ActiveCpus
        BY <2>3, <4>1, Places
      <4> QED
        BY <1>1, <1>2, <2>2, <4>2 DEF TypeOK, ApplyTypes
    <3>3. WorkerTypes'
      BY <1>1, <1>2, <2>1 DEF TypeOK, WorkerTypes
    <3>4. CallTypes'
      <4>1. da_width \in 0 .. ActiveCpus - 1
        BY <1>1 DEF TypeOK, CallTypes
      <4>2. da_width' \in 0 .. ActiveCpus - 1
        BY <2>3, <4>1, Places
      <4> QED
        BY <1>1, <1>2, <1>5, <4>2 DEF TypeOK, CallTypes
    <3> QED
      BY <3>1, <3>2, <3>3, <3>4 DEF TypeOK
  <2>5. Route'
    BY <1>1, <1>2, <1>3, <2>1, <2>3 DEF Route, Serially, Sharing
  <2>6. ~HasReturned' /\ ~Shared' /\ ~HasReturned
    BY <1>1, <2>1 DEF HasReturned, Shared, Sharing
  <2>7. Alone'
    <3>1. da'.thr_cnt > 0
      BY <2>3
    <3> QED
      BY <1>1, <1>2, <2>1, <2>2, <2>6, <3>1, Places DEF Alone
  <2>8. Width'
    <3>1. ASSUME NEW c \in Queues
          PROVE  ForItself(c)' = ForItself(c) /\ ForHelpers(c)' = ForHelpers(c)
      <4>1. ForItself(c)' = ForItself(c)
        BY <1>1, <1>2, <2>1 DEF ForItself
      <4>2. ForHelpers(c) = IF c < dq THEN 0 ELSE IF c > rq THEN 0
                            ELSE IF c < tq \/ c = rq THEN da_width - excess ELSE da_width
        BY <1>1 DEF ForHelpers
      <4>3. ForHelpers(c)' = IF c < dq THEN 0 ELSE IF pc'[0] = "advance"
                             THEN IF c <= rq THEN da_width' ELSE 0 ELSE 0
        BY <1>2, <2>1 DEF ForHelpers, Sharing
      <4>4. c \in Int
        BY Places
      <4> QED
        BY <1>1, <1>3, <1>5, <2>1, <2>3, <4>1, <4>2, <4>3, <4>4 DEF Typed
    <3> QED
      BY <1>1, <1>2, <1>5, <3>1 DEF Width
  <2> QED
    BY <2>1, <2>4, <2>5, <2>6, <2>7, <2>8 DEF ApplyInv
<1> QED
  BY <1>4, <1>5 DEF redirect_excess, ExcessEnd

LEMMA AdvanceKeeps == ASSUME ApplyInv, redirect_advance PROVE ApplyInv'
<1>1. pc[0] = "advance" /\ Alone /\ Route /\ Width /\ TypeOK /\ Typed
  BY BeforeAlone DEF Before, redirect_advance
<1>2. /\ UNCHANGED <<dq_width, other, used, da, da_event, frees, dq, func, tq, da_width, excess,
                     idx, done, ended>>
      /\ rq' = rq + 1 /\ pc' = [pc EXCEPT ![0] = IF rq + 1 = Root THEN "f2" ELSE "reserve"]
  BY DEF redirect_advance, queues, call, Goto
<1>3. /\ rq \in Nat /\ rq >= 1 /\ rq <= Depth /\ dq <= rq /\ func = "redirect" /\ da_width > 0
      /\ da.thr_cnt = da_width + 1 /\ da.todo = da.iterations /\ da.iterations > 0
  BY <1>1 DEF Route, Typed, Alone
<1>4. /\ pc'[0] = (IF rq + 1 = Root THEN "f2" ELSE "reserve") /\ \A w \in Helpers : pc'[w] = pc[w]
      /\ pc' \in [Workers -> Labels]
  BY <1>1, <1>2, Places DEF Typed, Labels
<1>5. rq' \in 1..Root /\ dq <= rq' /\ (rq + 1 # Root => rq' <= Depth)
  <2>1. dq \in Nat /\ rq' = rq + 1
    BY <1>1, <1>2 DEF Typed
  <2>2. Depth \in Nat /\ Root = Depth + 1
    BY Places
  <2> QED
    BY <1>3, <2>1, <2>2
<1>6. TypeOK'
  <2>1. QueueTypes' /\ ApplyTypes'
    BY <1>1, <1>2 DEF TypeOK, QueueTypes, ApplyTypes
  <2>2. CallTypes'
    BY <1>1, <1>2, <1>5 DEF TypeOK, CallTypes
  <2>3. WorkerTypes'
    BY <1>1, <1>2, <1>4 DEF TypeOK, WorkerTypes
  <2> QED
    BY <2>1, <2>2, <2>3 DEF TypeOK
<1>7. Route'
  BY <1>1, <1>2, <1>3, <1>4, <1>5 DEF Route, Serially, Sharing
<1>8. Alone' /\ ~Shared'
  <2>1. ~HasReturned' /\ ~Shared' /\ ~HasReturned
    BY <1>1, <1>4 DEF HasReturned, Shared, Sharing
  <2> QED
    BY <1>1, <1>2, <1>4, <2>1, Places DEF Alone
<1>9. Width'
  <2>1. ASSUME NEW c \in Queues
        PROVE  ForItself(c)' = ForItself(c) /\ ForHelpers(c)' = ForHelpers(c)
    <3>1. ForItself(c)' = ForItself(c)
      BY <1>1, <1>2, <1>4 DEF ForItself
    <3>2. ForHelpers(c) = IF c < dq THEN 0 ELSE IF c <= rq THEN da_width ELSE 0
      BY <1>1 DEF ForHelpers
    <3>3. ForHelpers(c)' = IF c < dq THEN 0 ELSE IF pc'[0] = "reserve"
                             THEN IF c < rq + 1 THEN da_width ELSE 0 ELSE da_width
      BY <1>2, <1>4 DEF ForHelpers, Sharing
    <3>4. c \in Int /\ c <= Depth
      BY Places
    <3> QED
      BY <1>3, <1>4, <3>1, <3>2, <3>3, <3>4, Places
  <2> QED
    BY <1>1, <1>2, <2>1 DEF Width
<1> QED
  BY <1>4, <1>6, <1>7, <1>8, <1>9 DEF ApplyInv

-----------------------------------------------------------------------------
(* The call once it shares.                                                  *)

(* The first n workers are n.                                                *)
LEMMA CountFirst == ASSUME NEW n \in Nat PROVE Cardinality(0 .. n - 1) = n
<1>1. 0 \in Int /\ n - 1 \in Int
  OBVIOUS
<1>2. Cardinality(0 .. n - 1) = IF 0 > n - 1 THEN 0 ELSE (n - 1) - 0 + 1
  BY <1>1, FS_Interval
<1> QED
  BY <1>2

LEMMA ApplyF2Keeps == ASSUME ApplyInv, apply_f2 PROVE ApplyInv'
<1>1. pc[0] = "f2" /\ Alone /\ Route /\ Width /\ TypeOK /\ Typed
  BY BeforeAlone DEF Before, apply_f2
<1>2. /\ UNCHANGED <<dq_width, other, used, da, frees, dq, func, rq, tq, da_width, excess,
                     idx, done, ended>>
      /\ da_event' = 0
      /\ pc' = [w \in Workers |-> IF w = 0 THEN "invoke"
                                  ELSE IF w < da.thr_cnt THEN "queued" ELSE "none"]
  BY DEF apply_f2, queues, call, redirect
<1>3. /\ pc'[0] = "invoke" /\ pc' \in [Workers -> Labels]
      /\ \A w \in Workers : pc'[w] = (IF w = 0 THEN "invoke"
                                      ELSE IF w < da.thr_cnt THEN "queued" ELSE "none")
  BY <1>2, Places DEF Labels
<1>4. /\ da.todo = da.iterations /\ da.iterations > 0 /\ da.thr_cnt > 0 /\ da.index = 0
      /\ frees = 0 /\ ended = {} /\ func \in {"redirect", "direct"}
      /\ \A w \in Workers : done[w] = 0
      /\ func = "redirect" => da_width > 0 /\ da.thr_cnt = da_width + 1
  BY <1>1 DEF Alone, HasReturned, Route, TypeOK, CallTypes
<1>5. TypeOK'
  <2>1. QueueTypes' /\ ApplyTypes'
    BY <1>1, <1>2, <1>4 DEF TypeOK, QueueTypes, ApplyTypes
  <2>2. CallTypes'
    BY <1>1, <1>2 DEF TypeOK, CallTypes
  <2>3. WorkerTypes'
    BY <1>1, <1>2, <1>3 DEF TypeOK, WorkerTypes
  <2> QED
    BY <2>1, <2>2, <2>3 DEF TypeOK
<1>6. Route'
  BY <1>1, <1>2, <1>3, <1>4 DEF Route, Serially, Sharing
<1>7. Width'
  <2>1. ASSUME NEW c \in Queues
        PROVE  ForItself(c)' = ForItself(c) /\ ForHelpers(c)' = ForHelpers(c)
    BY <1>1, <1>2, <1>3 DEF ForItself, ForHelpers, Sharing
  <2> QED
    BY <1>1, <1>2, <2>1 DEF Width
<1>8. Shared'
  BY <1>3 DEF Shared, Sharing
<1>9. Sharings'
  <2>1. Sharers' = 0 .. da.thr_cnt - 1
    <3>1. da.thr_cnt \in Nat /\ da.thr_cnt <= ActiveCpus
      BY <1>1, Places DEF TypeOK, ApplyTypes
    <3>2. Sharers' = {w \in Workers : pc'[w] \in Sharing \cup {"queued"}}
      BY DEF Sharers, Sharing
    <3>3. \A w \in Workers : pc'[w] \in Sharing \cup {"queued"} <=> w < da.thr_cnt
      BY <1>3, <1>4, Places DEF Sharing
    <3>4. Sharers' = {w \in Workers : w < da.thr_cnt}
      BY <3>2, <3>3
    <3> QED
      BY <3>1, <3>4, Places
  <2>2. Cardinality(Sharers') = da.thr_cnt
    BY <1>1, <2>1, CountFirst DEF Typed
  <2>3. \A w \in Helpers : pc'[w] \in {"none", "queued"}
    BY <1>3, Places
  <2>4. func' = "redirect" => \A w \in Workers : pc'[w] # "none" => w <= da_width'
    BY SMTT(60), <1>1, <1>2, <1>3, <1>4, Places DEF Typed
  <2> QED
    BY <1>2, <1>3, <1>4, <2>2, <2>3, <2>4 DEF Sharings, Waiting, Sharing
<1>10. Indices'
  <2>1. \A w \in Workers : pc'[w] \in {"invoke", "queued", "none"}
    BY <1>3
  <2>2. Holders' = {}
    BY <2>1 DEF Holders
  <2>3. Unposted' = {}
    <3>1. \A w \in Workers : pc'[w] \notin {"load", "callout", "next", "todo"}
      BY <2>1
    <3> QED
      BY <3>1 DEF Unposted
  <2>4. Cardinality({}) = 0
    BY FS_EmptySet
  <2>5. ended' = {i \in 0 .. da'.iterations - 1 : i < da'.index} \ {idx'[w] : w \in Holders'}
    <3>1. \A i \in 0 .. da'.iterations - 1 : ~(i < da'.index)
      BY <1>1, <1>2, <1>4 DEF Typed
    <3> QED
      BY <1>2, <1>4, <2>2, <3>1
  <2>6. da'.todo = da'.iterations - Cardinality(ended') + Cardinality(Unposted')
    BY <1>1, <1>2, <1>4, <2>3, <2>4 DEF Typed
  <2> QED
    BY <1>2, <1>4, <2>1, <2>2, <2>5, <2>6 DEF Indices
<1>11. Event'
  BY <1>2, <1>3, <1>4 DEF Event, Signalled, Waiting, HasReturned
<1> QED
  BY <1>3, <1>5, <1>6, <1>7, <1>8, <1>9, <1>10, <1>11 DEF ApplyInv

(* A worker that holds da finds the call shared.                             *)
SharingFacts ==
  /\ Shared /\ Sharings /\ Indices /\ Event /\ Route /\ Width /\ TypeOK /\ Typed
  /\ pc[0] \notin {"none", "queued", "gone"}

LEMMA SharesIt ==
  ASSUME ApplyInv, NEW w \in Workers, pc[w] \in Sharing \cup {"queued"}
  PROVE  SharingFacts
<1>1. Shared
  <2>1. CASE w = 0
    BY <2>1 DEF Shared, ApplyInv
  <2>2. CASE w # 0
    <3>1. w \in Helpers /\ pc[w] # "none"
      BY <2>2, Places DEF Sharing
    <3> QED
      BY <3>1 DEF ApplyInv, Alone
  <2> QED
    BY <2>1, <2>2
<1> QED
  BY <1>1, TypesRead DEF ApplyInv, SharingFacts

(* Steps that leave the way through the queues alone.                        *)
LEMMA RouteStays ==
  ASSUME Route, Width, Shared, UNCHANGED <<used, other, dq, func, rq, tq, da_width, excess>>,
         pc'[0] = pc[0] \/ (pc[0] \in Sharing /\ pc'[0] \in Sharing)
  PROVE  Route' /\ Width' /\ Shared'
<1>1. pc[0] \in Sharing \/ HasReturned
  BY DEF Shared
<1>2. Route'
  BY <1>1 DEF Route, Serially, Sharing, HasReturned
<1>3. Width'
  BY <1>1 DEF Width, ForItself, ForHelpers, Sharing, HasReturned
<1>4. Shared'
  BY <1>1 DEF Shared, Serially, Sharing, HasReturned
<1> QED
  BY <1>2, <1>3, <1>4

(* Steps that leave the threads of the call as many as they are.             *)
LEMMA SharingsStay ==
  ASSUME Sharings, UNCHANGED <<frees, func, da_width>>, da'.thr_cnt = da.thr_cnt,
         \A w \in Workers : /\ pc'[w] \in Sharing \cup {"queued"} <=> pc[w] \in Sharing \cup {"queued"}
                            /\ pc'[w] = "none" <=> pc[w] = "none",
         \A w \in Helpers : pc'[w] \in (Sharing \ ({"wait"} \cup Waiting)) \cup {"none", "queued", "gone"},
         pc'[0] # "wake"
  PROVE  Sharings'
<1>1. Sharers' = Sharers
  BY DEF Sharers, Sharing
<1> QED
  BY <1>1 DEF Sharings, Sharing, Waiting

(* Steps that move no index and no count.                                    *)
Outside == {"signal", "wake", "wait", "waitSlow", "ulock", "blocked", "drop", "gone",
            "relinquish", "complete", "returned"}

LEMMA IndicesStay ==
  ASSUME Indices, UNCHANGED <<idx, done, ended>>, da'.iterations = da.iterations,
         da'.index = da.index, da'.todo = da.todo,
         \A w \in Workers : \/ pc'[w] = pc[w]
                            \/ pc[w] \in Outside /\ pc'[w] \in Outside
                            \/ pc[w] = "queued" /\ pc'[w] = "invoke"
                            \/ pc[w] = "load" /\ pc'[w] = "callout"
  PROVE  Indices'
<1>1. Holders' = Holders
  BY DEF Holders, Outside
<1>2. Unposted' = Unposted
  <2>1. \A w \in Workers : pc'[w] \in {"load", "callout", "next", "todo"}
                             <=> pc[w] \in {"load", "callout", "next", "todo"}
    BY DEF Outside
  <2> QED
    BY <2>1 DEF Unposted
<1>3. {idx'[w] : w \in Holders'} = {idx[w] : w \in Holders}
  BY <1>1
<1>4. /\ \A w \in Workers : pc'[w] \in {"none", "queued", "invoke", "load"} => done'[w] = 0
      /\ \A w \in Workers : pc'[w] \in {"next", "todo"} => done'[w] > 0
      /\ \A w \in Workers : pc'[w] = "todo" => da'.index >= da'.iterations
  BY DEF Indices, Outside
<1> QED
  BY <1>1, <1>2, <1>3, <1>4 DEF Indices

(* Steps that leave the event alone.                                         *)
LEMMA EventStays ==
  ASSUME Event, da_event' = da_event, da'.todo = da.todo,
         \A w \in Workers : /\ pc'[w] = "signal" <=> pc[w] = "signal"
                            /\ pc'[w] = "wake" => pc[w] = "wake",
         pc'[0] \in Waiting \cup {"drop"} \/ HasReturned' <=>
           pc[0] \in Waiting \cup {"drop"} \/ HasReturned,
         pc'[0] = "drop" \/ HasReturned' => pc[0] = "drop" \/ HasReturned
  PROVE  Event'
<1>1. Signalled' <=> Signalled
  BY DEF Signalled
<1> QED
  BY <1>1 DEF Event, Waiting

LEMMA HelperStartKeeps == ASSUME ApplyInv, NEW w \in Workers, helper_start(w) PROVE ApplyInv'
<1>1. pc[w] = "queued" /\ SharingFacts
  BY SharesIt DEF helper_start
<1>2. /\ UNCHANGED <<dq_width, other, used, da, da_event, frees, dq, func, rq, tq, da_width,
                     excess, idx, done, ended>>
      /\ pc' = [pc EXCEPT ![w] = "invoke"]
  BY DEF helper_start, queues, call, redirect, Goto
<1>3. /\ w # 0 /\ w \in Helpers /\ pc'[0] = pc[0] /\ pc' \in [Workers -> Labels]
      /\ \A x \in Workers : pc'[x] = IF x = w THEN "invoke" ELSE pc[x]
  BY <1>1, <1>2, Places DEF SharingFacts, Typed, Labels
<1>4. TypeOK'
  BY <1>1, <1>2, <1>3 DEF SharingFacts, TypeOK, QueueTypes, ApplyTypes, CallTypes, WorkerTypes
<1>5. Route' /\ Width' /\ Shared'
  BY <1>1, <1>2, <1>3, RouteStays DEF SharingFacts
<1>6. Sharings'
  BY <1>1, <1>2, <1>3, SharingsStay, Places DEF SharingFacts, Sharings, Sharing, Waiting
<1>7. Indices'
  BY <1>1, <1>2, <1>3, IndicesStay DEF SharingFacts
<1>8. Event'
  BY <1>1, <1>2, <1>3, EventStays DEF SharingFacts, HasReturned
<1> QED
  BY <1>1, <1>3, <1>4, <1>5, <1>6, <1>7, <1>8 DEF SharingFacts, ApplyInv

(* What a worker has run and not yet subtracted from the todo count.         *)
Posting == {"load", "callout", "next", "todo"}
Pending(w) == IF pc[w] \in Posting THEN done[w] ELSE 0

Columns ==
  WorkerTypes =>
    /\ [x \in Workers |-> Pending(x)] \in [Workers -> 0..MaxIterations]
    /\ Unposted = {p \in Workers \X (1..MaxIterations) :
                     p[2] =< [x \in Workers |-> Pending(x)][p[1]]}

LEMMA UnpostedColumns == Columns
<1> SUFFICES ASSUME WorkerTypes
             PROVE  /\ [x \in Workers |-> Pending(x)] \in [Workers -> 0..MaxIterations]
                    /\ Unposted = {p \in Workers \X (1..MaxIterations) :
                                     p[2] =< [x \in Workers |-> Pending(x)][p[1]]}
  BY DEF Columns
<1>1. \A x \in Workers : Pending(x) \in 0..MaxIterations
  <2>1. MaxIterations \in Nat
    BY Places
  <2> QED
    BY <2>1 DEF Pending, WorkerTypes
<1>2. ASSUME NEW p \in Workers \X (1..MaxIterations)
      PROVE  pc[p[1]] \in Posting /\ p[2] <= done[p[1]] <=> p[2] =< Pending(p[1])
  <2>1. p[1] \in Workers /\ p[2] \in 1..MaxIterations
    OBVIOUS
  <2>2. p[2] \in Int /\ p[2] >= 1
    BY <2>1, Places
  <2> QED
    BY <2>2 DEF Pending
<1>3. Unposted = {p \in Workers \X (1..MaxIterations) :
                    pc[p[1]] \in Posting /\ p[2] <= done[p[1]]}
  BY DEF Unposted, Posting
<1>4. \A p \in Workers \X (1..MaxIterations) : [x \in Workers |-> Pending(x)][p[1]] = Pending(p[1])
  OBVIOUS
<1>5. [x \in Workers |-> Pending(x)] \in [Workers -> 0..MaxIterations]
  BY <1>1
<1> QED
  BY <1>2, <1>3, <1>4, <1>5

LEMMA UnpostedMoves ==
  ASSUME WorkerTypes, WorkerTypes', NEW w \in Workers,
         \A x \in Workers \ {w} : Pending(x)' = Pending(x)
  PROVE  /\ Cardinality(Unposted) \in Nat /\ Cardinality(Unposted') \in Nat
         /\ Cardinality(Unposted') = Cardinality(Unposted) + Pending(w)' - Pending(w)
<1> DEFINE f == [x \in Workers |-> Pending(x)]
           g == [x \in Workers |-> Pending(x)']
           Under(h) == {p \in Workers \X (1..MaxIterations) : p[2] =< h[p[1]]}
<1>1. f \in [Workers -> 0..MaxIterations] /\ Unposted = Under(f)
  BY UnpostedColumns DEF Columns
<1>2. g \in [Workers -> 0..MaxIterations] /\ Unposted' = Under(g)
  <2>1. Columns'
    BY UnpostedColumns, PTL
  <2> QED
    BY <2>1 DEF Columns
<1>3. f[w] = Pending(w) /\ g[w] = Pending(w)' /\ \A x \in Workers \ {w} : g[x] = f[x]
  OBVIOUS
<1>4. MaxIterations \in Nat /\ IsFiniteSet(Workers)
  BY Places
<1> HIDE DEF f, g
<1>5. /\ Cardinality(Under(f)) \in Nat /\ Cardinality(Under(g)) \in Nat
      /\ Cardinality(Under(g)) = Cardinality(Under(f)) + g[w] - f[w]
  BY <1>1, <1>2, <1>3, <1>4, ColumnsMove
<1> QED
  BY <1>1, <1>2, <1>3, <1>5

(* One worker has no more pending than all of them.                          *)
LEMMA PendingBound ==
  ASSUME WorkerTypes, NEW w \in Workers
  PROVE  /\ Cardinality(Unposted) \in Nat /\ Pending(w) \in Nat
         /\ Pending(w) <= Cardinality(Unposted)
<1> DEFINE f == [x \in Workers |-> Pending(x)]
           g == [x \in Workers |-> IF x = w THEN 0 ELSE f[x]]
           Under(h) == {p \in Workers \X (1..MaxIterations) : p[2] =< h[p[1]]}
<1>1. f \in [Workers -> 0..MaxIterations] /\ Unposted = Under(f)
  BY UnpostedColumns DEF Columns
<1>2. MaxIterations \in Nat /\ IsFiniteSet(Workers)
  BY Places
<1>3. g \in [Workers -> 0..MaxIterations]
  <2> HIDE DEF f
  <2> QED
    BY <1>1, <1>2
<1>4. f[w] = Pending(w) /\ g[w] = 0 /\ \A x \in Workers \ {w} : g[x] = f[x]
  OBVIOUS
<1>5. f[w] \in Nat
  <2> HIDE DEF f
  <2> QED
    BY <1>1, <1>2
<1> HIDE DEF f, g
<1>6. /\ Cardinality(Under(f)) \in Nat /\ Cardinality(Under(g)) \in Nat
      /\ Cardinality(Under(g)) = Cardinality(Under(f)) + g[w] - f[w]
  BY <1>1, <1>2, <1>3, <1>4, ColumnsMove
<1> QED
  BY <1>1, <1>4, <1>5, <1>6

(* The indices that have ended, and that there are no more than iterations.   *)
LEMMA EndedBound ==
  ASSUME Typed, Indices
  PROVE  /\ ended \subseteq 0 .. da.iterations - 1 /\ IsFiniteSet(ended)
         /\ Cardinality(ended) \in Nat /\ Cardinality(ended) <= da.iterations
         /\ Cardinality(ended) = da.iterations => ended = 0 .. da.iterations - 1
<1> DEFINE N == 0 .. da.iterations - 1
<1>1. ended \subseteq N
  BY DEF Indices
<1>2. IsFiniteSet(N) /\ Cardinality(N) = da.iterations
  <2>1. 0 \in Int /\ da.iterations - 1 \in Int /\ da.iterations \in Nat
    BY DEF Typed
  <2>2. IsFiniteSet(N)
    BY <2>1, FS_Interval
  <2> QED
    BY <2>1, <2>2, CountFirst
<1> HIDE DEF N
<1>3. /\ IsFiniteSet(ended) /\ Cardinality(ended) <= Cardinality(N)
      /\ Cardinality(ended) = Cardinality(N) => ended = N
  BY <1>1, <1>2, FS_Subset
<1> QED
  BY <1>1, <1>2, <1>3, FS_CardinalityType DEF N

(* Once the todo count is zero no index is left, nor is one in anybody's hand. *)
LEMMA NothingHeld ==
  ASSUME Typed, WorkerTypes, Indices, da.todo = 0
  PROVE  /\ ended = 0 .. da.iterations - 1
         /\ \A w \in Workers : pc[w] \notin Posting
<1>1. /\ Cardinality(ended) \in Nat /\ Cardinality(ended) <= da.iterations
      /\ Cardinality(ended) = da.iterations => ended = 0 .. da.iterations - 1
  BY EndedBound
<1>2. 0 = da.iterations - Cardinality(ended) + Cardinality(Unposted) /\ da.iterations \in Nat
  BY DEF Indices, Typed
<1>3. Cardinality(Unposted) \in Nat
  <2>1. 0 \in Workers
    BY Places
  <2> QED
    BY <2>1, PendingBound
<1>4. Cardinality(ended) = da.iterations /\ Cardinality(Unposted) = 0
  BY <1>1, <1>2, <1>3
<1>5. ended = 0 .. da.iterations - 1
  BY <1>1, <1>4
<1>6. ASSUME NEW w \in Workers, pc[w] \in Posting PROVE FALSE
  <2>1. done[w] = 0
    <3>1. Pending(w) \in Nat /\ Pending(w) <= 0
      BY <1>4, PendingBound
    <3> QED
      BY <1>6, <3>1 DEF Pending
  <2>2. w \in Holders
    BY <1>6, <2>1 DEF Indices, Posting, Holders
  <2>3. idx[w] \in Nat /\ idx[w] < da.iterations /\ idx[w] \notin ended
    BY <2>2 DEF Indices, Typed
  <2>4. idx[w] \in 0 .. da.iterations - 1
    BY <1>2, <2>3
  <2> QED
    BY <1>5, <2>3, <2>4
<1> QED
  BY <1>5, <1>6

-----------------------------------------------------------------------------
(* The workers' loop.                                                        *)
LEMMA PcMoves ==
  ASSUME Typed, NEW w \in Workers, NEW l \in Labels, pc' = [pc EXCEPT ![w] = l]
  PROVE  /\ pc' \in [Workers -> Labels]
         /\ \A x \in Workers : pc'[x] = IF x = w THEN l ELSE pc[x]
         /\ w = 0 => pc'[0] = l
         /\ w # 0 => pc'[0] = pc[0] /\ w \in Helpers
<1>1. \A x \in Workers : pc'[x] = IF x = w THEN l ELSE pc[x]
  BY DEF Typed
<1>2. pc' \in [Workers -> Labels]
  BY DEF Typed
<1> QED
  BY <1>1, <1>2, Places

(* da_index is handed out once: the taker holds it, or nobody does.          *)
LEMMA IndexTaken ==
  ASSUME Typed, Indices, NEW w \in Workers, NEW l, pc[w] \notin {"load", "callout"},
         \A x \in Workers : pc'[x] = IF x = w THEN l ELSE pc[x],
         \A x \in Workers : idx'[x] = IF x = w THEN da.index ELSE idx[x],
         da'.index = da.index + 1, da'.iterations = da.iterations, ended' = ended,
         l \in {"load", "callout"} <=> da.index < da.iterations
  PROVE  /\ ended' = {i \in 0 .. da'.iterations - 1 : i < da'.index} \ {idx'[x] : x \in Holders'}
         /\ \A x \in Holders' : idx'[x] < da'.index /\ idx'[x] < da'.iterations
         /\ \A x, y \in Holders' : idx'[x] = idx'[y] => x = y
<1>0. da.index \in Nat /\ da.iterations \in Nat
  BY DEF Typed
<1>1. w \notin Holders
  BY DEF Holders
<1>2. \A x \in Holders : idx'[x] = idx[x] /\ idx[x] < da.index /\ idx[x] < da.iterations
                           /\ idx[x] \in Nat
  BY <1>1 DEF Holders, Indices, Typed
<1>3. ended = {i \in 0 .. da.iterations - 1 : i < da.index} \ {idx[x] : x \in Holders}
  BY DEF Indices
<1>4. CASE da.index < da.iterations
  <2>1. Holders' = Holders \cup {w}
    BY <1>4 DEF Holders
  <2>2. {idx'[x] : x \in Holders'} = {idx[x] : x \in Holders} \cup {da.index}
    BY <1>2, <2>1
  <2>3. {i \in 0 .. da.iterations - 1 : i < da.index + 1} =
          {i \in 0 .. da.iterations - 1 : i < da.index} \cup {da.index}
    BY <1>0, <1>4
  <2>4. da.index \notin {i \in 0 .. da.iterations - 1 : i < da.index}
    BY <1>0
  <2>5. ended' = {i \in 0 .. da'.iterations - 1 : i < da'.index} \ {idx'[x] : x \in Holders'}
    BY <1>3, <2>2, <2>3, <2>4
  <2>6. \A x \in Holders' : idx'[x] < da'.index /\ idx'[x] < da'.iterations
    BY <1>0, <1>2, <1>4, <2>1
  <2>7. \A x, y \in Holders' : idx'[x] = idx'[y] => x = y
    BY <1>0, <1>2, <2>1 DEF Indices
  <2> QED
    BY <2>5, <2>6, <2>7
<1>5. CASE ~(da.index < da.iterations)
  <2>1. Holders' = Holders
    BY <1>1, <1>5 DEF Holders
  <2>2. {idx'[x] : x \in Holders'} = {idx[x] : x \in Holders}
    BY <1>2, <2>1
  <2>3. {i \in 0 .. da.iterations - 1 : i < da.index + 1} =
          {i \in 0 .. da.iterations - 1 : i < da.index}
    BY <1>0, <1>5
  <2>4. ended' = {i \in 0 .. da'.iterations - 1 : i < da'.index} \ {idx'[x] : x \in Holders'}
    BY <1>3, <2>2, <2>3
  <2>5. \A x \in Holders' : idx'[x] < da'.index /\ idx'[x] < da'.iterations
    BY <1>0, <1>2, <2>1
  <2>6. \A x, y \in Holders' : idx'[x] = idx'[y] => x = y
    BY <1>2, <2>1 DEF Indices
  <2> QED
    BY <2>4, <2>5, <2>6
<1> QED
  BY <1>4, <1>5

LEMMA LoadKeeps == ASSUME ApplyInv, NEW w \in Workers, invoke_load(w) PROVE ApplyInv'
<1>1. pc[w] = "load" /\ SharingFacts
  <2>1. pc[w] = "load"
    BY DEF invoke_load
  <2> QED
    BY <2>1, SharesIt DEF Sharing
<1>2. /\ UNCHANGED <<dq_width, other, used, da, da_event, frees, dq, func, rq, tq, da_width,
                     excess, idx, done, ended>>
      /\ pc' = [pc EXCEPT ![w] = "callout"]
  BY DEF invoke_load, queues, call, redirect, Goto
<1>3. /\ pc' \in [Workers -> Labels] /\ (pc'[0] = pc[0] \/ (pc'[0] = "callout" /\ w = 0))
      /\ \A x \in Workers : pc'[x] = IF x = w THEN "callout" ELSE pc[x]
  <2>1. "callout" \in Labels
    BY DEF Labels
  <2>2. Typed /\ pc' = [pc EXCEPT ![w] = "callout"]
    BY <1>1, <1>2 DEF SharingFacts
  <2> QED
    BY <2>1, <2>2, PcMoves
<1>4. TypeOK'
  BY <1>1, <1>2, <1>3 DEF SharingFacts, TypeOK, QueueTypes, ApplyTypes, CallTypes, WorkerTypes
<1>5. Route' /\ Width' /\ Shared'
  BY <1>1, <1>2, <1>3, RouteStays DEF SharingFacts, Sharing
<1>6. Sharings'
  BY <1>1, <1>2, <1>3, SharingsStay, Places DEF SharingFacts, Sharings, Sharing, Waiting
<1>7. Indices'
  BY <1>1, <1>2, <1>3, IndicesStay DEF SharingFacts
<1>8. Event'
  BY <1>1, <1>2, <1>3, EventStays DEF SharingFacts, HasReturned, Waiting
<1> QED
  BY <1>1, <1>3, <1>4, <1>5, <1>6, <1>7, <1>8 DEF SharingFacts, ApplyInv

LEMMA FirstKeeps == ASSUME ApplyInv, NEW w \in Workers, invoke_first(w) PROVE ApplyInv'
<1>1. pc[w] = "invoke" /\ SharingFacts
  <2>1. pc[w] = "invoke"
    BY DEF invoke_first
  <2> QED
    BY <2>1, SharesIt DEF Sharing
<1> DEFINE l == IF da.index < da.iterations THEN "load" ELSE AfterLoop(w)
<1>2. /\ UNCHANGED <<dq_width, other, used, da_event, frees, dq, func, rq, tq, da_width,
                     excess, done, ended>>
      /\ idx' = [idx EXCEPT ![w] = da.index] /\ da' = [da EXCEPT !.index = @ + 1]
      /\ pc' = [pc EXCEPT ![w] = l]
  BY DEF invoke_first, TakeIndex, HasIndex, queues, call, redirect, Goto
<1>3. /\ da.index < da.iterations => l = "load"
      /\ ~(da.index < da.iterations) => l = AfterLoop(w)
      /\ l \in {"load", "wait", "drop"} /\ (l = "wait" => w = 0) /\ (l = "drop" => w # 0)
  BY DEF AfterLoop
<1> HIDE DEF l
<1>4. /\ pc' \in [Workers -> Labels] /\ (pc'[0] = pc[0] \/ (pc'[0] = l /\ w = 0))
      /\ \A x \in Workers : pc'[x] = IF x = w THEN l ELSE pc[x]
  <2>1. l \in Labels
    BY <1>3 DEF Labels
  <2>2. Typed /\ pc' = [pc EXCEPT ![w] = l]
    BY <1>1, <1>2 DEF SharingFacts
  <2> QED
    BY <2>1, <2>2, PcMoves
<1>5. /\ da'.iterations = da.iterations /\ da'.todo = da.todo /\ da'.thr_cnt = da.thr_cnt
      /\ da'.index = da.index + 1 /\ da.index \in Nat /\ da.iterations \in Nat
      /\ da' = [iterations |-> da.iterations, index |-> da.index + 1, todo |-> da.todo,
                thr_cnt |-> da.thr_cnt]
      /\ idx' \in [Workers -> Nat] /\ \A x \in Workers : idx'[x] = IF x = w THEN da.index ELSE idx[x]
  BY <1>1, <1>2 DEF SharingFacts, Typed
<1>6. TypeOK'
  <2>1. QueueTypes' /\ CallTypes'
    BY <1>1, <1>2 DEF SharingFacts, TypeOK, QueueTypes, CallTypes
  <2>2. ApplyTypes'
    BY <1>1, <1>2, <1>5 DEF SharingFacts, TypeOK, ApplyTypes
  <2>3. WorkerTypes'
    BY <1>1, <1>2, <1>4, <1>5 DEF SharingFacts, TypeOK, WorkerTypes
  <2> QED
    BY <2>1, <2>2, <2>3 DEF TypeOK
<1>7. Route' /\ Width' /\ Shared'
  BY <1>1, <1>2, <1>3, <1>4, RouteStays DEF SharingFacts, Sharing
<1>8. Sharings'
  BY SMTT(60), <1>1, <1>2, <1>3, <1>4, <1>5, SharingsStay, Places DEF SharingFacts, Sharings, Sharing, Waiting
<1>9. Indices'
  <2>1. Unposted' = Unposted
    <3>1. WorkerTypes /\ WorkerTypes' /\ Indices
      BY <1>1, <1>6 DEF SharingFacts, TypeOK
    <3>2. ASSUME NEW p \in Workers \X (1..MaxIterations)
          PROVE  pc'[p[1]] \in Posting /\ p[2] <= done'[p[1]]
                   <=> pc[p[1]] \in Posting /\ p[2] <= done[p[1]]
      <4>1. p[1] \in Workers /\ p[2] \in Nat /\ ~(p[2] <= 0)
        BY Places
      <4>2. done[w] = 0
        BY <1>1, <3>1 DEF Indices
      <4> QED
        BY <1>2, <1>4, <4>1, <4>2
    <3> QED
      BY <3>2 DEF Unposted, Posting
  <2>2. /\ ended' = {i \in 0 .. da'.iterations - 1 : i < da'.index} \ {idx'[x] : x \in Holders'}
        /\ \A x \in Holders' : idx'[x] < da'.index /\ idx'[x] < da'.iterations
        /\ \A x, y \in Holders' : idx'[x] = idx'[y] => x = y
    <3>1. l \in {"load", "callout"} <=> da.index < da.iterations
      BY <1>3 DEF AfterLoop
    <3> QED
      BY <1>1, <1>2, <1>4, <1>5, <3>1, IndexTaken DEF SharingFacts
  <2>3. /\ \A x \in Workers : pc'[x] \in {"none", "queued", "invoke", "load"} => done'[x] = 0
        /\ \A x \in Workers : pc'[x] \in {"next", "todo"} => done'[x] > 0
        /\ \A x \in Workers : pc'[x] = "todo" => da'.index >= da'.iterations
    BY <1>1, <1>2, <1>3, <1>4, <1>5 DEF SharingFacts, Indices
  <2>4. da'.todo = da'.iterations - Cardinality(ended') + Cardinality(Unposted')
    BY <1>1, <1>2, <1>5, <2>1 DEF SharingFacts, Indices
  <2> QED
    BY <2>2, <2>3, <2>4 DEF Indices
<1>10. Event'
  BY <1>1, <1>2, <1>3, <1>4, <1>5, EventStays DEF SharingFacts, HasReturned, Waiting
<1> QED
  BY <1>1, <1>3, <1>4, <1>6, <1>7, <1>8, <1>9, <1>10 DEF SharingFacts, ApplyInv

LEMMA NextKeeps == ASSUME ApplyInv, NEW w \in Workers, invoke_next(w) PROVE ApplyInv'
<1>1. pc[w] = "next" /\ SharingFacts
  <2>1. pc[w] = "next"
    BY DEF invoke_next
  <2> QED
    BY <2>1, SharesIt DEF Sharing
<1> DEFINE l == IF da.index < da.iterations THEN "callout" ELSE "todo"
<1>2. /\ UNCHANGED <<dq_width, other, used, da_event, frees, dq, func, rq, tq, da_width,
                     excess, done, ended>>
      /\ idx' = [idx EXCEPT ![w] = da.index] /\ da' = [da EXCEPT !.index = @ + 1]
      /\ pc' = [pc EXCEPT ![w] = l]
  BY DEF invoke_next, TakeIndex, HasIndex, queues, call, redirect, Goto
<1>3. /\ da.index < da.iterations => l = "callout"
      /\ ~(da.index < da.iterations) => l = "todo"
      /\ l \in {"callout", "todo"}
  OBVIOUS
<1> HIDE DEF l
<1>4. /\ pc' \in [Workers -> Labels] /\ (pc'[0] = pc[0] \/ (pc'[0] = l /\ w = 0))
      /\ \A x \in Workers : pc'[x] = IF x = w THEN l ELSE pc[x]
  <2>1. l \in Labels
    BY <1>3 DEF Labels
  <2>2. Typed /\ pc' = [pc EXCEPT ![w] = l]
    BY <1>1, <1>2 DEF SharingFacts
  <2> QED
    BY <2>1, <2>2, PcMoves
<1>5. /\ da'.iterations = da.iterations /\ da'.todo = da.todo /\ da'.thr_cnt = da.thr_cnt
      /\ da'.index = da.index + 1 /\ da.index \in Nat /\ da.iterations \in Nat
      /\ da' = [iterations |-> da.iterations, index |-> da.index + 1, todo |-> da.todo,
                thr_cnt |-> da.thr_cnt]
      /\ idx' \in [Workers -> Nat] /\ \A x \in Workers : idx'[x] = IF x = w THEN da.index ELSE idx[x]
  BY <1>1, <1>2 DEF SharingFacts, Typed
<1>6. TypeOK'
  <2>1. QueueTypes' /\ CallTypes'
    BY <1>1, <1>2 DEF SharingFacts, TypeOK, QueueTypes, CallTypes
  <2>2. ApplyTypes'
    BY <1>1, <1>2, <1>5 DEF SharingFacts, TypeOK, ApplyTypes
  <2>3. WorkerTypes'
    BY <1>1, <1>2, <1>4, <1>5 DEF SharingFacts, TypeOK, WorkerTypes
  <2> QED
    BY <2>1, <2>2, <2>3 DEF TypeOK
<1>7. Route' /\ Width' /\ Shared'
  BY <1>1, <1>2, <1>3, <1>4, RouteStays DEF SharingFacts, Sharing
<1>8. Sharings'
  BY SMTT(60), <1>1, <1>2, <1>3, <1>4, <1>5, SharingsStay, Places DEF SharingFacts, Sharings, Sharing, Waiting
<1>9. Indices'
  <2>1. Unposted' = Unposted
    <3>1. \A x \in Workers : pc'[x] \in Posting <=> pc[x] \in Posting
      BY <1>1, <1>3, <1>4 DEF Posting
    <3> QED
      BY <1>2, <3>1 DEF Unposted, Posting
  <2>2. /\ ended' = {i \in 0 .. da'.iterations - 1 : i < da'.index} \ {idx'[x] : x \in Holders'}
        /\ \A x \in Holders' : idx'[x] < da'.index /\ idx'[x] < da'.iterations
        /\ \A x, y \in Holders' : idx'[x] = idx'[y] => x = y
    <3>1. l \in {"load", "callout"} <=> da.index < da.iterations
      BY <1>3
    <3> QED
      BY <1>1, <1>2, <1>4, <1>5, <3>1, IndexTaken DEF SharingFacts
  <2>3. /\ \A x \in Workers : pc'[x] \in {"none", "queued", "invoke", "load"} => done'[x] = 0
        /\ \A x \in Workers : pc'[x] \in {"next", "todo"} => done'[x] > 0
        /\ \A x \in Workers : pc'[x] = "todo" => da'.index >= da'.iterations
    BY <1>1, <1>2, <1>3, <1>4, <1>5 DEF SharingFacts, Indices
  <2>4. da'.todo = da'.iterations - Cardinality(ended') + Cardinality(Unposted')
    BY <1>1, <1>2, <1>5, <2>1 DEF SharingFacts, Indices
  <2> QED
    BY <2>2, <2>3, <2>4 DEF Indices
<1>10. Event'
  BY <1>1, <1>2, <1>3, <1>4, <1>5, EventStays DEF SharingFacts, HasReturned, Waiting
<1> QED
  BY <1>1, <1>3, <1>4, <1>6, <1>7, <1>8, <1>9, <1>10 DEF SharingFacts, ApplyInv

LEMMA CalloutKeeps == ASSUME ApplyInv, NEW w \in Workers, invoke_callout(w) PROVE ApplyInv'
<1>1. pc[w] = "callout" /\ SharingFacts /\ Typed /\ WorkerTypes /\ Indices
  <2>1. pc[w] = "callout"
    BY DEF invoke_callout
  <2> QED
    BY <2>1, SharesIt DEF Sharing, SharingFacts, TypeOK
<1>2. /\ UNCHANGED <<dq_width, other, used, da, da_event, frees, dq, func, rq, tq, da_width,
                     excess, idx>>
      /\ ended' = ended \cup {idx[w]} /\ done' = [done EXCEPT ![w] = @ + 1]
      /\ pc' = [pc EXCEPT ![w] = "next"]
  BY DEF invoke_callout, queues, call, redirect, Goto
<1>3. /\ pc' \in [Workers -> Labels] /\ (pc'[0] = pc[0] \/ (pc'[0] = "next" /\ w = 0))
      /\ \A x \in Workers : pc'[x] = IF x = w THEN "next" ELSE pc[x]
  <2>1. "next" \in Labels
    BY DEF Labels
  <2> QED
    BY <1>1, <1>2, <2>1, PcMoves
<1>4. /\ w \in Holders /\ idx[w] \in Nat /\ idx[w] < da.index /\ idx[w] < da.iterations
      /\ idx[w] \notin ended /\ da.iterations \in Nat /\ da.index \in Nat /\ done[w] \in Nat
      /\ \A x \in Workers : done'[x] = IF x = w THEN done[w] + 1 ELSE done[x]
  <2>1. w \in Holders
    BY <1>1 DEF Holders
  <2> QED
    BY <1>1, <1>2, <2>1 DEF Indices, Typed
<1>5. /\ Cardinality(ended') = Cardinality(ended) + 1 /\ Cardinality(ended) \in Nat
      /\ Cardinality(ended) < da.iterations /\ ended' \subseteq 0 .. da.iterations - 1
  <2>1. /\ ended \subseteq 0 .. da.iterations - 1 /\ IsFiniteSet(ended)
        /\ Cardinality(ended) \in Nat /\ Cardinality(ended) <= da.iterations
        /\ Cardinality(ended) = da.iterations => ended = 0 .. da.iterations - 1
    BY <1>1, EndedBound
  <2>2. idx[w] \in 0 .. da.iterations - 1
    BY <1>4
  <2>3. Cardinality(ended') = Cardinality(ended) + 1
    BY <1>2, <1>4, <2>1, FS_AddElement
  <2>4. Cardinality(ended) # da.iterations
    BY <1>4, <2>1, <2>2
  <2>5. Cardinality(ended) < da.iterations
    BY <1>4, <2>1, <2>4
  <2>6. ended' \subseteq 0 .. da.iterations - 1
    BY <1>2, <2>1, <2>2
  <2> QED
    BY <2>1, <2>3, <2>5, <2>6
<1>6. /\ Pending(w) = done[w] /\ Pending(w)' = done[w] + 1
      /\ \A x \in Workers \ {w} : Pending(x)' = Pending(x)
  BY <1>1, <1>3, <1>4 DEF Pending, Posting
<1>7. done[w] + 1 <= MaxIterations /\ MaxIterations \in Nat /\ da.iterations <= MaxIterations
  <2>1. Pending(w) <= Cardinality(Unposted) /\ Cardinality(Unposted) \in Nat
    BY <1>1, PendingBound
  <2>2. da.todo = da.iterations - Cardinality(ended) + Cardinality(Unposted)
    BY <1>1 DEF Indices
  <2>3. da.todo \in Nat /\ da.todo <= MaxIterations /\ MaxIterations \in Nat
          /\ da.iterations <= MaxIterations
    BY <1>1, Places DEF SharingFacts, TypeOK, ApplyTypes
  <2> QED
    BY <1>4, <1>5, <1>6, <2>1, <2>2, <2>3
<1>8. TypeOK'
  <2>1. QueueTypes' /\ CallTypes'
    BY <1>1, <1>2 DEF SharingFacts, TypeOK, QueueTypes, CallTypes
  <2>2. ApplyTypes'
    <3>1. ended' \subseteq 0 .. MaxIterations - 1
      BY <1>4, <1>5, <1>7
    <3> QED
      BY <1>1, <1>2, <3>1 DEF SharingFacts, TypeOK, ApplyTypes
  <2>3. WorkerTypes'
    <3>1. done[w] + 1 \in 0..MaxIterations
      BY <1>4, <1>7
    <3>2. done' \in [Workers -> 0..MaxIterations]
      BY <1>1, <1>2, <3>1 DEF WorkerTypes
    <3> QED
      BY <1>1, <1>2, <1>3, <3>2 DEF WorkerTypes
  <2> QED
    BY <2>1, <2>2, <2>3 DEF TypeOK
<1>9. Route' /\ Width' /\ Shared'
  BY <1>1, <1>2, <1>3, RouteStays DEF SharingFacts, Sharing
<1>10. Sharings'
  BY <1>1, <1>2, <1>3, SharingsStay, Places DEF SharingFacts, Sharings, Sharing, Waiting
<1>11. Indices'
  <2>1. Holders' = Holders \ {w}
    BY <1>1, <1>3 DEF Holders
  <2>2. \A x \in Holders : x \in Workers /\ (x # w => idx[x] # idx[w])
    BY <1>1, <1>4 DEF Holders, Indices
  <2>3. {idx'[x] : x \in Holders'} = {idx[x] : x \in Holders} \ {idx[w]}
    BY <1>2, <1>4, <2>1, <2>2
  <2>4. idx[w] \in {i \in 0 .. da.iterations - 1 : i < da.index}
    BY <1>4
  <2>5. ended = {i \in 0 .. da.iterations - 1 : i < da.index} \ {idx[x] : x \in Holders}
    BY <1>1 DEF Indices
  <2>6. ended' = {i \in 0 .. da'.iterations - 1 : i < da'.index} \ {idx'[x] : x \in Holders'}
    BY <1>2, <2>3, <2>4, <2>5
  <2>7. Cardinality(Unposted') = Cardinality(Unposted) + 1 /\ Cardinality(Unposted) \in Nat
    <3>1. WorkerTypes'
      BY <1>8 DEF TypeOK
    <3>2. /\ Cardinality(Unposted) \in Nat /\ Cardinality(Unposted') \in Nat
          /\ Cardinality(Unposted') = Cardinality(Unposted) + Pending(w)' - Pending(w)
      BY <1>1, <1>6, <3>1, UnpostedMoves
    <3> QED
      BY <1>4, <1>6, <3>2
  <2>8. da'.todo = da'.iterations - Cardinality(ended') + Cardinality(Unposted')
    <3>1. da.todo = da.iterations - Cardinality(ended) + Cardinality(Unposted)
      BY <1>1 DEF Indices
    <3> QED
      BY <1>2, <1>4, <1>5, <2>7, <3>1
  <2>9. /\ \A x \in Workers : pc'[x] \in {"none", "queued", "invoke", "load"} => done'[x] = 0
        /\ \A x \in Workers : pc'[x] \in {"next", "todo"} => done'[x] > 0
        /\ \A x \in Workers : pc'[x] = "todo" => da'.index >= da'.iterations
    BY <1>1, <1>2, <1>3, <1>4 DEF Indices
  <2>10. /\ \A x \in Holders' : idx'[x] < da'.index /\ idx'[x] < da'.iterations
         /\ \A x, y \in Holders' : idx'[x] = idx'[y] => x = y
    BY <1>1, <1>2, <2>1 DEF Indices
  <2> QED
    BY <2>6, <2>8, <2>9, <2>10 DEF Indices
<1>12. Event'
  BY <1>1, <1>2, <1>3, EventStays DEF SharingFacts, HasReturned, Waiting
<1> QED
  BY <1>1, <1>3, <1>8, <1>9, <1>10, <1>11, <1>12 DEF SharingFacts, ApplyInv

LEMMA TodoKeeps == ASSUME ApplyInv, NEW w \in Workers, invoke_todo(w) PROVE ApplyInv'
<1>1. pc[w] = "todo" /\ SharingFacts /\ Typed /\ WorkerTypes /\ Indices
  <2>1. pc[w] = "todo"
    BY DEF invoke_todo
  <2> QED
    BY <2>1, SharesIt DEF Sharing, SharingFacts, TypeOK
<1> DEFINE l == IF da.todo - done[w] = 0 THEN "signal" ELSE AfterLoop(w)
<1>2. /\ UNCHANGED <<dq_width, other, used, da_event, frees, dq, func, rq, tq, da_width,
                     excess, idx, done, ended>>
      /\ da' = [da EXCEPT !.todo = @ - done[w]]
      /\ pc' = [pc EXCEPT ![w] = l]
  BY DEF invoke_todo, LastTodo, queues, call, redirect, Goto
<1>3. /\ l \in {"signal", "wait", "drop"} /\ (l = "wait" => w = 0) /\ (l = "drop" => w # 0)
      /\ da.todo - done[w] = 0 <=> l = "signal"
  BY DEF AfterLoop
<1> HIDE DEF l
<1>4. /\ pc' \in [Workers -> Labels] /\ (pc'[0] = pc[0] \/ (pc'[0] = l /\ w = 0))
      /\ \A x \in Workers : pc'[x] = IF x = w THEN l ELSE pc[x]
  <2>1. l \in Labels
    BY <1>3 DEF Labels
  <2> QED
    BY <1>1, <1>2, <2>1, PcMoves
<1>5. /\ da'.iterations = da.iterations /\ da'.todo = da.todo - done[w]
      /\ da'.thr_cnt = da.thr_cnt /\ da'.index = da.index
      /\ da' = [iterations |-> da.iterations, index |-> da.index, todo |-> da.todo - done[w],
                thr_cnt |-> da.thr_cnt]
      /\ da.iterations \in Nat /\ da.todo \in Nat /\ done[w] \in Nat /\ done[w] > 0
      /\ da.todo = da.iterations - Cardinality(ended) + Cardinality(Unposted)
      /\ Cardinality(ended) \in Nat /\ Cardinality(ended) <= da.iterations
  <2>1. Cardinality(ended) \in Nat /\ Cardinality(ended) <= da.iterations
    BY <1>1, EndedBound
  <2> QED
    BY <1>1, <1>2, <2>1 DEF Typed, Indices
<1>6. WorkerTypes'
  BY <1>1, <1>2, <1>4 DEF WorkerTypes
<1>7. /\ Cardinality(Unposted) \in Nat /\ Cardinality(Unposted') \in Nat
      /\ Cardinality(Unposted') = Cardinality(Unposted) - done[w]
  <2>1. /\ Pending(w) = done[w] /\ Pending(w)' = 0
        /\ \A x \in Workers \ {w} : Pending(x)' = Pending(x)
    BY <1>1, <1>2, <1>3, <1>4 DEF Pending, Posting
  <2>2. /\ Cardinality(Unposted) \in Nat /\ Cardinality(Unposted') \in Nat
        /\ Cardinality(Unposted') = Cardinality(Unposted) + Pending(w)' - Pending(w)
    BY <1>1, <1>6, <2>1, UnpostedMoves
  <2> QED
    BY <1>5, <2>1, <2>2
<1>8. /\ da.todo > 0 /\ da'.todo \in Nat /\ da'.todo <= da.todo
      /\ da'.todo = da.iterations - Cardinality(ended) + Cardinality(Unposted')
  BY <1>5, <1>7
<1>9. TypeOK'
  <2>1. QueueTypes' /\ CallTypes'
    BY <1>1, <1>2 DEF SharingFacts, TypeOK, QueueTypes, CallTypes
  <2>2. ApplyTypes'
    <3>1. da.todo \in 0..MaxIterations /\ MaxIterations \in Nat
      BY <1>1, Places DEF SharingFacts, TypeOK, ApplyTypes
    <3>2. da'.todo \in 0..MaxIterations
      BY <1>5, <1>8, <3>1
    <3> QED
      BY <1>1, <1>2, <1>5, <3>2 DEF SharingFacts, TypeOK, ApplyTypes
  <2> QED
    BY <1>6, <2>1, <2>2 DEF TypeOK
<1>10. Route' /\ Width' /\ Shared'
  BY <1>1, <1>2, <1>3, <1>4, RouteStays DEF SharingFacts, Sharing
<1>11. Sharings'
  BY SMTT(60), <1>1, <1>2, <1>3, <1>4, <1>5, SharingsStay, Places DEF SharingFacts, Sharings, Sharing, Waiting
<1>12. Indices'
  <2>1. Holders' = Holders
    BY <1>1, <1>3, <1>4 DEF Holders
  <2>2. {idx'[x] : x \in Holders'} = {idx[x] : x \in Holders}
    BY <1>2, <2>1
  <2>3. /\ \A x \in Workers : pc'[x] \in {"none", "queued", "invoke", "load"} => done'[x] = 0
        /\ \A x \in Workers : pc'[x] \in {"next", "todo"} => done'[x] > 0
        /\ \A x \in Workers : pc'[x] = "todo" => da'.index >= da'.iterations
    BY <1>1, <1>2, <1>3, <1>4, <1>5 DEF Indices
  <2> QED
    BY <1>1, <1>2, <1>5, <1>8, <2>1, <2>2, <2>3 DEF Indices
<1>13. Event'
  <2>1. Event
    BY <1>1 DEF SharingFacts
  <2>2. ~Signalled /\ pc[0] # "drop" /\ ~HasReturned
          /\ \A x \in Workers : pc[x] \notin {"signal", "wake"}
    BY <1>5, <1>8, <2>1 DEF Event, Signalled
  <2>3. ~Signalled'
    BY <1>3, <1>4, <1>5, <1>8, <2>2 DEF Signalled
  <2>4. pc'[0] \in Waiting \cup {"drop"} \/ HasReturned' <=> pc[0] \in Waiting \cup {"drop"} \/ HasReturned
    BY <1>1, <1>3, <1>4, <2>2 DEF Waiting, HasReturned
  <2>5. pc'[0] # "drop" /\ ~HasReturned'
    BY <1>1, <1>3, <1>4, <2>2 DEF HasReturned
  <2>6. /\ \A x \in Workers : pc'[x] \in {"signal", "wake"} => x = w /\ pc'[x] = "signal"
        /\ \A x \in Workers : pc'[x] \in {"signal", "wake"} => da'.todo = 0
    BY <1>3, <1>4, <1>5, <2>2
  <2>7. da_event' = (IF Signalled' THEN 1 ELSE 0)
                      - (IF pc'[0] \in Waiting \cup {"drop"} \/ HasReturned' THEN 1 ELSE 0)
    BY <1>2, <2>1, <2>2, <2>3, <2>4 DEF Event
  <2>8. \A x \in Workers : pc'[x] # "wake"
    BY <2>6
  <2> QED
    BY <2>5, <2>6, <2>7, <2>8 DEF Event, Waiting
<1> QED
  BY <1>1, <1>3, <1>4, <1>9, <1>10, <1>11, <1>12, <1>13 DEF SharingFacts, ApplyInv

-----------------------------------------------------------------------------
(* The thread event.                                                         *)
LEMMA SignalKeeps == ASSUME ApplyInv, NEW w \in Workers, event_signal(w) PROVE ApplyInv'
<1>1. pc[w] = "signal" /\ SharingFacts /\ Typed /\ Event
  <2>1. pc[w] = "signal"
    BY DEF event_signal
  <2> QED
    BY <2>1, SharesIt DEF Sharing, SharingFacts
<1> DEFINE l == IF da_event # 0 THEN "wake" ELSE AfterLoop(w)
<1>2. /\ UNCHANGED <<dq_width, other, used, da, frees, dq, func, rq, tq, da_width,
                     excess, idx, done, ended>>
      /\ da_event' = da_event + 1 /\ pc' = [pc EXCEPT ![w] = l]
  BY DEF event_signal, NeedsWake, queues, call, redirect, Goto
<1>3. /\ da.todo = 0 /\ ~Signalled /\ \A x \in Workers : x # w => pc[x] \notin {"signal", "wake"}
      /\ pc[0] # "drop" /\ ~HasReturned
      /\ da_event = IF pc[0] \in Waiting THEN -1 ELSE 0
  BY <1>1 DEF Event, Signalled
<1>4. /\ l \in {"wake", "wait", "drop"} /\ (l = "wait" => w = 0) /\ (l = "drop" => w # 0)
      /\ l = "wake" => w # 0
  <2>1. ASSUME pc[0] \notin Waiting PROVE l # "wake"
    <3>1. da_event = 0
      BY <1>3, <2>1
    <3> QED
      BY <3>1 DEF AfterLoop
  <2>2. l = "wake" => w # 0
    BY <1>1, <2>1 DEF Waiting
  <2> QED
    BY <2>2 DEF AfterLoop
<1> HIDE DEF l
<1>5. /\ pc' \in [Workers -> Labels] /\ (pc'[0] = pc[0] \/ (pc'[0] = l /\ w = 0))
      /\ \A x \in Workers : pc'[x] = IF x = w THEN l ELSE pc[x]
  <2>1. l \in Labels
    BY <1>4 DEF Labels
  <2> QED
    BY <1>1, <1>2, <2>1, PcMoves
<1>6. da_event' \in -1..1
  BY <1>2, <1>3
<1>7. TypeOK'
  <2>1. QueueTypes' /\ CallTypes'
    BY <1>1, <1>2 DEF SharingFacts, TypeOK, QueueTypes, CallTypes
  <2>2. ApplyTypes'
    BY <1>1, <1>2, <1>6 DEF SharingFacts, TypeOK, ApplyTypes
  <2>3. WorkerTypes'
    BY <1>1, <1>2, <1>5 DEF SharingFacts, TypeOK, WorkerTypes
  <2> QED
    BY <2>1, <2>2, <2>3 DEF TypeOK
<1>8. Route' /\ Width' /\ Shared'
  BY <1>1, <1>2, <1>4, <1>5, RouteStays DEF SharingFacts, Sharing
<1>9. Sharings'
  BY <1>1, <1>2, <1>4, <1>5, SharingsStay, Places DEF SharingFacts, Sharings, Sharing, Waiting
<1>10. Indices'
  BY <1>1, <1>2, <1>4, <1>5, IndicesStay DEF SharingFacts, Outside
<1>11. Event'
  <2>1. Signalled' /\ \A x \in Workers : pc'[x] # "signal"
    BY <1>2, <1>3, <1>4, <1>5 DEF Signalled
  <2>2. pc'[0] # "drop" /\ ~HasReturned' /\ (pc'[0] \in Waiting <=> pc[0] \in Waiting)
    BY <1>1, <1>3, <1>4, <1>5 DEF HasReturned, Waiting
  <2>3. da_event' = 1 - (IF pc'[0] \in Waiting \cup {"drop"} \/ HasReturned' THEN 1 ELSE 0)
    BY <1>2, <1>3, <2>2
  <2> QED
    BY <1>2, <1>3, <2>1, <2>2, <2>3 DEF Event, Waiting
<1> QED
  BY <1>1, <1>4, <1>5, <1>7, <1>8, <1>9, <1>10, <1>11 DEF SharingFacts, ApplyInv

LEMMA WakeKeeps == ASSUME ApplyInv, NEW w \in Workers, event_wake(w) PROVE ApplyInv'
<1>1. pc[w] = "wake" /\ SharingFacts /\ Typed /\ Event
  <2>1. pc[w] = "wake"
    BY DEF event_wake
  <2> QED
    BY <2>1, SharesIt DEF Sharing, SharingFacts
<1>2. /\ UNCHANGED <<dq_width, other, used, da, da_event, frees, dq, func, rq, tq, da_width,
                     excess, idx, done, ended>>
      /\ pc' = [pc EXCEPT ![w] = AfterLoop(w), ![0] = IF @ = "blocked" THEN "waitSlow" ELSE @]
  BY DEF event_wake, queues, call, redirect
<1>3. w # 0 /\ w \in Helpers /\ AfterLoop(w) = "drop"
  BY <1>1, Places DEF SharingFacts, Sharings, AfterLoop
<1>4. /\ pc' \in [Workers -> Labels]
      /\ \A x \in Workers : pc'[x] = IF x = w THEN "drop"
                                     ELSE IF x = 0 /\ pc[0] = "blocked" THEN "waitSlow" ELSE pc[x]
      /\ pc'[0] = IF pc[0] = "blocked" THEN "waitSlow" ELSE pc[0]
  <2>1. pc \in [Workers -> Labels]
    BY <1>1 DEF Typed
  <2>2. \A x \in Workers : pc'[x] = IF x = w THEN "drop"
                                    ELSE IF x = 0 /\ pc[0] = "blocked" THEN "waitSlow" ELSE pc[x]
    BY <1>2, <1>3, <2>1, Places
  <2>3. pc' \in [Workers -> Labels]
    <3>1. \A x \in Workers : pc'[x] \in Labels
      BY <2>1, <2>2 DEF Labels
    <3>2. pc' = [x \in Workers |-> pc'[x]]
      BY <1>2, <2>1
    <3> QED
      BY <3>1, <3>2
  <2> QED
    BY <1>3, <2>2, <2>3, Places
<1>5. TypeOK'
  BY <1>1, <1>2, <1>4 DEF SharingFacts, TypeOK, QueueTypes, CallTypes, ApplyTypes, WorkerTypes
<1>6. Route' /\ Width' /\ Shared'
  BY <1>1, <1>2, <1>4, RouteStays DEF SharingFacts, Sharing
<1>7. Sharings'
  BY <1>1, <1>2, <1>3, <1>4, SharingsStay, Places DEF SharingFacts, Sharings, Sharing, Waiting
<1>8. Indices'
  BY <1>1, <1>2, <1>3, <1>4, IndicesStay DEF SharingFacts, Outside
<1>9. Event'
  BY <1>1, <1>2, <1>3, <1>4, EventStays DEF SharingFacts, HasReturned, Waiting
<1> QED
  BY <1>1, <1>4, <1>5, <1>6, <1>7, <1>8, <1>9 DEF SharingFacts, ApplyInv

(* The caller's side of the event: it passes once the event is signalled, and *)
(* is never told that it is corrupt.                                         *)
LEMMA CallerMoves ==
  ASSUME ApplyInv, NEW l \in {"drop", "waitSlow", "ulock", "blocked"},
         pc[0] \in {"wait", "waitSlow", "ulock"}, pc' = [pc EXCEPT ![0] = l],
         UNCHANGED <<dq_width, other, used, da, frees, dq, func, rq, tq, da_width, excess,
                     idx, done, ended>>,
         da_event' = da_event - (IF pc[0] = "wait" THEN 1 ELSE 0),
         l = "drop" => Signalled
  PROVE  ApplyInv'
<1>1. 0 \in Workers /\ SharingFacts /\ Typed /\ Event
  <2>1. 0 \in Workers
    BY Places
  <2> QED
    BY <2>1, SharesIt DEF Sharing, SharingFacts
<1>2. /\ pc' \in [Workers -> Labels] /\ pc'[0] = l
      /\ \A x \in Workers : pc'[x] = IF x = 0 THEN l ELSE pc[x]
  <2>1. l \in Labels
    BY DEF Labels
  <2> QED
    BY <1>1, <2>1, PcMoves
<1>3. /\ ~HasReturned /\ ~HasReturned' /\ (Signalled' <=> Signalled)
      /\ \A x \in Workers : pc'[x] \in {"signal", "wake"} => pc'[x] = pc[x]
  <2>1. \A x \in Workers : pc'[x] = "signal" <=> pc[x] = "signal"
    BY <1>2
  <2> QED
    BY <1>2, <2>1 DEF HasReturned, Signalled
<1>4. /\ pc'[0] \in Waiting \cup {"drop"}
      /\ (pc[0] \in Waiting <=> pc[0] # "wait") /\ pc[0] # "drop"
  BY <1>2 DEF Waiting
<1>5. da_event' = (IF Signalled' THEN 1 ELSE 0) - 1 /\ da_event' \in -1..1
  <2>1. da_event = (IF Signalled THEN 1 ELSE 0) - (IF pc[0] # "wait" THEN 1 ELSE 0)
    BY <1>1, <1>3, <1>4 DEF Event
  <2> QED
    BY <1>3, <2>1
<1>6. TypeOK'
  <2>1. QueueTypes' /\ CallTypes'
    BY <1>1 DEF SharingFacts, TypeOK, QueueTypes, CallTypes
  <2>2. ApplyTypes'
    BY <1>1, <1>5 DEF SharingFacts, TypeOK, ApplyTypes
  <2>3. WorkerTypes'
    BY <1>1, <1>2 DEF SharingFacts, TypeOK, WorkerTypes
  <2> QED
    BY <2>1, <2>2, <2>3 DEF TypeOK
<1>7. Route' /\ Width' /\ Shared'
  BY <1>1, <1>2, RouteStays DEF SharingFacts, Sharing
<1>8. Sharings'
  BY <1>1, <1>2, SharingsStay, Places DEF SharingFacts, Sharings, Sharing, Waiting
<1>9. Indices'
  BY <1>1, <1>2, IndicesStay DEF SharingFacts, Outside
<1>10. Event'
  <2>1. /\ \A x \in Workers : pc'[x] \in {"signal", "wake"} => da'.todo = 0
        /\ \A x \in Workers : pc'[x] = "wake" => Signalled'
        /\ \A x, y \in Workers : pc'[x] = "signal" /\ pc'[y] = "signal" => x = y
    BY <1>1, <1>3 DEF Event
  <2> QED
    BY <1>2, <1>3, <1>4, <1>5, <2>1 DEF Event, Waiting
<1> QED
  BY <1>1, <1>2, <1>6, <1>7, <1>8, <1>9, <1>10 DEF SharingFacts, ApplyInv

LEMMA EventWaitKeeps ==
  ASSUME ApplyInv, event_wait \/ event_waitSlow \/ event_ulock PROVE ApplyInv'
<1>1. pc[0] \in {"wait", "waitSlow", "ulock"} /\ 0 \in Workers
  BY Places DEF event_wait, event_waitSlow, event_ulock
<1>2. SharingFacts /\ Event /\ ~HasReturned
  BY <1>1, SharesIt DEF Sharing, SharingFacts, HasReturned
<1>3. da_event = (IF Signalled THEN 1 ELSE 0) - (IF pc[0] # "wait" THEN 1 ELSE 0)
  BY <1>1, <1>2 DEF Event, Waiting
<1>4. UNCHANGED <<dq_width, other, used, da, frees, dq, func, rq, tq, da_width, excess,
                  idx, done, ended>>
  BY DEF event_wait, event_waitSlow, event_ulock, queues, call, redirect
<1>5. CASE event_wait
  <2> DEFINE l == IF da_event = 1 THEN "drop" ELSE "waitSlow"
  <2>1. pc[0] = "wait" /\ pc' = [pc EXCEPT ![0] = l] /\ da_event' = da_event - 1
    BY <1>5 DEF event_wait, Goto
  <2>2. l \in {"drop", "waitSlow", "ulock", "blocked"} /\ (l = "drop" => Signalled)
    BY <1>3, <2>1
  <2> HIDE DEF l
  <2> QED
    BY <1>1, <1>4, <2>1, <2>2, CallerMoves
<1>6. CASE event_waitSlow
  <2> DEFINE l == IF da_event = 0 THEN "drop" ELSE "ulock"
  <2>1. pc[0] = "waitSlow" /\ da_event' = da_event
          /\ pc' = [pc EXCEPT ![0] = IF da_event = 0 THEN "drop"
                                     ELSE IF da_event = -1 THEN "ulock" ELSE "corrupt"]
    BY <1>6 DEF event_waitSlow, Goto
  <2>2. /\ l \in {"drop", "waitSlow", "ulock", "blocked"} /\ (l = "drop" => Signalled)
        /\ pc' = [pc EXCEPT ![0] = l] /\ da_event' = da_event - 0
    <3>1. CASE Signalled
      <4>1. da_event = 0
        BY <1>3, <2>1, <3>1
      <4> QED
        BY <2>1, <3>1, <4>1
    <3>2. CASE ~Signalled
      <4>1. da_event = -1
        BY <1>3, <2>1, <3>2
      <4> QED
        BY <2>1, <4>1
    <3> QED
      BY <3>1, <3>2
  <2> HIDE DEF l
  <2> QED
    BY <1>1, <1>4, <2>1, <2>2, CallerMoves
<1>7. CASE event_ulock
  <2> DEFINE l == IF da_event = -1 THEN "blocked" ELSE "waitSlow"
  <2>1. pc[0] = "ulock" /\ da_event' = da_event /\ pc' = [pc EXCEPT ![0] = l]
    BY <1>7 DEF event_ulock, Goto
  <2>2. l \in {"drop", "waitSlow", "ulock", "blocked"} /\ l # "drop" /\ da_event' = da_event - 0
    BY <1>3, <2>1
  <2> HIDE DEF l
  <2> QED
    BY <1>1, <1>4, <2>1, <2>2, CallerMoves
<1> QED
  BY <1>5, <1>6, <1>7

-----------------------------------------------------------------------------
(* The reference count of da, and the way back through the queues.           *)
LEMMA DropKeeps == ASSUME ApplyInv, NEW w \in Workers, invoke_drop(w) PROVE ApplyInv'
<1>1. pc[w] = "drop" /\ SharingFacts /\ Typed /\ Event /\ Sharings /\ Route /\ WorkerTypes
  <2>1. pc[w] = "drop"
    BY DEF invoke_drop
  <2> QED
    BY <2>1, SharesIt DEF Sharing, SharingFacts, TypeOK
<1> DEFINE l == IF w # 0 THEN "gone" ELSE IF func = "redirect" THEN "relinquish" ELSE "returned"
<1>2. /\ UNCHANGED <<dq_width, other, used, da_event, dq, func, tq, da_width, excess,
                     idx, done, ended>>
      /\ da' = [da EXCEPT !.thr_cnt = @ - 1]
      /\ frees' = IF da.thr_cnt - 1 = 0 THEN frees + 1 ELSE frees
      /\ rq' = IF w = 0 THEN dq ELSE rq
      /\ pc' = [pc EXCEPT ![w] = l]
  BY DEF invoke_drop, LastOne, queues, call, Goto
<1>3. /\ l \in {"gone", "relinquish", "returned"}
      /\ w # 0 => l = "gone"
      /\ w = 0 => l = IF func = "redirect" THEN "relinquish" ELSE "returned"
  OBVIOUS
<1> HIDE DEF l
<1>4. /\ pc' \in [Workers -> Labels]
      /\ \A x \in Workers : pc'[x] = IF x = w THEN l ELSE pc[x]
      /\ w = 0 => pc'[0] = l
      /\ w # 0 => pc'[0] = pc[0] /\ w \in Helpers
  <2>1. l \in Labels
    BY <1>3 DEF Labels
  <2> QED
    BY <1>1, <1>2, <2>1, PcMoves
<1>5. /\ da'.iterations = da.iterations /\ da'.todo = da.todo
      /\ da'.thr_cnt = da.thr_cnt - 1 /\ da'.index = da.index
      /\ da' = [iterations |-> da.iterations, index |-> da.index, todo |-> da.todo,
                thr_cnt |-> da.thr_cnt - 1]
      /\ da.thr_cnt \in Nat
  BY <1>1, <1>2 DEF Typed
<1>6. da.thr_cnt > 0 /\ Cardinality(Sharers') = da.thr_cnt - 1 /\ frees = 0
  <2>1. IsFiniteSet(Sharers)
    <3>1. Sharers \subseteq Workers /\ IsFiniteSet(Workers)
      BY Places DEF Sharers
    <3> QED
      BY <3>1, FS_Subset
  <2>2. w \in Sharers /\ Sharers' = Sharers \ {w}
    BY <1>1, <1>3, <1>4 DEF Sharers, Sharing
  <2>3. Cardinality(Sharers') = Cardinality(Sharers) - 1 /\ Cardinality(Sharers') \in Nat
    BY <2>1, <2>2, FS_RemoveElement, FS_CardinalityType
  <2>4. Cardinality(Sharers) = da.thr_cnt /\ frees = IF da.thr_cnt = 0 THEN 1 ELSE 0
    BY <1>1 DEF Sharings
  <2>5. Cardinality(Sharers) - 1 \in Nat
    BY <2>3
  <2> QED
    BY <1>5, <2>3, <2>4, <2>5
<1>7. Sharings'
  <2>1. \A x \in Helpers : pc'[x] \in (Sharing \ ({"wait"} \cup Waiting)) \cup {"none", "queued", "gone"}
    BY <1>1, <1>3, <1>4, Places DEF Sharings
  <2>2. pc'[0] # "wake"
    BY <1>1, <1>3, <1>4 DEF Sharings
  <2>3. func' = "redirect" => \A x \in Workers : pc'[x] # "none" => x <= da_width'
    BY <1>1, <1>2, <1>4 DEF Sharings
  <2>4. frees' = IF da'.thr_cnt = 0 THEN 1 ELSE 0
    BY <1>2, <1>5, <1>6
  <2> QED
    BY <1>5, <1>6, <2>1, <2>2, <2>3, <2>4 DEF Sharings, Sharing, Waiting
<1>8. Indices'
  <2>1. \A x \in Workers : pc'[x] = pc[x] \/ (pc[x] \in Outside /\ pc'[x] \in Outside)
    BY <1>1, <1>3, <1>4 DEF Outside
  <2> QED
    BY <1>1, <1>2, <1>5, <2>1, IndicesStay DEF SharingFacts
<1>9. Event'
  <2>1. /\ pc'[0] \in Waiting \cup {"drop"} \/ HasReturned' <=>
             pc[0] \in Waiting \cup {"drop"} \/ HasReturned
        /\ pc'[0] = "drop" \/ HasReturned' => pc[0] = "drop" \/ HasReturned
    BY <1>1, <1>3, <1>4 DEF HasReturned, Waiting
  <2> QED
    BY <1>1, <1>2, <1>3, <1>4, <1>5, <2>1, EventStays
<1>10. TypeOK'
  <2>1. QueueTypes'
    BY <1>1, <1>2 DEF SharingFacts, TypeOK, QueueTypes
  <2>2. ApplyTypes'
    <3>1. da.thr_cnt \in 0..ActiveCpus /\ ActiveCpus \in Nat
      BY <1>1, Places DEF SharingFacts, TypeOK, ApplyTypes
    <3>2. da'.thr_cnt \in 0..ActiveCpus /\ frees' \in 0..1
      BY <1>2, <1>5, <1>6, <3>1
    <3> QED
      BY <1>1, <1>2, <1>5, <3>2 DEF SharingFacts, TypeOK, ApplyTypes
  <2>3. CallTypes'
    BY <1>1, <1>2 DEF SharingFacts, TypeOK, CallTypes
  <2>4. WorkerTypes'
    BY <1>1, <1>2, <1>4 DEF WorkerTypes
  <2> QED
    BY <2>1, <2>2, <2>3, <2>4 DEF TypeOK
<1>11. Route' /\ Width' /\ Shared'
  <2>1. CASE w # 0
    <3>1. rq' = rq /\ pc'[0] = pc[0]
      BY <1>2, <1>4, <2>1
    <3> QED
      BY <1>1, <1>2, <3>1, RouteStays DEF SharingFacts
  <2>2. CASE w = 0
    <3>1. /\ pc[0] = "drop" /\ rq' = dq /\ ~Serially /\ func \in {"redirect", "direct"}
          /\ pc'[0] = IF func = "redirect" THEN "relinquish" ELSE "returned"
          /\ func = "direct" => dq = Root
          /\ func = "redirect" => dq # Root /\ da_width > 0
      BY <1>1, <1>2, <1>3, <1>4, <2>2 DEF Route, Sharing, Serially, Typed, SharingFacts, TypeOK, CallTypes
    <3>2. dq \in Nat /\ (dq # Root => dq <= Depth)
      BY SMTT(60), <1>1, Places DEF Typed
    <3>3. Shared'
      BY <1>2, <3>1 DEF Shared, HasReturned, Serially
    <3>4. Route'
      BY <1>1, <1>2, <3>1, <3>2 DEF Route, Serially, Sharing
    <3>5. Width'
      <4>1. ASSUME NEW c \in Queues
            PROVE  ForItself(c)' = ForItself(c) /\ ForHelpers(c)' = ForHelpers(c)
        <5>1. c \in Int /\ c < Root
          BY Places
        <5>2. CASE func = "redirect"
          BY <1>2, <3>1, <3>2, <5>1, <5>2 DEF ForItself, ForHelpers, Sharing
        <5>3. CASE func = "direct"
          BY <1>2, <3>1, <3>2, <5>1, <5>3 DEF ForItself, ForHelpers, Sharing
        <5> QED
          BY <3>1, <5>2, <5>3
      <4> QED
        BY <1>1, <1>2, <4>1 DEF SharingFacts, Width
    <3> QED
      BY <3>3, <3>4, <3>5
  <2> QED
    BY <2>1, <2>2
<1> QED
  BY <1>1, <1>3, <1>4, <1>7, <1>8, <1>9, <1>10, <1>11 DEF SharingFacts, ApplyInv

LEMMA RelinquishKeeps == ASSUME ApplyInv, redirect_relinquish PROVE ApplyInv'
<1>1. pc[0] = "relinquish"
  BY DEF redirect_relinquish
<1>2. /\ UNCHANGED <<dq_width, other, da, da_event, frees, dq, func, tq, da_width, excess,
                     idx, done, ended>>
      /\ used' = [used EXCEPT ![rq] = @ - da_width] /\ rq' = rq + 1
      /\ pc' = [pc EXCEPT ![0] = IF rq + 1 = Root THEN "complete" ELSE "relinquish"]
  BY DEF redirect_relinquish, queues, call, Goto
<1>3. /\ TypeOK /\ Typed /\ Route /\ Width
      /\ rq \in Nat /\ rq >= 1 /\ rq <= Depth /\ dq <= rq /\ dq \in Nat /\ rq \in Queues
      /\ func = "redirect" /\ ~Serially /\ da_width \in Nat
  <2>1. TypeOK /\ Typed /\ Route /\ Width
    BY TypesRead DEF ApplyInv
  <2>2. rq \in Nat /\ rq >= 1 /\ rq <= Depth
    BY <1>1, <2>1 DEF Route, Typed
  <2>3. rq \in Queues
    BY <2>2, Places
  <2> QED
    BY <1>1, <2>1, <2>2, <2>3 DEF Route, Typed
<1>4. Shared /\ Sharings /\ Indices /\ Event
  <2>1. Shared
    BY <1>1, <1>3 DEF Shared, HasReturned
  <2> QED
    BY <2>1 DEF ApplyInv
<1>5. /\ pc' \in [Workers -> Labels]
      /\ pc'[0] = IF rq + 1 = Root THEN "complete" ELSE "relinquish"
      /\ \A w \in Workers : w # 0 => pc'[w] = pc[w]
      /\ HasReturned /\ HasReturned' /\ 0 \in Workers
  <2>1. /\ pc' \in [Workers -> Labels]
        /\ pc'[0] = IF rq + 1 = Root THEN "complete" ELSE "relinquish"
        /\ \A w \in Workers : w # 0 => pc'[w] = pc[w]
    BY <1>2, <1>3, Places DEF Typed, Labels
  <2> QED
    BY <1>1, <2>1, Places DEF HasReturned
<1>6. ASSUME NEW c \in Queues
      PROVE  used'[c] = other'[c] + ForItself(c)' + ForHelpers(c)' /\ used'[c] \in Nat
  <2>1. used[c] = other[c] + ForItself(c) + ForHelpers(c) /\ c \in Int /\ c < Root
          /\ other[c] \in Nat /\ used[c] \in Nat
    BY SMTT(60), <1>3, Places DEF Width, Typed
  <2>2. ForItself(c)' = ForItself(c) /\ ForItself(c) \in Nat
    <3>1. ForItself(c) = IF c >= dq THEN 1 ELSE 0
      BY <1>1 DEF ForItself
    <3>2. ForItself(c)' = IF c >= dq THEN 1 ELSE 0
      BY <1>2, <1>5, <2>1 DEF ForItself
    <3> QED
      BY <3>1, <3>2
  <2>3. /\ ForHelpers(c) = IF c < dq THEN 0 ELSE IF c >= rq THEN da_width ELSE 0
        /\ ForHelpers(c)' = IF c < dq THEN 0 ELSE IF c >= rq + 1 THEN da_width ELSE 0
    <3>1. ForHelpers(c) = IF c < dq THEN 0 ELSE IF c >= rq THEN da_width ELSE 0
      BY <1>1 DEF ForHelpers
    <3>2. CASE rq + 1 = Root
      <4>1. ForHelpers(c)' = 0
        BY <1>2, <1>5, <3>2 DEF ForHelpers, Sharing
      <4> QED
        BY <1>3, <2>1, <3>1, <3>2, <4>1
    <3>3. CASE rq + 1 # Root
      <4>1. ForHelpers(c)' = IF c < dq THEN 0 ELSE IF c >= rq + 1 THEN da_width ELSE 0
        BY <1>2, <1>5, <3>3 DEF ForHelpers
      <4> QED
        BY <3>1, <4>1
    <3> QED
      BY <3>2, <3>3
  <2>4. used'[c] = (IF c = rq THEN used[c] - da_width ELSE used[c]) /\ other'[c] = other[c]
    BY <1>2, <1>3 DEF Typed
  <2> QED
    BY <1>3, <2>1, <2>2, <2>3, <2>4
<1>7. TypeOK'
  <2>1. QueueTypes'
    <3>1. used' \in [Queues -> Nat]
      BY <1>2, <1>3, <1>6 DEF Typed
    <3> QED
      BY <1>2, <1>3, <3>1 DEF TypeOK, QueueTypes
  <2>2. ApplyTypes'
    BY <1>2, <1>3 DEF TypeOK, ApplyTypes
  <2>3. CallTypes'
    <3>1. rq' \in 1..Root
      BY <1>2, <1>3, Places
    <3> QED
      BY <1>2, <1>3, <3>1 DEF TypeOK, CallTypes
  <2>4. WorkerTypes'
    BY <1>2, <1>3, <1>5 DEF TypeOK, WorkerTypes
  <2> QED
    BY <2>1, <2>2, <2>3, <2>4 DEF TypeOK
<1>8. Route' /\ Shared'
  <2>1. dq <= rq' /\ (rq + 1 # Root => rq' <= Depth)
    BY <1>2, <1>3, Places
  <2>2. Route'
    BY <1>1, <1>2, <1>3, <1>5, <2>1 DEF Route, Serially, Sharing
  <2>3. Shared'
    BY <1>2, <1>3, <1>5 DEF Shared, Serially
  <2> QED
    BY <2>2, <2>3
<1>9. Sharings'
  <2>1. pc'[0] \notin Sharing \cup {"queued", "none", "wake"} /\ pc[0] \notin Sharing \cup {"queued", "none"}
    BY <1>1, <1>5 DEF Sharing
  <2>2. \A w \in Workers : /\ pc'[w] \in Sharing \cup {"queued"} <=> pc[w] \in Sharing \cup {"queued"}
                           /\ pc'[w] = "none" <=> pc[w] = "none"
    BY <1>5, <2>1
  <2>3. \A w \in Helpers : pc'[w] = pc[w]
    BY <1>5, Places
  <2> QED
    BY <1>2, <1>4, <2>1, <2>2, <2>3, SharingsStay DEF Sharings
<1>10. Indices'
  <2>1. pc'[0] \in Outside /\ pc[0] \in Outside
    BY <1>1, <1>5 DEF Outside
  <2>2. \A w \in Workers : pc'[w] = pc[w] \/ (pc[w] \in Outside /\ pc'[w] \in Outside)
    BY <1>5, <2>1
  <2> QED
    BY <1>2, <1>4, <2>2, IndicesStay
<1>11. Event'
  <2>1. \A w \in Workers : /\ pc'[w] = "signal" <=> pc[w] = "signal"
                           /\ pc'[w] = "wake" => pc[w] = "wake"
    BY <1>1, <1>5
  <2> QED
    BY <1>2, <1>4, <1>5, <2>1, EventStays
<1> QED
  BY <1>5, <1>6, <1>7, <1>8, <1>9, <1>10, <1>11 DEF ApplyInv, Width

LEMMA SyncCompleteKeeps == ASSUME ApplyInv, sync_complete PROVE ApplyInv'
<1>1. /\ pc[0] = "complete" /\ TypeOK /\ Typed /\ Route /\ Width
      /\ UNCHANGED <<dq_width, other, da, da_event, frees, dq, func, tq, da_width, excess,
                     idx, done, ended>>
  BY TypesRead DEF sync_complete, queues, call, ApplyInv
<1>2. /\ rq \in Nat /\ rq >= 1 /\ rq <= Root /\ dq \in Nat /\ dq >= 1 /\ dq <= rq
      /\ func \in {"serial", "redirect"}
  BY <1>1 DEF Route, Typed, TypeOK, CallTypes
<1>3. CASE rq > dq /\ used' = [used EXCEPT ![rq - 1] = @ - 1] /\ rq' = rq - 1 /\ pc' = pc
  <2>1. rq - 1 \in Queues /\ rq' \in 1..Root /\ dq <= rq'
    BY <1>2, <1>3, Places
  <2>2. ASSUME NEW c \in Queues
        PROVE  used'[c] = other'[c] + ForItself(c)' + ForHelpers(c)' /\ used'[c] \in Nat
    <3>1. used[c] = other[c] + ForItself(c) + ForHelpers(c) /\ c \in Int
            /\ other[c] \in Nat /\ used[c] \in Nat
      BY <1>1, Places DEF Width, Typed
    <3>2. ForHelpers(c) = 0 /\ ForHelpers(c)' = 0
      BY <1>1, <1>3 DEF ForHelpers, Sharing
    <3>3. ForItself(c) = IF c >= dq /\ c < rq THEN 1 ELSE 0
      BY <1>1 DEF ForItself
    <3>4. ForItself(c)' = IF c >= dq /\ c < rq - 1 THEN 1 ELSE 0
      BY <1>1, <1>3 DEF ForItself
    <3>5. used'[c] = (IF c = rq - 1 THEN used[c] - 1 ELSE used[c]) /\ other'[c] = other[c]
      BY <1>1, <1>3 DEF Typed
    <3> QED
      BY <1>2, <1>3, <3>1, <3>2, <3>3, <3>4, <3>5
  <2>3. TypeOK'
    <3>1. QueueTypes'
      <4>1. used' \in [Queues -> Nat]
        BY <1>1, <1>3, <2>2 DEF Typed
      <4> QED
        BY <1>1, <4>1 DEF TypeOK, QueueTypes
    <3>2. CallTypes'
      BY <1>1, <2>1 DEF TypeOK, CallTypes
    <3>3. ApplyTypes' /\ WorkerTypes'
      BY <1>1, <1>3 DEF TypeOK, ApplyTypes, WorkerTypes
    <3> QED
      BY <3>1, <3>2, <3>3 DEF TypeOK
  <2>4. Route'
    BY <1>1, <1>3, <2>1 DEF Route, Serially, Sharing
  <2>5. (Shared' <=> Shared) /\ (Alone => Alone')
    BY <1>1, <1>3 DEF Shared, HasReturned, Serially, Alone, Sharing
  <2>6. Sharings => Sharings'
    BY <1>1, <1>3 DEF Sharings, Sharers, Sharing, Waiting
  <2>7. Indices => Indices'
    BY <1>1, <1>3, IndicesStay
  <2>8. Event => Event'
    BY <1>1, <1>3, EventStays DEF HasReturned
  <2> QED
    BY <1>1, <1>3, <2>2, <2>3, <2>4, <2>5, <2>6, <2>7, <2>8 DEF ApplyInv, Width
<1>4. CASE rq = dq /\ Goto(0, "returned") /\ UNCHANGED <<used, rq>>
  <2>1. /\ pc' \in [Workers -> Labels] /\ pc'[0] = "returned" /\ HasReturned /\ HasReturned'
        /\ \A w \in Workers : w # 0 => pc'[w] = pc[w]
        /\ \A w \in Helpers : pc'[w] = pc[w]
    BY <1>1, <1>4, Places DEF Goto, Typed, Labels, HasReturned
  <2>2. TypeOK'
    <3>1. QueueTypes' /\ CallTypes'
      BY <1>1, <1>4 DEF TypeOK, QueueTypes, CallTypes
    <3>2. ApplyTypes' /\ WorkerTypes'
      BY <1>1, <2>1 DEF TypeOK, ApplyTypes, WorkerTypes
    <3> QED
      BY <3>1, <3>2 DEF TypeOK
  <2>3. Route'
    BY <1>1, <1>4, <2>1 DEF Route, Serially, Sharing
  <2>4. Width'
    <3>1. ASSUME NEW c \in Queues
          PROVE  /\ ForItself(c)' = 0 /\ ForItself(c) = 0
                 /\ ForHelpers(c)' = 0 /\ ForHelpers(c) = 0
      <4>1. c \in Int
        BY Places
      <4>2. ForItself(c) = 0
        BY <1>1, <1>2, <1>4, <4>1 DEF ForItself
      <4> QED
        BY <1>1, <1>4, <2>1, <4>2 DEF ForItself, ForHelpers, Sharing
    <3> QED
      BY <1>1, <1>4, <3>1 DEF Width
  <2>5. Shared' <=> Shared
    BY <1>1, <2>1 DEF Shared, Serially, Sharing
  <2>6. Alone => Alone'
    BY <1>1, <2>1, Places DEF Alone
  <2>7. Sharings => Sharings'
    <3>1. pc'[0] \notin Sharing \cup {"queued", "none", "wake"} /\ pc[0] \notin Sharing \cup {"queued", "none"}
      BY <1>1, <2>1 DEF Sharing
    <3>2. \A w \in Workers : /\ pc'[w] \in Sharing \cup {"queued"} <=> pc[w] \in Sharing \cup {"queued"}
                             /\ pc'[w] = "none" <=> pc[w] = "none"
      BY <2>1, <3>1
    <3> QED
      BY <1>1, <2>1, <3>1, <3>2, SharingsStay DEF Sharings
  <2>8. Indices => Indices'
    <3>1. \A w \in Workers : pc'[w] = pc[w] \/ (pc[w] \in Outside /\ pc'[w] \in Outside)
      BY <1>1, <2>1 DEF Outside
    <3> QED
      BY <1>1, <3>1, IndicesStay
  <2>9. Event => Event'
    <3>1. \A w \in Workers : /\ pc'[w] = "signal" <=> pc[w] = "signal"
                             /\ pc'[w] = "wake" => pc[w] = "wake"
      BY <1>1, <2>1
    <3> QED
      BY <1>1, <2>1, <3>1, EventStays
  <2> QED
    BY <2>1, <2>2, <2>3, <2>4, <2>5, <2>6, <2>7, <2>8, <2>9 DEF ApplyInv
<1> QED
  BY <1>3, <1>4 DEF sync_complete

LEMMA OtherKeeps ==
  ASSUME ApplyInv, NEW q \in Queues, other_begin(q) \/ other_end(q)
  PROVE  ApplyInv'
<1>1. /\ TypeOK /\ Typed /\ Route /\ Width
      /\ UNCHANGED <<dq_width, da, da_event, frees, dq, func, rq, tq, da_width, excess, pc,
                     idx, done, ended>>
  BY TypesRead DEF other_begin, other_end, call, redirect, ApplyInv
<1> DEFINE d == other'[q] - other[q]
<1>2. /\ d \in Int /\ other[q] + d >= 0 /\ other[q] + d <= MaxOther
      /\ used' \in [Queues -> Int] /\ other' \in [Queues -> Int]
      /\ \A c \in Queues : /\ used'[c] = IF c = q THEN used[c] + d ELSE used[c]
                           /\ other'[c] = IF c = q THEN other[c] + d ELSE other[c]
  <2>1. other[q] \in Nat /\ other[q] <= MaxOther /\ MaxOther \in Nat
    BY <1>1, Places DEF TypeOK, QueueTypes
  <2>2. CASE other_begin(q)
    <3>1. /\ other[q] + 1 <= MaxOther
          /\ other' = [other EXCEPT ![q] = @ + 1] /\ used' = [used EXCEPT ![q] = @ + 1]
      BY <2>1, <2>2 DEF other_begin
    <3>2. d = 1
      BY <1>1, <2>1, <3>1 DEF Typed
    <3> HIDE DEF d
    <3> QED
      BY <1>1, <2>1, <3>1, <3>2 DEF Typed
  <2>3. CASE other_end(q)
    <3>1. /\ other[q] > 0
          /\ other' = [other EXCEPT ![q] = @ - 1] /\ used' = [used EXCEPT ![q] = @ - 1]
      BY <2>3 DEF other_end
    <3>2. d = -1
      BY <1>1, <2>1, <3>1 DEF Typed
    <3> HIDE DEF d
    <3> QED
      BY <1>1, <2>1, <3>1, <3>2 DEF Typed
  <2> QED
    BY <2>2, <2>3
<1> HIDE DEF d
<1>3. ASSUME NEW c \in Queues
      PROVE  /\ used'[c] = other'[c] + ForItself(c)' + ForHelpers(c)'
             /\ used'[c] \in Nat /\ other'[c] \in 0..MaxOther
  <2>1. used[c] = other[c] + ForItself(c) + ForHelpers(c) /\ used[c] \in Nat
          /\ other[c] \in 0..MaxOther /\ MaxOther \in Nat
    BY <1>1, Places DEF Width, TypeOK, QueueTypes
  <2>2. ForItself(c)' = ForItself(c) /\ ForHelpers(c)' = ForHelpers(c)
    BY <1>1 DEF ForItself, ForHelpers, Sharing
  <2>3. ForItself(c) \in Nat /\ ForHelpers(c) \in Nat
    <3>1. pc[0] = "excess" => excess <= da_width
      BY <1>1 DEF Route, Typed
    <3>2. da_width \in Nat /\ excess \in Nat
      BY <1>1 DEF Typed
    <3>3. ForHelpers(c) \in Nat
      BY <3>1, <3>2 DEF ForHelpers
    <3> QED
      BY <3>3 DEF ForItself
  <2> QED
    BY <1>2, <2>1, <2>2, <2>3
<1>4. TypeOK'
  <2>1. QueueTypes'
    <3>1. used' \in [Queues -> Nat] /\ other' \in [Queues -> 0..MaxOther]
      BY <1>2, <1>3
    <3> QED
      BY <1>1, <3>1 DEF TypeOK, QueueTypes
  <2> QED
    BY <1>1, <2>1 DEF TypeOK, ApplyTypes, CallTypes, WorkerTypes
<1>5. Route' /\ (Shared' <=> Shared)
  BY <1>1 DEF Route, Shared, Sharing, HasReturned, Serially
<1>6. Alone => Alone'
  BY <1>1 DEF Alone, HasReturned
<1>7. Sharings => Sharings'
  BY <1>1 DEF Sharings, Sharers, Sharing, Waiting
<1>8. Indices => Indices'
  BY <1>1, IndicesStay
<1>9. Event => Event'
  BY <1>1, EventStays DEF HasReturned
<1> QED
  BY <1>1, <1>3, <1>4, <1>5, <1>6, <1>7, <1>8, <1>9 DEF ApplyInv, Width

LEMMA ApplyInvStep == ApplyInv /\ [Next]_vars => ApplyInv'
<1> SUFFICES ASSUME ApplyInv, [Next]_vars PROVE ApplyInv'
  OBVIOUS
<1>1. CASE \E n \in 1..MaxIterations, m \in Nestings, q, p \in 1..Root : dispatch_apply_f(n, m, q, p)
  BY <1>1, CallKeeps
<1>2. CASE CallerStep
  BY <1>2, SyncEnterKeeps, SyncCompleteKeeps, ApplySerialKeeps, SerialCalloutKeeps, ReserveKeeps,
     ExcessKeeps, AdvanceKeeps, RelinquishKeeps, ApplyF2Keeps, EventWaitKeeps DEF CallerStep
<1>3. CASE \E w \in Workers : helper_start(w) \/ WorkerStep(w)
  BY <1>3, HelperStartKeeps, FirstKeeps, LoadKeeps, CalloutKeeps, NextKeeps, TodoKeeps, SignalKeeps,
     WakeKeeps, DropKeeps DEF WorkerStep
<1>4. CASE \E q \in Queues : other_begin(q) \/ other_end(q)
  BY <1>4, OtherKeeps
<1>5. CASE UNCHANGED vars
  <2>1. UNCHANGED <<dq_width, other, used, da, da_event, frees, dq, func, rq, tq, da_width,
                    excess, pc, idx, done, ended>>
    BY <1>5 DEF vars, queues, call, redirect
  <2>2. TypeOK' /\ Route' /\ Width' /\ (Shared' <=> Shared)
    BY <2>1 DEF ApplyInv, TypeOK, QueueTypes, ApplyTypes, CallTypes, WorkerTypes, Route, Width,
       ForItself, ForHelpers, Shared, Sharing, HasReturned, Serially
  <2>3. Alone => Alone'
    BY <2>1 DEF Alone, HasReturned
  <2>4. Sharings => Sharings'
    BY <2>1 DEF Sharings, Sharers, Sharing, Waiting
  <2>5. Indices => Indices'
    BY <2>1, IndicesStay
  <2>6. Event => Event'
    BY <2>1, EventStays DEF HasReturned
  <2> QED
    BY <2>1, <2>2, <2>3, <2>4, <2>5, <2>6 DEF ApplyInv
<1> QED
  BY <1>1, <1>2, <1>3, <1>4, <1>5 DEF Next

-----------------------------------------------------------------------------
(* What holds of a call is inductive: of Apply as of DispatchApply.          *)
THEOREM ApplyInvariant == ApplySpec => []ApplyInv
<1>1. ApplyInit => ApplyInv
  BY Starts DEF ApplyInit
<1>2. ApplyInv /\ [ApplyNext]_applyVars => ApplyInv'
  BY ApplyInvStep DEF ApplyNext, applyVars, Calling, Within
<1> QED
  BY <1>1, <1>2, PTL DEF ApplySpec

(* A call that has returned, or is about to, has run everything: no worker   *)
(* holds an index any more.                                                  *)
LEMMA AllRun ==
  ASSUME ApplyInv, pc[0] = "drop" \/ HasReturned
  PROVE  /\ ended = 0 .. da.iterations - 1 /\ da_event = 0
         /\ \A w \in Workers : pc[w] \notin Posting
<1>1. Typed /\ WorkerTypes
  BY TypesRead DEF ApplyInv, TypeOK
<1>2. CASE Shared
  <2>1. Indices /\ Event
    BY <1>2 DEF ApplyInv
  <2>2. Signalled /\ da.todo = 0
    BY <2>1 DEF Event, Signalled
  <2>3. da_event = 0
    BY <2>1, <2>2 DEF Event
  <2> QED
    BY <1>1, <2>1, <2>2, <2>3, NothingHeld
<1>3. CASE ~Shared
  <2>1. Alone /\ HasReturned
    BY <1>3 DEF ApplyInv, Shared, Sharing
  <2>2. \A w \in Workers : pc[w] \notin Posting
    BY <2>1, Places DEF Alone, HasReturned, Posting
  <2> QED
    BY <2>1, <2>2 DEF Alone
<1> QED
  BY <1>2, <1>3

(* da is freed by the last thread that holds it, and by none before, and the  *)
(* caller is there while an iteration may still read its continuation.        *)
THEOREM ApplyNoUseAfterFree == ApplySpec => []NoUseAfterFree
<1>1. ASSUME ApplyInv PROVE NoUseAfterFree
  <2>1. TypeOK /\ Typed
    BY <1>1, TypesRead DEF ApplyInv
  <2>2. ASSUME NEW w \in Workers, pc[w] \in Sharing \cup {"queued"} PROVE frees = 0
    <3>1. Sharings
      BY <1>1, <2>2, SharesIt DEF SharingFacts
    <3>2. w \in Sharers /\ IsFiniteSet(Sharers)
      <4>1. Sharers \subseteq Workers /\ IsFiniteSet(Workers)
        BY Places DEF Sharers
      <4> QED
        BY <2>2, <4>1, FS_Subset DEF Sharers
    <3>3. Cardinality(Sharers) # 0
      BY <3>2, FS_EmptySet
    <3> QED
      BY <3>1, <3>3 DEF Sharings
  <2>3. ASSUME NEW w \in Workers, pc[w] \in {"load", "callout"} PROVE ~HasReturned
    BY <1>1, <2>3, AllRun DEF Posting
  <2>4. ASSUME HasReturned, \A w \in Helpers : pc[w] \in {"none", "gone"} PROVE frees = 1
    <3>1. CASE Shared
      <4>1. Sharers = {}
        BY <2>4, Places DEF Sharers, Sharing, HasReturned
      <4>2. Sharings /\ Cardinality({}) = 0
        BY <1>1, <3>1, FS_EmptySet DEF ApplyInv
      <4> QED
        BY <4>1, <4>2 DEF Sharings
    <3>2. CASE ~Shared
      BY <1>1, <2>4, <3>2 DEF ApplyInv, Alone
    <3> QED
      BY <3>1, <3>2
  <2>5. pc[0] = "drop" \/ HasReturned => da_event = 0
    BY <1>1, AllRun
  <2>6. \A w \in Workers : pc[w] \in {"queued", "invoke", "load", "callout", "next", "todo",
          "signal", "wake", "wait", "waitSlow", "ulock", "blocked", "drop"} => frees = 0
    BY <2>2 DEF Sharing
  <2> QED
    BY <2>1, <2>3, <2>4, <2>5, <2>6 DEF NoUseAfterFree
<1> QED
  BY <1>1, ApplyInvariant, PTL

(* On every queue it goes through a call holds width for each thread that     *)
(* runs the client's function, and in the end it holds none.                  *)
THEOREM ApplyWidthAccounting == ApplySpec => []WidthAccounting
<1>1. ASSUME ApplyInv PROVE WidthAccounting
  <2>1. TypeOK /\ Typed /\ Width /\ Route
    BY <1>1, TypesRead DEF ApplyInv
  <2>2. ASSUME NEW q \in dq..Depth PROVE Cardinality(InCallout) <= used[q] - other[q]
    <3>1. /\ q \in Queues /\ q \in Nat /\ dq \in Nat /\ q >= dq /\ q < Root /\ dq # Root
          /\ used[q] = other[q] + ForItself(q) + ForHelpers(q)
          /\ used[q] \in Nat /\ other[q] \in Nat /\ da_width \in Nat /\ excess \in Nat
      <4>1. dq \in Nat /\ dq >= 1 /\ Depth \in Nat /\ Root = Depth + 1
        BY <2>1, Places DEF Typed
      <4>2. q \in Nat /\ q >= dq /\ q <= Depth
        BY <4>1
      <4>3. q \in Queues
        BY <4>1, <4>2, Places
      <4> QED
        BY <2>1, <4>1, <4>2, <4>3 DEF Typed, Width
    <3>2. ForItself(q) \in Nat /\ ForHelpers(q) \in Nat
      <4>1. pc[0] = "excess" => excess <= da_width
        BY <2>1 DEF Route
      <4>2. ForHelpers(q) \in Nat
        BY <3>1, <4>1 DEF ForHelpers
      <4> QED
        BY <4>2 DEF ForItself
    <3>3. CASE InCallout = {}
      <4>1. Cardinality(InCallout) = 0
        BY <3>3, FS_EmptySet
      <4> QED
        BY <3>1, <3>2, <4>1
    <3>4. CASE InCallout # {}
      <4>1. CASE Shared
        <5>1. pc[0] \in Sharing /\ ~Serially
          <6>1. ASSUME HasReturned PROVE FALSE
            <7>1. \A w \in Workers : pc[w] # "callout"
              BY <1>1, <6>1, AllRun DEF Posting
            <7>2. pc[0] # "serialCallout"
              BY <6>1 DEF HasReturned
            <7>3. \A w \in Helpers : pc[w] # "serialCallout"
              BY <1>1, <4>1 DEF ApplyInv, Sharings, Sharing
            <7> QED
              BY <3>4, <7>1, <7>2, <7>3, Places DEF InCallout
          <6> QED
            BY <2>1, <4>1, <6>1 DEF Shared, Route
        <5>2. func = "redirect"
          BY <2>1, <3>1, <5>1 DEF Serially, Route, TypeOK, CallTypes
        <5>3. InCallout \subseteq 0 .. (da_width + 1) - 1
          <6>1. \A w \in Workers : pc[w] # "none" => w <= da_width
            BY <1>1, <4>1, <5>2 DEF ApplyInv, Sharings
          <6>2. \A w \in InCallout : w \in Nat /\ w <= da_width
            BY <6>1, Places DEF InCallout
          <6> QED
            BY <3>1, <6>2
        <5>4. Cardinality(InCallout) <= da_width + 1
          <6>1. Cardinality(0 .. (da_width + 1) - 1) = da_width + 1
            BY <3>1, CountFirst
          <6>2. IsFiniteSet(0 .. (da_width + 1) - 1)
            <7>1. 0 \in Int /\ (da_width + 1) - 1 \in Int
              BY <3>1
            <7> QED
              BY <7>1, FS_Interval
          <6> QED
            BY ZenonT(60), <5>3, <6>1, <6>2, FS_Subset
        <5>5. ForItself(q) = 1 /\ ForHelpers(q) = da_width
          BY <3>1, <5>1 DEF ForItself, ForHelpers, Sharing
        <5>6. Cardinality(InCallout) \in Nat
          <6>1. InCallout \subseteq Workers /\ IsFiniteSet(Workers)
            BY Places DEF InCallout
          <6> QED
            BY <6>1, FS_Subset, FS_CardinalityType
        <5> QED
          BY <3>1, <5>4, <5>5, <5>6
      <4>2. CASE ~Shared
        <5>1. pc[0] \in {"callout", "serialCallout"} /\ InCallout = {0}
          BY <1>1, <3>4, <4>2, Places DEF ApplyInv, Alone, InCallout
        <5>2. pc[0] = "serialCallout"
          BY <4>2, <5>1 DEF Shared, Sharing
        <5>3. ForItself(q) = 1
          BY <3>1, <5>2 DEF ForItself
        <5>4. Cardinality(InCallout) = 1
          BY <5>1, FS_Singleton
        <5> QED
          BY <3>1, <3>2, <5>3, <5>4
      <4> QED
        BY <4>1, <4>2
    <3> QED
      BY <3>3, <3>4
  <2>3. ASSUME pc[0] = "returned" PROVE used = other
    <3>1. ASSUME NEW q \in Queues PROVE used[q] = other[q]
      <4>1. ForItself(q) = 0 /\ ForHelpers(q) = 0
        BY <2>3 DEF ForItself, ForHelpers, Sharing
      <4> QED
        BY <2>1, <4>1 DEF Width, Typed
    <3> QED
      BY <2>1, <3>1 DEF Typed
  <2> QED
    BY <2>2, <2>3 DEF WidthAccounting
<1> QED
  BY <1>1, ApplyInvariant, PTL

-----------------------------------------------------------------------------
(* The call is the loop it stands for.                                       *)
Running == {w \in Workers : pc[w] = "load"} \cup InCallout
Started == Cardinality(ended) + Cardinality(Running)
LoopState == IF pc[0] = "idle" THEN "idle" ELSE IF pc[0] = "returned" THEN "returned" ELSE "looping"

(* The indices that have been started are those that were handed out.        *)
LEMMA StartedShared ==
  ASSUME ApplyInv, Shared
  PROVE  /\ Started = IF da.index < da.iterations THEN da.index ELSE da.iterations
         /\ da.index \in Nat /\ da.iterations \in Nat
<1> DEFINE m == IF da.index < da.iterations THEN da.index ELSE da.iterations
           X == {idx[w] : w \in Holders}
           N == {i \in 0 .. da.iterations - 1 : i < da.index}
<1>1. Typed /\ Indices /\ Sharings /\ Route
  BY TypesRead DEF ApplyInv
<1>2. m \in Nat /\ da.index \in Nat /\ da.iterations \in Nat
  BY <1>1 DEF Typed
<1>3. N = 0 .. m - 1
  BY <1>2
<1>4. IsFiniteSet(N) /\ Cardinality(N) = m
  <2>1. 0 \in Int /\ m - 1 \in Int
    BY <1>2
  <2> HIDE DEF m, N
  <2>2. IsFiniteSet(N)
    BY <1>3, <2>1, FS_Interval
  <2> QED
    BY <1>2, <1>3, <2>2, CountFirst
<1>5. IsFiniteSet(Holders) /\ Cardinality(Holders) \in Nat
  <2>1. Holders \subseteq Workers /\ IsFiniteSet(Workers)
    BY Places DEF Holders
  <2> QED
    BY <2>1, FS_Subset, FS_CardinalityType
<1>6. Cardinality(X) = Cardinality(Holders) /\ X \subseteq N
  <2>1. \A w \in Holders : idx[w] \in Nat /\ idx[w] < da.index /\ idx[w] < da.iterations
    BY <1>1 DEF Indices, Typed, Holders
  <2>2. X \subseteq N
    BY <1>2, <2>1
  <2>3. [w \in Holders |-> idx[w]] \in Bijection(Holders, X)
    <3>1. \A w, x \in Holders : idx[w] = idx[x] => w = x
      BY <1>1 DEF Indices
    <3> QED
      BY <3>1 DEF Bijection, Injection, Surjection, IsInjective
  <2>4. ExistsBijection(Holders, X)
    <3> HIDE DEF X
    <3> QED
      BY <2>3 DEF ExistsBijection
  <2> HIDE DEF X
  <2> QED
    BY <1>5, <2>2, <2>4, FS_Bijection
<1>7. Cardinality(ended) = m - Cardinality(Holders)
  <2>1. ended = N \ X
    BY <1>1 DEF Indices
  <2> HIDE DEF N, X, m
  <2>2. N \cap X = X
    BY <1>6
  <2>3. Cardinality(N \ X) = Cardinality(N) - Cardinality(N \cap X)
    BY <1>4, FS_Difference
  <2> QED
    BY <1>4, <1>6, <2>1, <2>2, <2>3
<1>8. Running = Holders
  <2>1. \A w \in Workers : pc[w] # "serialCallout"
    <3>1. \A w \in Helpers : pc[w] # "serialCallout"
      BY <1>1 DEF Sharings, Sharing
    <3>2. pc[0] # "serialCallout"
      BY DEF Shared, Sharing, HasReturned
    <3> QED
      BY <3>1, <3>2, Places
  <2> QED
    BY <2>1 DEF Running, InCallout, Holders
<1> HIDE DEF m
<1>9. Started = m
  BY <1>2, <1>5, <1>7, <1>8 DEF Started
<1> QED
  BY <1>2, <1>9 DEF m

LEMMA StartedAlone ==
  ASSUME ApplyInv, ~Shared, ~HasReturned
  PROVE  /\ Started = idx[0] + (IF pc[0] = "serialCallout" THEN 1 ELSE 0)
         /\ idx[0] \in Nat /\ ended = 0 .. idx[0] - 1
         /\ pc[0] \notin {"serial", "serialCallout"} => idx[0] = 0
         /\ pc[0] \in {"serial", "serialCallout"} => idx[0] < da.iterations
<1>1. Typed /\ Alone
  BY TypesRead DEF ApplyInv
<1>2. /\ idx[0] \in Nat /\ ended = 0 .. idx[0] - 1
      /\ pc[0] \notin {"serial", "serialCallout"} => idx[0] = 0
      /\ pc[0] \in {"serial", "serialCallout"} => idx[0] < da.iterations
  BY <1>1, Places DEF Alone, Typed
<1>3. Cardinality(ended) = idx[0]
  BY <1>2, CountFirst
<1>4. Running = IF pc[0] = "serialCallout" THEN {0} ELSE {}
  BY <1>1, Places DEF Running, InCallout, Alone, Shared, Sharing
<1>5. Cardinality(Running) = IF pc[0] = "serialCallout" THEN 1 ELSE 0
  BY <1>4, FS_Singleton, FS_EmptySet
<1> QED
  BY <1>2, <1>3, <1>5 DEF Started

LEMMA StartedReturned ==
  ASSUME ApplyInv, HasReturned
  PROVE  Started = da.iterations /\ ended = 0 .. da.iterations - 1 /\ da.iterations \in Nat
<1>1. ended = 0 .. da.iterations - 1 /\ \A w \in Workers : pc[w] \notin Posting
  BY AllRun
<1>2. da.iterations \in Nat
  BY TypesRead DEF ApplyInv, Typed
<1>3. Cardinality(ended) = da.iterations
  BY <1>1, <1>2, CountFirst
<1>4. \A w \in Workers : pc[w] # "serialCallout"
  <2>1. pc[0] # "serialCallout"
    BY DEF HasReturned
  <2>2. \A w \in Helpers : pc[w] # "serialCallout"
    BY DEF ApplyInv, Alone, Sharings, Sharing
  <2> QED
    BY <2>1, <2>2, Places
<1>5. Running = {} /\ Cardinality({}) = 0
  BY <1>1, <1>4, FS_EmptySet DEF Running, InCallout, Posting
<1> QED
  BY <1>1, <1>2, <1>3, <1>5 DEF Started

StartedMeaning ==
  /\ ApplyInv /\ HasReturned =>
       Started = da.iterations /\ ended = 0 .. da.iterations - 1 /\ da.iterations \in Nat
  /\ ApplyInv /\ Shared =>
       /\ Started = IF da.index < da.iterations THEN da.index ELSE da.iterations
       /\ da.index \in Nat /\ da.iterations \in Nat
  /\ ApplyInv /\ ~Shared /\ ~HasReturned =>
       /\ Started = idx[0] + (IF pc[0] = "serialCallout" THEN 1 ELSE 0)
       /\ idx[0] \in Nat /\ ended = 0 .. idx[0] - 1
       /\ pc[0] \notin {"serial", "serialCallout"} => idx[0] = 0
       /\ pc[0] \in {"serial", "serialCallout"} => idx[0] < da.iterations

LEMMA StartedRead == StartedMeaning
  BY StartedShared, StartedAlone, StartedReturned DEF StartedMeaning

(* Steps that the loop does not see.                                         *)
LoopSame ==
  da'.iterations = da.iterations /\ Started' = Started /\ ended' = ended /\ LoopState' = LoopState
LoopStart ==
  /\ LoopState = "looping" /\ LoopState' = "looping" /\ Started < da.iterations
  /\ Started' = Started + 1 /\ da'.iterations = da.iterations /\ ended' = ended
LoopEnd ==
  /\ LoopState = "looping" /\ LoopState' = "looping"
  /\ \E i \in 0 .. Started - 1 : i \notin ended /\ ended' = ended \cup {i}
  /\ Started' = Started /\ da'.iterations = da.iterations
LoopReturn ==
  /\ LoopState = "looping" /\ LoopState' = "returned" /\ ended = 0 .. da.iterations - 1
  /\ Started' = Started /\ da'.iterations = da.iterations /\ ended' = ended

(* A step of a worker, of the calling thread or a helper.                    *)
LEMMA WorkersLoop ==
  ASSUME ApplyInv, ApplyInv', NEW w \in Workers, helper_start(w) \/ WorkerStep(w)
  PROVE  LoopSame \/ LoopStart \/ LoopEnd \/ LoopReturn
<1>1. pc[w] \in Sharing \cup {"queued"}
  BY DEF helper_start, WorkerStep, invoke_first, invoke_load, invoke_callout, invoke_next,
     invoke_todo, event_signal, event_wake, invoke_drop, Sharing
<1>2. SharingFacts /\ Shared /\ Typed /\ Route
  BY <1>1, SharesIt DEF SharingFacts
<1>3. UNCHANGED <<func, da_width>> /\ da'.iterations = da.iterations
  BY <1>2 DEF helper_start, WorkerStep, invoke_first, invoke_load, invoke_callout, invoke_next,
     invoke_todo, event_signal, event_wake, invoke_drop, TakeIndex, call, redirect, Typed
<1>4. /\ \A l \in Labels : pc' = [pc EXCEPT ![w] = l] =>
             pc'[0] = IF w = 0 THEN l ELSE pc[0]
      /\ w # 0 => AfterLoop(w) = "drop"
      /\ w = 0 => AfterLoop(w) = "wait"
  BY <1>2, Places DEF Typed, AfterLoop
<1>5. \/ /\ w # 0 /\ (pc'[0] = pc[0] \/ (pc[0] = "blocked" /\ pc'[0] = "waitSlow"))
      \/ /\ w = 0 /\ pc[0] \in Sharing /\ pc'[0] \in Sharing
      \/ /\ w = 0 /\ invoke_drop(0) /\ pc[0] = "drop"
         /\ pc'[0] = (IF func = "redirect" THEN "relinquish" ELSE "returned")
  <2>1. CASE event_wake(w)
    <3>1. w # 0
      BY <1>2, <2>1 DEF event_wake, SharingFacts, Sharings
    <3>2. pc'[0] = IF pc[0] = "blocked" THEN "waitSlow" ELSE pc[0]
      BY <1>2, <2>1, <3>1, Places DEF event_wake, Typed
    <3> QED
      BY <3>1, <3>2
  <2>2. CASE invoke_drop(w)
    <3>1. pc[w] = "drop" /\ pc' = [pc EXCEPT ![w] = IF w # 0 THEN "gone"
                                     ELSE IF func = "redirect" THEN "relinquish" ELSE "returned"]
      BY <2>2 DEF invoke_drop, Goto
    <3>2. pc'[0] = IF w = 0 THEN (IF func = "redirect" THEN "relinquish" ELSE "returned") ELSE pc[0]
      BY <1>2, <3>1, Places DEF Typed
    <3> QED
      BY <2>2, <3>1, <3>2
  <2>3. CASE ~event_wake(w) /\ ~invoke_drop(w)
    <3>1. PICK l \in {"invoke", "load", "callout", "next", "todo", "signal", "wake", "wait", "drop"} :
            pc' = [pc EXCEPT ![w] = l]
      <4>1. AfterLoop(w) \in {"wait", "drop"}
        BY DEF AfterLoop
      <4>2. CASE helper_start(w)
        BY <4>2 DEF helper_start, Goto
      <4>3. CASE invoke_first(w)
        BY <4>1, <4>3 DEF invoke_first, TakeIndex, Goto
      <4>4. CASE invoke_load(w)
        BY <4>4 DEF invoke_load, Goto
      <4>5. CASE invoke_callout(w)
        BY <4>5 DEF invoke_callout, Goto
      <4>6. CASE invoke_next(w)
        BY <4>6 DEF invoke_next, TakeIndex, Goto
      <4>7. CASE invoke_todo(w)
        BY <4>1, <4>7 DEF invoke_todo, Goto
      <4>8. CASE event_signal(w)
        BY <4>1, <4>8 DEF event_signal, Goto
      <4> QED
        BY <2>3, <4>2, <4>3, <4>4, <4>5, <4>6, <4>7, <4>8 DEF WorkerStep
    <3>2. pc'[0] = IF w = 0 THEN l ELSE pc[0]
      BY <1>4, <3>1 DEF Labels
    <3>3. w = 0 => pc[0] \in Sharing
      BY <1>1, <1>2 DEF SharingFacts
    <3> QED
      BY <3>2, <3>3 DEF Sharing
  <2> QED
    BY <2>1, <2>2, <2>3
<1>6. Shared'
  <2>1. pc[0] \in Sharing \/ HasReturned
    BY <1>2 DEF Shared
  <2>2. ~Serially
    BY <1>2, <2>1 DEF Shared, Route
  <2> QED
    BY <1>3, <1>5, <2>1, <2>2 DEF Shared, HasReturned, Serially, Sharing
<1>7. /\ Started = IF da.index < da.iterations THEN da.index ELSE da.iterations
      /\ Started' = IF da'.index < da.iterations THEN da'.index ELSE da.iterations
      /\ da.index \in Nat /\ da.iterations \in Nat
  <2>1. StartedMeaning'
    BY StartedRead, PTL
  <2> QED
    BY <1>2, <1>3, <1>6, <2>1, StartedRead DEF StartedMeaning
<1>8. /\ pc[0] # "idle" /\ pc'[0] # "idle"
      /\ LoopState' = LoopState \/ (LoopState = "looping" /\ LoopState' = "returned" /\ invoke_drop(0))
      /\ LoopState = "looping" \/ HasReturned
  <2>1. pc[0] \in Sharing \/ HasReturned
    BY <1>2 DEF Shared
  <2> QED
    BY <1>5, <2>1 DEF LoopState, HasReturned, Sharing
<1>9. HasReturned => (\A x \in Workers : pc[x] \notin Posting) /\ ~(da.index < da.iterations)
  <2>1. ASSUME HasReturned, da.index < da.iterations PROVE FALSE
    <3>1. ended = 0 .. da.iterations - 1
      BY <2>1, AllRun
    <3>2. da.index \in ended
      BY <1>7, <2>1, <3>1
    <3>3. \A i \in ended : i < da.index
      BY <1>2 DEF SharingFacts, Indices
    <3> QED
      BY <1>7, <3>2, <3>3
  <2> QED
    BY <2>1, AllRun
<1>10. CASE invoke_first(w) \/ invoke_next(w)
  <2>1. da'.index = da.index + 1 /\ ended' = ended /\ pc[w] \in {"invoke", "next"}
    BY <1>2, <1>10 DEF invoke_first, invoke_next, TakeIndex, Typed
  <2>2. ~(invoke_drop(0)) \/ w # 0
    BY <2>1 DEF invoke_drop
  <2>3. LoopState' = LoopState
    BY <1>5, <1>8, <2>1, <2>2 DEF LoopState, Sharing
  <2>4. CASE da.index < da.iterations
    <3>1. LoopState = "looping"
      BY <1>8, <1>9, <2>4
    <3>2. Started' = Started + 1 /\ Started < da.iterations
      BY <1>7, <2>1, <2>4
    <3> QED
      BY <1>3, <2>1, <2>3, <3>1, <3>2 DEF LoopStart
  <2>5. CASE ~(da.index < da.iterations)
    <3>1. Started' = Started
      BY <1>7, <2>1, <2>5
    <3> QED
      BY <1>3, <2>1, <2>3, <3>1 DEF LoopSame
  <2> QED
    BY <2>4, <2>5
<1>11. CASE invoke_callout(w)
  <2>1. pc[w] = "callout" /\ da' = da /\ ended' = ended \cup {idx[w]}
    BY <1>11 DEF invoke_callout
  <2>2. w \in Holders /\ idx[w] \in Nat /\ idx[w] < da.index /\ idx[w] < da.iterations
          /\ idx[w] \notin ended
    <3>1. w \in Holders
      BY <2>1 DEF Holders
    <3> QED
      BY <1>2, <3>1 DEF SharingFacts, Indices, Typed
  <2>3. ~HasReturned /\ LoopState = "looping"
    BY <1>8, <1>9, <2>1 DEF Posting
  <2>4. LoopState' = LoopState
    BY <1>5, <1>8, <2>1 DEF LoopState, Sharing
  <2>5. Started' = Started /\ idx[w] \in 0 .. Started - 1
    BY <1>7, <2>1, <2>2
  <2> QED
    BY <2>1, <2>2, <2>3, <2>4, <2>5 DEF LoopEnd
<1>12. CASE invoke_drop(w)
  <2>1. pc[w] = "drop" /\ da'.index = da.index /\ ended' = ended
    BY <1>2, <1>12 DEF invoke_drop, Typed
  <2>2. Started' = Started
    BY <1>7, <2>1
  <2>3. CASE LoopState' = LoopState
    BY <1>3, <2>1, <2>2, <2>3 DEF LoopSame
  <2>4. CASE LoopState' # LoopState
    <3>1. LoopState = "looping" /\ LoopState' = "returned" /\ pc[0] = "drop"
      BY <1>8, <2>4 DEF invoke_drop
    <3>2. ended = 0 .. da.iterations - 1
      BY <3>1, AllRun
    <3> QED
      BY <1>3, <2>1, <2>2, <3>1, <3>2 DEF LoopReturn
  <2> QED
    BY <2>3, <2>4
<1>13. CASE helper_start(w) \/ invoke_load(w) \/ invoke_todo(w) \/ event_signal(w) \/ event_wake(w)
  <2>1. pc[w] # "drop" /\ da'.index = da.index /\ ended' = ended
    BY <1>2, <1>13 DEF helper_start, invoke_load, invoke_todo, event_signal, event_wake, Typed
  <2>2. Started' = Started
    BY <1>7, <2>1
  <2>3. LoopState' = LoopState
    BY <1>5, <1>8, <2>1 DEF LoopState, Sharing
  <2> QED
    BY <1>3, <2>1, <2>2, <2>3 DEF LoopSame
<1> QED
  BY <1>10, <1>11, <1>12, <1>13 DEF WorkerStep

(* A step of the caller before it shares and after it has shared.            *)
LEMMA CallersLoop ==
  ASSUME ApplyInv, ApplyInv', CallerStep
  PROVE  LoopSame \/ LoopStart \/ LoopEnd \/ LoopReturn
<1>1. Typed /\ Route /\ StartedMeaning /\ StartedMeaning'
  <2>1. StartedMeaning'
    BY StartedRead, PTL
  <2> QED
    BY <2>1, StartedRead, TypesRead DEF ApplyInv
<1>2. ASSUME NEW l, pc' = [pc EXCEPT ![0] = l] PROVE pc'[0] = l
  BY <1>1, <1>2, Places DEF Typed
<1>3. CASE apply_serial
  <2>1. /\ pc[0] = "serial" /\ pc'[0] = "serialCallout" /\ da' = da /\ idx' = idx /\ ended' = ended
    BY <1>2, <1>3 DEF apply_serial, Goto
  <2>2. ~Shared /\ ~HasReturned /\ ~Shared' /\ ~HasReturned'
    BY <2>1 DEF Shared, HasReturned, Sharing
  <2>3. Started = idx[0] /\ Started' = idx[0] + 1 /\ idx[0] < da.iterations
    BY <1>1, <2>1, <2>2 DEF StartedMeaning
  <2>4. LoopState = "looping" /\ LoopState' = "looping"
    BY <2>1 DEF LoopState
  <2> QED
    BY <2>1, <2>3, <2>4 DEF LoopStart
<1>4. CASE serial_callout
  <2>1. /\ pc[0] = "serialCallout" /\ pc'[0] \in {"serial", "complete"}
        /\ da' = da /\ idx' = [idx EXCEPT ![0] = @ + 1] /\ ended' = ended \cup {idx[0]}
        /\ pc'[0] = "complete" => ~(idx[0] + 1 < da.iterations)
        /\ func' = func /\ da_width' = da_width
    BY <1>2, <1>4 DEF serial_callout, Goto, call
  <2>2. ~Shared /\ ~HasReturned
    BY <2>1 DEF Shared, HasReturned, Sharing
  <2>3. /\ Started = idx[0] + 1 /\ idx[0] < da.iterations /\ idx[0] \in Nat
        /\ idx'[0] = idx[0] + 1 /\ da.iterations \in Nat /\ ended = 0 .. idx[0] - 1
    BY <1>1, <2>1, <2>2, Places DEF StartedMeaning, Typed
  <2>4. Started' = idx[0] + 1
    <3>1. CASE pc'[0] = "serial"
      <4>1. ~Shared' /\ ~HasReturned'
        BY <3>1 DEF Shared, HasReturned, Sharing
      <4>2. Started' = idx'[0] + 0
        BY <1>1, <3>1, <4>1 DEF StartedMeaning
      <4> QED
        BY <2>3, <4>2
    <3>2. CASE pc'[0] = "complete"
      <4>1. Started' = da.iterations
        BY <1>1, <2>1, <3>2 DEF StartedMeaning, HasReturned
      <4> QED
        BY <2>1, <2>3, <3>2, <4>1
    <3> QED
      BY <2>1, <3>1, <3>2
  <2>5. LoopState = "looping" /\ LoopState' = "looping"
    BY <2>1 DEF LoopState
  <2>6. idx[0] \in 0 .. Started - 1 /\ idx[0] \notin ended
    BY <2>3
  <2> QED
    BY <2>1, <2>3, <2>4, <2>5, <2>6 DEF LoopEnd
<1>5. CASE sync_enter \/ redirect_reserve \/ redirect_excess \/ redirect_advance
  <2>1. /\ pc[0] \in {"sync", "reserve", "excess", "advance"}
        /\ pc'[0] \in {"sync", "reserve", "excess", "advance", "serial", "f2"}
        /\ da'.iterations = da.iterations /\ idx' = idx /\ ended' = ended
    <3>1. CASE sync_enter
      BY <1>2, <3>1 DEF sync_enter, Goto
    <3>2. CASE redirect_reserve
      BY <1>2, <3>2 DEF redirect_reserve, Goto
    <3>3. CASE redirect_excess
      BY <1>1, <1>2, <3>3 DEF redirect_excess, Goto, Trim, Typed
    <3>4. CASE redirect_advance
      BY <1>2, <3>4 DEF redirect_advance, Goto
    <3> QED
      BY <1>5, <3>1, <3>2, <3>3, <3>4
  <2>2. ~Shared /\ ~HasReturned /\ ~Shared' /\ ~HasReturned'
    BY <2>1 DEF Shared, HasReturned, Sharing
  <2>3. Started = idx[0] + 0 /\ Started' = idx'[0] + 0
    BY <1>1, <2>1, <2>2 DEF StartedMeaning
  <2>4. LoopState = "looping" /\ LoopState' = "looping"
    BY <2>1 DEF LoopState
  <2> QED
    BY <2>1, <2>3, <2>4 DEF LoopSame
<1>6. CASE apply_f2
  <2>1. /\ pc[0] = "f2" /\ pc'[0] = "invoke" /\ da' = da /\ ended' = ended
    BY <1>6, Places DEF apply_f2
  <2>2. ~Shared /\ ~HasReturned /\ Shared' /\ Alone
    BY <2>1 DEF Shared, HasReturned, Sharing, ApplyInv
  <2>3. Started = 0
    BY <1>1, <2>1, <2>2 DEF StartedMeaning
  <2>4. Started' = 0
    BY <1>1, <2>1, <2>2 DEF StartedMeaning, Alone
  <2>5. LoopState = "looping" /\ LoopState' = "looping"
    BY <2>1 DEF LoopState
  <2> QED
    BY <2>1, <2>3, <2>4, <2>5 DEF LoopSame
<1>7. CASE event_wait \/ event_waitSlow \/ event_ulock
  <2>1. pc[0] \in Sharing /\ da' = da /\ ended' = ended
    BY <1>7 DEF event_wait, event_waitSlow, event_ulock, Sharing
  <2>2. pc'[0] \in Sharing
    <3>1. CASE event_wait
      BY <1>2, <3>1 DEF event_wait, Goto, Sharing
    <3>2. CASE event_ulock
      BY <1>2, <3>2 DEF event_ulock, Goto, Sharing
    <3>3. CASE event_waitSlow
      <4>1. 0 \in Workers /\ pc[0] = "waitSlow"
        BY <3>3, Places DEF event_waitSlow
      <4>2. SharingFacts
        BY <4>1, SharesIt DEF Sharing
      <4>3. da_event \in {0, -1}
        BY <4>1, <4>2 DEF SharingFacts, Event, Waiting
      <4>4. pc'[0] # "corrupt"
        BY <1>2, <3>3, <4>3 DEF event_waitSlow, Goto
      <4> QED
        BY <1>2, <3>3, <4>4 DEF event_waitSlow, Goto, Sharing
    <3> QED
      BY <1>7, <3>1, <3>2, <3>3
  <2>3. Shared /\ Shared'
    BY <2>1, <2>2 DEF Shared
  <2>4. Started' = Started
    BY <1>1, <2>1, <2>3 DEF StartedMeaning
  <2>5. LoopState = "looping" /\ LoopState' = "looping"
    BY <2>1, <2>2 DEF LoopState, Sharing
  <2> QED
    BY <2>1, <2>4, <2>5 DEF LoopSame
<1>8. CASE redirect_relinquish \/ sync_complete
  <2>1. /\ pc[0] \in {"relinquish", "complete"} /\ pc'[0] \in {"relinquish", "complete", "returned"}
        /\ da' = da /\ ended' = ended
    <3>1. CASE redirect_relinquish
      BY <1>2, <3>1 DEF redirect_relinquish, Goto
    <3>2. CASE sync_complete
      BY <1>2, <3>2 DEF sync_complete, Goto
    <3> QED
      BY <1>8, <3>1, <3>2
  <2>2. Started = da.iterations /\ Started' = da.iterations /\ ended = 0 .. da.iterations - 1
    BY <1>1, <2>1 DEF StartedMeaning, HasReturned
  <2>3. LoopState = "looping" /\ LoopState' \in {"looping", "returned"}
    BY <2>1 DEF LoopState
  <2> QED
    BY <2>1, <2>2, <2>3 DEF LoopSame, LoopReturn
<1> QED
  BY <1>3, <1>4, <1>5, <1>6, <1>7, <1>8 DEF CallerStep

(* dispatch_apply is a for loop whose invocations may overlap: every step is  *)
(* a step of ParallelLoop or none, whatever helpers start, early or late.     *)
THEOREM ApplyIsLoop == ApplySpec => AbsSpec
<1>1. ApplyInit => Abs!Init
  <2> SUFFICES ASSUME ApplyInit PROVE Abs!Init
    OBVIOUS
  <2>1. Init
    BY DEF ApplyInit
  <2>2. da.iterations = 0 /\ ended = {} /\ pc[0] = "idle"
    BY <2>1, Places DEF Init
  <2>3. {w \in Workers : pc[w] = "load"} \cup InCallout = {}
    BY <2>1 DEF Init, InCallout
  <2> QED
    BY <2>2, <2>3, FS_EmptySet DEF Abs!Init
<1>2. ApplyInv /\ ApplyInv' /\ [ApplyNext]_applyVars => [Abs!Next]_(Abs!vars)
  <2> SUFFICES ASSUME ApplyInv, ApplyInv', [ApplyNext]_applyVars PROVE [Abs!Next]_(Abs!vars)
    OBVIOUS
  <2>1. ASSUME LoopSame \/ LoopStart \/ LoopEnd \/ LoopReturn PROVE [Abs!Next]_(Abs!vars)
    <3>1. CASE LoopSame
      BY <3>1 DEF LoopSame, LoopState, Started, Running, Abs!vars
    <3>2. CASE LoopStart
      BY <3>2 DEF LoopStart, LoopState, Started, Running, Abs!Next, Abs!Start
    <3>3. CASE LoopEnd
      BY <3>3 DEF LoopEnd, LoopState, Started, Running, Abs!Next, Abs!End
    <3>4. CASE LoopReturn
      BY <3>4 DEF LoopReturn, LoopState, Started, Running, Abs!Next, Abs!Return
    <3> QED
      BY <2>1, <3>1, <3>2, <3>3, <3>4
  <2>2. CASE Calling(Next)
    <3>1. CASE \E n \in 1..MaxIterations, m \in Nestings, q, p \in 1..Root : dispatch_apply_f(n, m, q, p)
      <4>1. PICK n \in 1..MaxIterations, m \in Nestings, q \in 1..Root, p \in 1..Root :
              dispatch_apply_f(n, m, q, p)
        BY <3>1
      <4>2. /\ pc[0] = "idle" /\ pc'[0] \in {"f2", "sync"} /\ da'.iterations = n /\ n \in Nat
            /\ idx' = idx /\ ended' = ended
        BY SMTT(60), <4>1, TypesRead, Places DEF dispatch_apply_f, Goto, ApplyInv, Typed
      <4>3. ~Shared /\ ~HasReturned /\ ~Shared' /\ ~HasReturned'
        BY <4>2 DEF Shared, HasReturned, Sharing
      <4>4. StartedMeaning /\ StartedMeaning'
        BY StartedRead, PTL
      <4>5. Started = idx[0] + 0 /\ Started' = idx'[0] + 0
        BY <4>2, <4>3, <4>4 DEF StartedMeaning
      <4> QED
        BY <4>2, <4>5 DEF Started, Running, Abs!Next, Abs!Call
    <3>2. CASE CallerStep
      BY <2>1, <3>2, CallersLoop
    <3>3. CASE \E w \in Workers : helper_start(w) \/ WorkerStep(w)
      BY <2>1, <3>3, WorkersLoop
    <3>4. CASE \E q \in Queues : other_begin(q) \/ other_end(q)
      <4>1. UNCHANGED <<da, ended, pc>>
        BY <3>4 DEF other_begin, other_end
      <4> QED
        BY <2>1, <4>1 DEF LoopSame, LoopState, Started, Running, InCallout
    <3> QED
      BY <2>2, <3>1, <3>2, <3>3, <3>4 DEF Calling, Next
  <2>3. CASE Within(Nested!Next) \/ UNCHANGED applyVars
    <3>1. UNCHANGED <<da, ended, pc>>
      BY <2>3 DEF Within, applyVars, vars
    <3> QED
      BY <2>1, <3>1 DEF LoopSame, LoopState, Started, Running, InCallout
  <2> QED
    BY <2>2, <2>3 DEF ApplyNext
<1> QED
  BY <1>1, <1>2, ApplyInvariant, PTL DEF ApplySpec, AbsSpec, Abs!Spec

-----------------------------------------------------------------------------
(* Calls inside the iterations of calls.                                      *)

(* A share of the processors, taken that many times, is at most all of them. *)
LEMMA ShareBound ==
    ASSUME NEW n \in Nat \ {0}, NEW t \in Nat, t <= n, NEW c \in Nat, NEW k \in Nat,
           k <= c \div n
    PROVE  t * k <= c
<1> DEFINE s == c \div n
<1>1. s \in Nat /\ n * s <= c
  <2>1. c = n * s + (c % n) /\ c % n \in 0 .. n - 1 /\ s \in Int
    BY SMT
  <2>2. s >= 0
    BY SMT
  <2> QED BY <2>1, <2>2, SMT
<1>2. t * k <= n * k
  BY SMT
<1>3. n * k <= n * s
  BY <1>1, SMT
<1> QED BY <1>1, <1>2, <1>3, SMT

(* Multiplication of naturals is monotone and stays in the naturals: used for *)
(* the products of iterations and of threads of nested calls.                *)
LEMMA ProductBound ==
    ASSUME NEW a \in Nat \ {0}, NEW b \in Nat \ {0}, NEW c \in Nat, NEW d \in Nat,
           a <= c, b <= d
    PROVE  a * b \in Nat \ {0} /\ a * b <= c * d /\ c * d \in Nat \ {0}
<1>1. a * b <= c * b
  BY SMT
<1>2. c * b <= c * d
  BY SMT
<1>3. a * b > 0 /\ a * b \in Int /\ c * d \in Int
  BY SMT
<1> QED BY <1>1, <1>2, <1>3, SMT

(* The context a parallel call gives its iterations satisfies ContextInv if       *)
(* the context around the call does: the choice of thr_cnt and da_nested in   *)
(* dispatch_apply_f.                                                         *)
LEMMA ParallelContext ==
    ASSUME NEW c, Nested!ContextInv(c), NEW n \in Nat \ {0}, NEW k \in Nat \ {0},
           k <= Nested!ThreadCount(c.nested, n)
    PROVE  Nested!ContextInv([nested |-> Nested!Nesting(c.nested, n), threads |-> c.threads * k])
<1> DEFINE m == c.nested
           t == c.threads
<1>0. m \in Nat /\ t \in Nat \ {0} /\ t <= NestedCpus /\ (m = 0 => t = 1) /\ (m > 0 => t <= m)
  BY DEF Nested!ContextInv
<1>1. k <= n /\ NestedCpus \in Nat \ {0} /\ NestedMax \in Nat
        /\ NestedCpus <= NestedMax
  BY NestedWidthAssumption, <1>0 DEF Nested!ThreadCount, Nested!Min2
<1>2. CASE m = 0
  <2>1. t = 1 /\ Nested!Nesting(m, n) = n /\ k <= NestedCpus
    BY <1>0, <1>1, <1>2 DEF Nested!Nesting, Nested!ThreadCount, Nested!Min2
  <2>2. t * k = k
    BY <2>1
  <2> QED BY <1>1, <2>1, <2>2 DEF Nested!ContextInv
<1>3. CASE m > 0
  <2>1. t * k \in Nat \ {0} /\ t * k <= m * n /\ m * n \in Nat \ {0}
    BY <1>0, <1>1, <1>3, ProductBound
  <2>2. t * k <= NestedCpus
    <3>1. CASE m < NestedCpus
      <4>1. k <= NestedCpus \div m
        <5>1. NestedCpus \div m \in Int
          BY <1>0, <1>1, <1>3
        <5> QED BY <1>0, <1>1, <1>3, <3>1, <5>1 DEF Nested!ThreadCount, Nested!Min2
      <4> QED BY <1>0, <1>1, <1>3, <4>1, ShareBound
    <3>2. CASE ~(m < NestedCpus)
      <4>1. k = 1
        BY <1>0, <1>3, <3>2 DEF Nested!ThreadCount, Nested!Min2
      <4> QED BY <1>0, <4>1
    <3> QED BY <3>1, <3>2
  <2>3. Nested!Nesting(m, n) \in {m * n, NestedMax}
    BY <1>0, <1>3 DEF Nested!Nesting
  <2>4. Nested!Nesting(m, n) \in Nat /\ Nested!Nesting(m, n) > 0 /\ t * k <= Nested!Nesting(m, n)
    BY <1>1, <2>1, <2>2, <2>3
  <2> HIDE DEF m, t
  <2> QED BY <2>1, <2>2, <2>4 DEF Nested!ContextInv, m, t
<1> QED BY <1>0, <1>2, <1>3

(* NestingInv is inductive: every context on the stack of a thread records    *)
(* at least as much nesting as there are threads inside it.                  *)
LEMMA NestedInvStep ==
  /\ Nested!Init => Nested!NestingInv
  /\ Nested!NestingInv /\ [Nested!Next]_contexts => Nested!NestingInv'
<1>1. Nested!Init => Nested!NestingInv
  BY NestedWidthAssumption DEF Nested!Init, Nested!NestingInv, Nested!ContextInv
<1>2. Nested!NestingInv /\ [Nested!Next]_contexts => Nested!NestingInv'
  <2> SUFFICES ASSUME Nested!NestingInv, [Nested!Next]_contexts PROVE Nested!NestingInv'
    OBVIOUS
  <2> DEFINE C == [nested : Nat, threads : Nat \ {0}]
  <2>0. contexts \in Seq(C) /\ Len(contexts) \in Nat /\ Len(contexts) > 0
          /\ Nested!Top \in C /\ Nested!ContextInv(Nested!Top)
    <3>1. contexts \in Seq(C) /\ Len(contexts) \in Nat /\ Len(contexts) > 0
      BY DEF Nested!NestingInv
    <3>2. Nested!ContextInv(Nested!Top)
      BY <3>1 DEF Nested!NestingInv, Nested!Top
    <3> QED BY <3>1, <3>2 DEF Nested!ContextInv
  <2>1. ASSUME NEW x \in C, Nested!ContextInv(x), contexts' = Append(contexts, x)
        PROVE  Nested!NestingInv'
    <3>1. contexts' \in Seq(C) /\ Len(contexts') = Len(contexts) + 1
      BY <2>0, <2>1
    <3>2. \A i \in 1..Len(contexts') :
            contexts'[i] = IF i = Len(contexts) + 1 THEN x ELSE contexts[i]
      BY <2>0, <2>1
    <3>3. \A i \in 1..Len(contexts') : Nested!ContextInv(contexts'[i])
      BY <2>0, <2>1, <3>1, <3>2 DEF Nested!NestingInv
    <3> QED BY <2>0, <3>1, <3>3 DEF Nested!NestingInv, Nested!ContextInv
  <2>2. CASE \E n \in 1..NestedIterations : \E k \in 2..n : Nested!ParallelCall(n, k)
    <3>a. PICK n \in 1..NestedIterations : \E k \in 2..n : Nested!ParallelCall(n, k)
      BY <2>2
    <3>b. PICK k \in 2..n : Nested!ParallelCall(n, k)
      BY <3>a
    <3> DEFINE x == [nested |-> Nested!Nesting(Nested!Top.nested, n), threads |-> Nested!Top.threads * k]
    <3>1. n \in Nat \ {0} /\ k \in Nat \ {0}
      BY SMT
    <3>2. Nested!ContextInv(x)
      BY <2>0, <3>1, <3>b, ParallelContext DEF Nested!ParallelCall
    <3>3. x \in C
      BY <3>2 DEF Nested!ContextInv
    <3> HIDE DEF x
    <3> QED BY <2>1, <3>2, <3>3, <3>b DEF Nested!ParallelCall, x
  <2>3. CASE Nested!SerialCall
    BY <2>0, <2>1, <2>3 DEF Nested!SerialCall
  <2>4. CASE Nested!Return
    <3> DEFINE l == Len(contexts) - 1
    <3>0. l \in Int /\ l >= 1 /\ contexts' = SubSeq(contexts, 1, l)
            /\ \A i \in 1..l : contexts[i] \in C
      <4>1. l \in Int /\ l >= 1
        BY <2>0, <2>4 DEF Nested!Return
      <4>2. contexts' = SubSeq(contexts, 1, l)
        BY <2>4 DEF Nested!Return
      <4>3. \A i \in 1..l : i \in 1..Len(contexts)
        BY <2>0
      <4>4. \A i \in 1..Len(contexts) : contexts[i] \in C
        BY DEF Nested!NestingInv, Nested!ContextInv
      <4> QED BY <4>1, <4>2, <4>3, <4>4
    <3> HIDE DEF l
    <3>a. /\ SubSeq(contexts, 1, l) \in Seq(C)
          /\ Len(SubSeq(contexts, 1, l)) = IF 1 <= l THEN l - 1 + 1 ELSE 0
          /\ \A i \in 1 .. l - 1 + 1 : SubSeq(contexts, 1, l)[i] = contexts[1 + i - 1]
      BY <3>0, SubSeqProperties
    <3>1. contexts' \in Seq(C) /\ Len(contexts') = l
      BY <3>0, <3>a
    <3>2. \A i \in 1..l : contexts'[i] = contexts[i]
      BY <3>0, <3>a
    <3>3. \A i \in 1..Len(contexts') : Nested!ContextInv(contexts'[i])
      BY <2>0, <3>1, <3>2 DEF Nested!NestingInv, l
    <3> QED BY <3>0, <3>1, <3>3 DEF Nested!NestingInv, Nested!ContextInv
  <2>5. CASE UNCHANGED contexts
    BY <2>5 DEF Nested!NestingInv, Nested!ContextInv
  <2> QED BY <2>2, <2>3, <2>4, <2>5 DEF Nested!Next
<1> QED BY <1>1, <1>2

(* Nested calls of dispatch_apply never have more threads at work at once     *)
(* than there are processors, for every number of processors, of iterations   *)
(* and of levels.                                                            *)
THEOREM ApplyNeverOversubscribed == ApplySpec => []NeverOversubscribed
<1>1. ApplyInit => Nested!NestingInv
  BY NestedInvStep DEF ApplyInit
<1>2. Nested!NestingInv /\ [ApplyNext]_applyVars => Nested!NestingInv'
  BY NestedInvStep DEF ApplyNext, applyVars, Calling, Within
<1>3. Nested!NestingInv => NeverOversubscribed
  BY DEF Nested!NestingInv, Nested!ContextInv, Nested!NeverOversubscribed, NeverOversubscribed
<1> QED
  BY <1>1, <1>2, <1>3, PTL DEF ApplySpec
=============================================================================
