------------------------- MODULE QueuePartsProofs -------------------------
(* Theorems on two parts of the queues that the queue itself leaves out.      *)
(* First the suspension counts, for every set of threads, every inline count  *)
(* and every depth of suspension, where nobody sets handlers of a source      *)
(* while others may resume it (Apart), and where the setters cannot fill the  *)
(* inline count of an inactive object (Room).  Then the lists that hold work, *)
(* of one queue and of a root queue with its pool of workers, for every set   *)
(* of producers, every limit of the pool and every supply of items.           *)
EXTENDS QueueSuspend, WorkLists, Counting, SequenceTheorems

-----------------------------------------------------------------------------
(* The suspension counts.                                                     *)
Apart == {"source", "setters"} \notin Uses
Room  == (\E u \in Uses : "setters" \in u)
           => Cardinality(Threads) * SetterHeld + Cardinality(Setters) < 2 * Half

-----------------------------------------------------------------------------
(* Every value of dq_state has an inline count and the three bits below it.   *)
LEMMA WordParts ==
  ASSUME NEW w \in Nat
  PROVE  \E s \in Nat, h \in 0..1, i \in 0..1, n \in 0..1 :
           w = INTERVAL * s + HAS_SIDE * h + INACTIVE * i + n
<1> DEFINE s == w \div 8
           h == (w \div 4) % 2
           i == (w \div 2) % 2
           n == w % 2
<1>1. s \in Nat /\ h \in 0..1 /\ i \in 0..1 /\ n \in 0..1
  OBVIOUS
<1>2. w = 8 * s + 4 * h + 2 * i + n
  OBVIOUS
<1> HIDE DEF s, h, i, n
<1> QED
  BY <1>1, <1>2 DEF INTERVAL, HAS_SIDE, INACTIVE

(* Threads at a label are counted, and one step changes one thread's label.   *)
LEMMA AtNat ==
  ASSUME NEW l
  PROVE  /\ At(l) \in Nat /\ At(l) =< Cardinality(Threads)
         /\ At(l) > 0 <=> \E u \in Threads : pc[u] \in l
         /\ Cardinality(Threads) \in Nat
<1> DEFINE S == {u \in Threads : pc[u] \in l}
<1>1. S \in SUBSET Threads
  OBVIOUS
<1>2. /\ IsFiniteSet(S) /\ Cardinality(S) \in Nat /\ Cardinality(S) =< Cardinality(Threads)
      /\ Cardinality(Threads) \in Nat
  BY <1>1, ThreadsAssumption, FS_Subset, FS_CardinalityType
<1>3. Cardinality(S) = 0 <=> S = {}
  BY <1>2, FS_EmptySet
<1> QED
  BY <1>2, <1>3 DEF At

LEMMA AtMoves ==
  ASSUME NEW t \in Threads, \A u \in Threads \ {t} : pc'[u] = pc[u], NEW l
  PROVE  /\ At(l) \in Nat /\ At(l)' \in Nat
         /\ At(l)' = At(l) + (IF pc'[t] \in l THEN 1 ELSE 0) - (IF pc[t] \in l THEN 1 ELSE 0)
<1> DEFINE S == {u \in Threads : pc[u] \in l}
           R == {u \in Threads : pc'[u] \in l}
<1>1. IsFiniteSet(S)
  BY ThreadsAssumption, FS_Subset
<1>2. S \ {t} = R \ {t}
  OBVIOUS
<1>3. (t \in S <=> pc[t] \in l) /\ (t \in R <=> pc'[t] \in l)
  OBVIOUS
<1> HIDE DEF S, R
<1>4. /\ Cardinality(S) \in Nat /\ Cardinality(R) \in Nat
      /\ Cardinality(R) = Cardinality(S) + (IF t \in R THEN 1 ELSE 0)
                                         - (IF t \in S THEN 1 ELSE 0)
  BY <1>1, <1>2, CountMoves
<1> QED
  BY <1>3, <1>4 DEF At, S, R

(* What is owed is the sum over the threads: it is at least what one of them,  *)
(* or two of them, owe.                                                       *)
Debts == [u \in Threads |-> Owes(u)]

\* Every thread owes what it holds: it never owes less than nothing.
Counted == /\ held \in [Threads -> 0..MaxHeld] /\ pc \in [Threads -> Labels]
           /\ \A u \in Threads : pc[u] \in Suspending => held[u] > 0

LEMMA DebtsType == Counted => Debts \in [Threads -> 0..(MaxHeld + 1)]
<1> SUFFICES ASSUME Counted, NEW u \in Threads PROVE Owes(u) \in 0..(MaxHeld + 1)
  BY DEF Debts
<1>1. held[u] \in 0..MaxHeld /\ MaxHeld \in Nat
  BY BoundsAssumption DEF Counted
<1>2. CASE pc[u] \in Suspending
  <2>1. held[u] > 0 /\ pc[u] \notin Resuming
    BY <1>2 DEF Counted, Suspending, Resuming
  <2> QED
    BY <1>1, <1>2, <2>1 DEF Owes, Wants
<1>3. CASE pc[u] \notin Suspending
  BY <1>1, <1>3 DEF Owes, Wants
<1> QED
  BY <1>2, <1>3

LEMMA OwedIsSum ==
  ASSUME Counted
  PROVE  /\ Owed \in Nat
         /\ \A u \in Threads : Owed >= Owes(u)
         /\ \A u, v \in Threads : u # v => Owed >= Owes(u) + Owes(v)
         /\ (\A u \in Threads : Owes(u) = 0) => Owed = 0
<1> DEFINE B == MaxHeld + 1
           Under(f) == {p \in Threads \X (1..B) : p[2] =< f[p[1]]}
           Cleared(f, u) == [f EXCEPT ![u] = 0]
<1>0. B \in Nat /\ IsFiniteSet(Threads)
  BY BoundsAssumption, ThreadsAssumption
<1>1. Owed = Cardinality(Under(Debts))
  <2>1. \A p \in Threads \X (1..B) : Debts[p[1]] = Owes(p[1])
    BY DEF Debts
  <2> QED
    BY <2>1 DEF Owed
<1>2. Debts \in [Threads -> 0..B]
  BY DebtsType
<1> HIDE DEF B
<1>3. ASSUME NEW f \in [Threads -> 0..B], NEW u \in Threads
      PROVE  /\ Cleared(f, u) \in [Threads -> 0..B] /\ f[u] \in Nat
             /\ \A v \in Threads \ {u} : Cleared(f, u)[v] = f[v]
             /\ Cardinality(Under(f)) \in Nat
             /\ Cardinality(Under(f)) = Cardinality(Under(Cleared(f, u))) + f[u]
             /\ Cardinality(Under(f)) >= f[u]
  <2>1. /\ Cleared(f, u) \in [Threads -> 0..B] /\ Cleared(f, u)[u] = 0 /\ f[u] \in Nat
        /\ \A v \in Threads \ {u} : Cleared(f, u)[v] = f[v]
    BY <1>0
  <2> HIDE DEF Cleared
  <2>2. /\ Cardinality(Under(f)) \in Nat /\ Cardinality(Under(Cleared(f, u))) \in Nat
        /\ Cardinality(Under(Cleared(f, u))) = Cardinality(Under(f)) + Cleared(f, u)[u] - f[u]
    BY <1>0, <2>1, ColumnsMove
  <2> HIDE DEF Under
  <2> QED
    BY <2>1, <2>2
<1> HIDE DEF Under, Cleared
<1>4. Owed \in Nat /\ \A u \in Threads : Owed >= Owes(u)
  <2>1. 1 \in Int /\ B \in Int
    BY <1>0
  <2>2. IsFiniteSet(1..B)
    BY <2>1, FS_Interval
  <2>3. IsFiniteSet(Threads \X (1..B)) /\ Under(Debts) \in SUBSET (Threads \X (1..B))
    BY <1>0, <2>2, FS_Product DEF Under
  <2>4. Owed \in Nat
    BY <1>1, <2>3, FS_Subset, FS_CardinalityType
  <2> QED
    BY <1>1, <1>2, <1>3, <2>4 DEF Debts
<1>5. ASSUME NEW u \in Threads, NEW v \in Threads, u # v
      PROVE  Owed >= Owes(u) + Owes(v)
  <2> DEFINE g == Cleared(Debts, u)
  <2>1. /\ g \in [Threads -> 0..B] /\ g[v] = Debts[v] /\ Debts[u] \in Nat
        /\ Cardinality(Under(Debts)) = Cardinality(Under(g)) + Debts[u]
    BY <1>2, <1>3, <1>5
  <2> HIDE DEF g
  <2>2. Cardinality(Under(g)) >= g[v] /\ Cardinality(Under(g)) \in Nat /\ g[v] \in Nat
    BY <1>3, <2>1
  <2>3. Debts[u] = Owes(u) /\ Debts[v] = Owes(v)
    BY DEF Debts
  <2> QED
    BY <1>1, <2>1, <2>2, <2>3
<1>6. ASSUME \A u \in Threads : Owes(u) = 0 PROVE Owed = 0
  <2>1. ASSUME NEW p \in Threads \X (1..B) PROVE ~(p[2] =< Debts[p[1]])
    <3>1. Debts[p[1]] = 0
      BY <1>6 DEF Debts
    <3>2. p[2] \in Int /\ p[2] >= 1
      BY <1>0
    <3> QED
      BY <3>1, <3>2
  <2>2. Under(Debts) = {}
    BY <2>1 DEF Under
  <2> QED
    BY <1>1, <2>2, FS_EmptySet
<1> QED
  BY <1>4, <1>5, <1>6

(* A step changes what is owed by what it changes for its own thread.          *)
LEMMA OwedMoves ==
  ASSUME Counted, Counted', NEW t \in Threads,
         \A u \in Threads \ {t} : pc'[u] = pc[u] /\ held'[u] = held[u]
  PROVE  /\ Owed \in Nat /\ Owed' \in Nat
         /\ Owed' = Owed + Owes(t)' - Owes(t)
<1> DEFINE B == MaxHeld + 1
           Under(f) == {p \in Threads \X (1..B) : p[2] =< f[p[1]]}
           Now == [u \in Threads |-> Owes(u)]
           Then == [u \in Threads |-> Owes(u)']
<1>0. B \in Nat /\ IsFiniteSet(Threads)
  BY BoundsAssumption, ThreadsAssumption
<1>1. Now \in [Threads -> 0..B]
  BY DebtsType DEF Debts
<1>2. Then \in [Threads -> 0..B]
  <2>1. (Counted => Debts \in [Threads -> 0..(MaxHeld + 1)])'
    BY DebtsType, PTL
  <2>2. Debts' \in [Threads -> 0..B]
    BY <2>1
  <2> QED
    BY <2>2 DEF Debts
<1>3. \A u \in Threads \ {t} : Then[u] = Now[u]
  BY DEF Owes, Wants
<1>4. Owed = Cardinality(Under(Now))
  <2>1. \A p \in Threads \X (1..B) : Now[p[1]] = Owes(p[1])
    OBVIOUS
  <2> QED
    BY <2>1 DEF Owed
<1>5. Owed' = Cardinality(Under(Then))
  <2>1. \A p \in Threads \X (1..B) : Then[p[1]] = Owes(p[1])'
    OBVIOUS
  <2> QED
    BY <2>1 DEF Owed
<1>6. Now[t] = Owes(t) /\ Then[t] = Owes(t)'
  OBVIOUS
<1> HIDE DEF B, Now, Then
<1>7. /\ Cardinality(Under(Now)) \in Nat /\ Cardinality(Under(Then)) \in Nat
      /\ Cardinality(Under(Then)) = Cardinality(Under(Now)) + Then[t] - Now[t]
  BY <1>0, <1>1, <1>2, <1>3, ColumnsMove
<1> QED
  BY <1>4, <1>5, <1>6, <1>7

(* Setters that hold no more than SetterHeld counts, and one more while they   *)
(* set, leave room in the inline count.                                       *)
LEMMA RoomLeft ==
  ASSUME Room, use \in Uses, "setters" \in use, Counted, NEW t \in Threads,
         \A u \in Threads : Owes(u) =< SetterHeld + (IF u \in Setters THEN 1 ELSE 0),
         Owes(t) < SetterHeld + (IF t \in Setters THEN 1 ELSE 0)
  PROVE  Owed + 1 < 2 * Half
<1> DEFINE B == MaxHeld + 1
           Under(f) == {p \in Threads \X (1..B) : p[2] =< f[p[1]]}
           g == [Debts EXCEPT ![t] = @ + 1]
           Low == Threads \X (1..SetterHeld)
           High == Setters \X {SetterHeld + 1}
<1>0. /\ B \in Nat /\ SetterHeld \in Nat /\ SetterHeld + 1 =< B /\ IsFiniteSet(Threads)
      /\ IsFiniteSet(Setters) /\ Cardinality(Setters) \in Nat /\ Cardinality(Threads) \in Nat
  BY BoundsAssumption, ThreadsAssumption, FS_Subset, FS_CardinalityType
<1>1. Owed = Cardinality(Under(Debts))
  <2>1. \A p \in Threads \X (1..B) : Debts[p[1]] = Owes(p[1])
    BY DEF Debts
  <2> QED
    BY <2>1 DEF Owed
<1>2. Debts \in [Threads -> 0..B] /\ \A u \in Threads : Debts[u] = Owes(u)
  BY DebtsType DEF Debts
<1> HIDE DEF B
<1>3. /\ g \in [Threads -> 0..B] /\ g[t] = Debts[t] + 1 /\ \A u \in Threads \ {t} : g[u] = Debts[u]
      /\ Debts[t] \in Nat
  BY <1>0, <1>2
<1>4. \A u \in Threads : g[u] =< SetterHeld + (IF u \in Setters THEN 1 ELSE 0)
  BY <1>0, <1>2, <1>3
<1> HIDE DEF g
<1>5. Cardinality(Under(g)) = Owed + 1 /\ Owed \in Nat
  BY SMTT(60), <1>0, <1>1, <1>2, <1>3, ColumnsMove
<1>6. Under(g) \subseteq Low \cup High
  <2> SUFFICES ASSUME NEW u \in Threads, NEW n \in 1..B, n =< g[u]
               PROVE  <<u, n>> \in Low \cup High
    OBVIOUS
  <2>1. CASE n =< SetterHeld
    BY <1>0, <2>1
  <2>2. CASE n > SetterHeld
    <3>1. g[u] \in Nat /\ g[u] =< SetterHeld + (IF u \in Setters THEN 1 ELSE 0)
      BY <1>0, <1>3, <1>4
    <3>2. u \in Setters /\ n = SetterHeld + 1
      BY <1>0, <2>2, <3>1
    <3> QED
      BY <3>2
  <2> QED
    BY <1>0, <2>1, <2>2
<1>7. /\ IsFiniteSet(Low) /\ Cardinality(Low) = Cardinality(Threads) * SetterHeld
  <2>1. 1 \in Int /\ SetterHeld \in Int
    BY <1>0
  <2>2. IsFiniteSet(1..SetterHeld) /\ Cardinality(1..SetterHeld) = SetterHeld
    <3>1. /\ IsFiniteSet(1..SetterHeld)
          /\ Cardinality(1..SetterHeld) = IF 1 > SetterHeld THEN 0 ELSE SetterHeld - 1 + 1
      BY <2>1, FS_Interval
    <3> QED
      BY <1>0, <3>1
  <2> QED
    BY ZenonT(60), <1>0, <2>2, FS_Product
<1>8. /\ IsFiniteSet(High) /\ Cardinality(High) = Cardinality(Setters)
  <2>1. IsFiniteSet({SetterHeld + 1}) /\ Cardinality({SetterHeld + 1}) = 1
    BY FS_Singleton
  <2>2. IsFiniteSet(High) /\ Cardinality(High) = Cardinality(Setters) * 1
    BY <1>0, <2>1, FS_Product
  <2> QED
    BY <1>0, <2>2
<1>9. Low \cap High = {}
  BY <1>0
<1> HIDE DEF Under, Low, High
<1>10. /\ IsFiniteSet(Low \cup High)
       /\ Cardinality(Low \cup High) = Cardinality(Low) + Cardinality(High) - 0
  <2>1. Cardinality(Low \cap High) = 0
    BY <1>9, FS_EmptySet
  <2> QED
    BY <1>7, <1>8, <2>1, FS_Union
<1>11. Cardinality(Under(g)) =< Cardinality(Low \cup High)
  BY <1>6, <1>10, FS_Subset
<1>12. Cardinality(Threads) * SetterHeld + Cardinality(Setters) < 2 * Half
  BY DEF Room
<1>13. Cardinality(Threads) * SetterHeld \in Nat /\ 2 * Half \in Nat
  BY <1>0, HalfAssumption
<1> HIDE DEF Room
<1> QED
  BY <1>0, <1>5, <1>7, <1>8, <1>10, <1>11, <1>12, <1>13

(* The counts in transit change with the thread that moves them.               *)
LEMMA TransitMoves ==
  ASSUME NEW t \in Threads, \A u \in Threads \ {t} : pc'[u] = pc[u]
  PROVE  /\ InTransit \in Int /\ InTransit' \in Int
         /\ InTransit' = InTransit
              + (IF pc'[t] = "suspend_side" THEN Half ELSE 0) - (IF pc[t] = "suspend_side" THEN Half ELSE 0)
              - (IF pc'[t] = "resume_side" THEN Half ELSE 0) + (IF pc[t] = "resume_side" THEN Half ELSE 0)
<1> DEFINE a == At({"suspend_side"})
           b == At({"resume_side"})
<1>1. /\ a \in Nat /\ a' \in Nat /\ b \in Nat /\ b' \in Nat
      /\ a' = a + (IF pc'[t] \in {"suspend_side"} THEN 1 ELSE 0) - (IF pc[t] \in {"suspend_side"} THEN 1 ELSE 0)
      /\ b' = b + (IF pc'[t] \in {"resume_side"} THEN 1 ELSE 0) - (IF pc[t] \in {"resume_side"} THEN 1 ELSE 0)
  BY AtMoves
<1>2. InTransit = Half * (a - b) /\ InTransit' = Half * (a' - b')
  BY DEF InTransit
<1>3. Half \in Nat
  BY HalfAssumption
<1>4. PICK x \in Nat, y \in Nat, x1 \in Nat, y1 \in Nat : a = x /\ b = y /\ a' = x1 /\ b' = y1
  BY <1>1
<1>5. Half * (x - y) \in Int /\ Half * (x1 - y1) \in Int
  BY <1>3
<1>6. Half * (x1 - y1) = Half * (x - y) + Half * ((x1 - x) - (y1 - y))
  BY <1>3
<1>7. ASSUME NEW d \in {-2, -1, 0, 1, 2}
      PROVE  Half * d = IF d = -2 THEN -Half - Half ELSE IF d = -1 THEN -Half ELSE IF d = 0 THEN 0
                        ELSE IF d = 1 THEN Half ELSE Half + Half
  BY <1>3
<1>8. PICK d \in {-2, -1, 0, 1, 2} : d = (x1 - x) - (y1 - y)
  <2>1. (x1 - x) - (y1 - y) \in {-2, -1, 0, 1, 2}
    BY <1>1, <1>4
  <2> QED
    BY <2>1
<1>9. InTransit \in Int /\ InTransit' \in Int /\ InTransit' = InTransit + Half * d
  BY <1>2, <1>4, <1>5, <1>6, <1>8
<1>10. d = (IF pc'[t] = "suspend_side" THEN 1 ELSE 0) - (IF pc[t] = "suspend_side" THEN 1 ELSE 0)
           - (IF pc'[t] = "resume_side" THEN 1 ELSE 0) + (IF pc[t] = "resume_side" THEN 1 ELSE 0)
  BY <1>1, <1>4, <1>8
<1>11. Half * d = IF d = -2 THEN -Half - Half ELSE IF d = -1 THEN -Half ELSE IF d = 0 THEN 0
                  ELSE IF d = 1 THEN Half ELSE Half + Half
  BY <1>7
<1> HIDE DEF a, b
<1> QED
  BY <1>3, <1>9, <1>10, <1>11

-----------------------------------------------------------------------------
\* One step of a thread, as in Next.
Moves(t) == Step(t) /\ UNCHANGED use

LEMMA InvCounted == SuspendInv => Counted
BY DEF SuspendInv, CountConserved, TypeOK, Calls, Counted

(* A step of one thread moves no other; a thread that is about to suspend      *)
(* holds a suspension.                                                        *)
LEMMA ShapeStep ==
  ASSUME SuspendInv, NEW t \in Threads, Moves(t)
  PROVE  /\ Counted'
         /\ \A u \in Threads \ {t} : pc'[u] = pc[u] /\ held'[u] = held[u]
         /\ \A u \in Threads : pc'[u] = "retain" => held'[u] > 0
<1> USE BoundsAssumption DEF SuspendInv, CountConserved, TypeOK, Calls, Counted, Goto, Hold,
        Labels, Suspending, Resuming
<1>1. CASE dispatch_suspend(t)
  BY <1>1 DEF dispatch_suspend
<1>2. CASE queue_suspend(t)
  BY <1>2 DEF queue_suspend
<1>3. CASE suspend_retain(t)
  BY <1>3 DEF suspend_retain
<1>4. CASE sidelock_lock(t, "suspend_lock", "suspend_move")
  BY <1>4 DEF sidelock_lock
<1>5. CASE suspend_slow(t)
  BY <1>5 DEF suspend_slow
<1>6. CASE suspend_side(t)
  BY <1>6 DEF suspend_side
<1>7. CASE dispatch_resume(t)
  <2>1. held[t] - 1 \in 0..MaxHeld
    BY <1>7 DEF dispatch_resume
  <2> QED
    BY <1>7, <2>1 DEF dispatch_resume
<1>8. CASE resume_source(t)
  BY <1>8 DEF resume_source
<1>9. CASE queue_resume(t)
  BY <1>9 DEF queue_resume
<1>10. CASE sidelock_lock(t, "resume_lock", "resume_move")
  BY <1>10 DEF sidelock_lock
<1>11. CASE resume_slow(t)
  BY <1>11 DEF resume_slow
<1>12. CASE resume_side(t)
  BY <1>12 DEF resume_side
<1>13. CASE resume_wakeup(t)
  BY <1>13 DEF resume_wakeup
<1>14. CASE finalize_activation(t)
  BY <1>14 DEF finalize_activation
<1>15. CASE dispatch_activate(t)
  BY <1>15 DEF dispatch_activate
<1>16. CASE try_inactive_suspend(t)
  BY <1>16 DEF try_inactive_suspend
<1>17. CASE set_in_place(t)
  BY <1>17 DEF set_in_place
<1> QED
  BY <1>1, <1>2, <1>3, <1>4, <1>5, <1>6, <1>7, <1>8, <1>9, <1>10, <1>11, <1>12,
     <1>13, <1>14, <1>15, <1>16, <1>17 DEF Moves, Step

\* What a thread owes beyond what it holds, by its label.
Weight(l) == IF l \in Resuming THEN 1 ELSE IF l \in Suspending THEN -1 ELSE 0
One(l, m) == IF l = m THEN 1 ELSE 0

LEMMA OwesIs ==
  ASSUME Counted, NEW u \in Threads
  PROVE  Owes(u) = held[u] + Weight(pc[u]) /\ held[u] \in 0..MaxHeld
BY BoundsAssumption DEF Owes, Wants, Weight, Counted, Resuming, Suspending

(* All that one step changes in the counts, by the labels it leads from and to.*)
LEMMA Effects ==
  ASSUME SuspendInv, NEW t \in Threads, Moves(t), NEW a, NEW b, pc[t] = a, pc'[t] = b
  PROVE  /\ Owed \in Nat /\ Owed' \in Nat
         /\ held[t] \in Nat /\ held'[t] \in Nat
         /\ Owed' = Owed + (held'[t] + Weight(b)) - (held[t] + Weight(a))
         /\ InTransit \in Int /\ InTransit' \in Int
         /\ InTransit' = InTransit
              + (IF b = "suspend_side" THEN Half ELSE 0) - (IF a = "suspend_side" THEN Half ELSE 0)
              - (IF b = "resume_side" THEN Half ELSE 0) + (IF a = "resume_side" THEN Half ELSE 0)
         /\ \A m \in Labels : /\ At({m}) \in Nat /\ At({m})' \in Nat
                              /\ At({m})' = At({m}) + One(b, m) - One(a, m)
<1>1. Counted /\ Counted' /\ \A u \in Threads \ {t} : pc'[u] = pc[u] /\ held'[u] = held[u]
  BY InvCounted, ShapeStep
<1>2. Owed \in Nat /\ Owed' \in Nat /\ Owed' = Owed + Owes(t)' - Owes(t)
  BY <1>1, OwedMoves
<1>3. held[t] \in Nat /\ Owes(t) = held[t] + Weight(a)
  BY <1>1, OwesIs, BoundsAssumption
<1>4. held'[t] \in Nat /\ Owes(t)' = held'[t] + Weight(b)
  BY <1>1, BoundsAssumption DEF Owes, Wants, Weight, Counted, Resuming, Suspending
<1>5. /\ InTransit \in Int /\ InTransit' \in Int
      /\ InTransit' = InTransit
              + (IF b = "suspend_side" THEN Half ELSE 0) - (IF a = "suspend_side" THEN Half ELSE 0)
              - (IF b = "resume_side" THEN Half ELSE 0) + (IF a = "resume_side" THEN Half ELSE 0)
  BY <1>1, TransitMoves
<1>6. ASSUME NEW m \in Labels
      PROVE  /\ At({m}) \in Nat /\ At({m})' \in Nat
             /\ At({m})' = At({m}) + One(b, m) - One(a, m)
  <2>1. /\ At({m}) \in Nat /\ At({m})' \in Nat
        /\ At({m})' = At({m}) + (IF pc'[t] \in {m} THEN 1 ELSE 0) - (IF pc[t] \in {m} THEN 1 ELSE 0)
    BY <1>1, AtMoves
  <2> QED
    BY <2>1 DEF One
<1> QED
  BY <1>2, <1>3, <1>4, <1>5, <1>6

-----------------------------------------------------------------------------
\* The invariant in terms of the inline count and the three bits of dq_state.
Parts(s, h, i, n) ==
  /\ s \in Nat /\ h \in 0..1 /\ i \in 0..1 /\ n \in 0..1
  /\ word = INTERVAL * s + HAS_SIDE * h + INACTIVE * i + n
  /\ s < 2 * Half
  /\ side \in Nat /\ finalized \in Nat
  /\ s + side + InTransit = Owed
  /\ h = 1 <=> side + InTransit > 0
  /\ i = 1 => n = 1
  /\ s > 0 \/ h = 1 \/ i = 1 \/ n = 0
  /\ finalized + At({"finalize"}) + n = 1
  /\ refs = (IF s > 0 \/ h = 1 \/ i = 1 \/ n = 1 THEN 1 ELSE 0) + At({"wake"}) - At({"retain"})

PartsMeaning ==
  \A s \in Nat, h \in 0..1, i \in 0..1, n \in 0..1 : Parts(s, h, i, n) =>
    /\ word \in Nat
    /\ word \div INTERVAL = s
    /\ HasSide(word) <=> h = 1
    /\ Inactive(word) <=> i = 1
    /\ word % 2 = n
    /\ IsSuspended(word) <=> s > 0 \/ h = 1 \/ i = 1 \/ n = 1

LEMMA PartsRead == PartsMeaning
<1> SUFFICES ASSUME NEW s \in Nat, NEW h \in 0..1, NEW i \in 0..1, NEW n \in 0..1,
                    Parts(s, h, i, n)
             PROVE  /\ word \in Nat
                    /\ word \div INTERVAL = s
                    /\ HasSide(word) <=> h = 1
                    /\ Inactive(word) <=> i = 1
                    /\ word % 2 = n
                    /\ IsSuspended(word) <=> s > 0 \/ h = 1 \/ i = 1 \/ n = 1
  BY DEF PartsMeaning
<1>1. PICK w : w = word
  OBVIOUS
<1>2. w = INTERVAL * s + HAS_SIDE * h + INACTIVE * i + n
  BY <1>1 DEF Parts
<1>3. /\ w \in Nat
      /\ w \div INTERVAL = s
      /\ HasSide(w) <=> h = 1
      /\ Inactive(w) <=> i = 1
      /\ w % 2 = n
      /\ IsSuspended(w) <=> s > 0 \/ h = 1 \/ i = 1 \/ n = 1
  BY <1>2 DEF INTERVAL, HAS_SIDE, INACTIVE, NA, HasSide, Inactive, IsSuspended
<1> QED
  BY <1>1, <1>3

LEMMA PartsExist ==
  ASSUME SuspendInv
  PROVE  \E s \in Nat, h \in 0..1, i \in 0..1, n \in 0..1 : Parts(s, h, i, n)
<1>1. word \in Nat /\ word < 16 * Half /\ Half \in Nat
  BY HalfAssumption DEF SuspendInv, CountConserved, TypeOK, Limit, INTERVAL
<1>2. PICK s \in Nat, h \in 0..1, i \in 0..1, n \in 0..1 :
         word = INTERVAL * s + HAS_SIDE * h + INACTIVE * i + n
  BY <1>1, WordParts
<1>3. /\ word \div INTERVAL = s
      /\ HasSide(word) <=> h = 1
      /\ Inactive(word) <=> i = 1
      /\ word % 2 = n
      /\ IsSuspended(word) <=> s > 0 \/ h = 1 \/ i = 1 \/ n = 1
  <2>1. PICK w : w = word
    OBVIOUS
  <2>2. w = INTERVAL * s + HAS_SIDE * h + INACTIVE * i + n
    BY <1>2, <2>1
  <2>3. /\ w \div INTERVAL = s
        /\ HasSide(w) <=> h = 1
        /\ Inactive(w) <=> i = 1
        /\ w % 2 = n
        /\ IsSuspended(w) <=> s > 0 \/ h = 1 \/ i = 1 \/ n = 1
    BY <2>2 DEF INTERVAL, HAS_SIDE, INACTIVE, NA, HasSide, Inactive, IsSuspended
  <2> QED
    BY <2>1, <2>3
<1>4. s < 2 * Half
  BY <1>1, <1>2 DEF INTERVAL, HAS_SIDE, INACTIVE
<1>5. side \in Nat /\ finalized \in Nat /\ s + side + InTransit = Owed
  BY <1>3 DEF SuspendInv, CountConserved, TypeOK
<1>6. h = 1 <=> side + InTransit > 0
  BY <1>3 DEF SuspendInv, Sides
<1>7. (i = 1 => n = 1) /\ finalized + At({"finalize"}) + n = 1
  BY <1>3 DEF SuspendInv, Bits, NA
<1>8. s > 0 \/ h = 1 \/ i = 1 \/ n = 0
  BY <1>2 DEF SuspendInv, Bits, NA, INTERVAL, HAS_SIDE, INACTIVE
<1>9. refs = (IF s > 0 \/ h = 1 \/ i = 1 \/ n = 1 THEN 1 ELSE 0) + At({"wake"}) - At({"retain"})
  <2>1. IsSuspended(word) <=> (s > 0 \/ h = 1 \/ i = 1 \/ n = 1)
    BY <1>3
  <2>2. refs = (IF IsSuspended(word) THEN 1 ELSE 0) + At({"wake"}) - At({"retain"})
    BY DEF SuspendInv, CountConserved, SuspendedReference
  <2> QED
    BY <2>1, <2>2
<1>10. Parts(s, h, i, n)
  BY <1>2, <1>4, <1>5, <1>6, <1>7, <1>8, <1>9 DEF Parts
<1> QED
  BY <1>10

(* Whoever moves counts has the side lock alone, so that nothing else is in    *)
(* transit meanwhile, and nothing is when the lock is free.                   *)
LEMMA TransitIs ==
  ASSUME SuspendInv
  PROVE  /\ (\A u \in Threads : pc[u] \notin {"suspend_side", "resume_side"}) => InTransit = 0
         /\ \A u \in Threads :
              /\ pc[u] \in {"suspend_move", "resume_move"} => InTransit = 0
              /\ pc[u] = "suspend_side" => InTransit = Half
              /\ pc[u] = "resume_side" => InTransit = -Half
         /\ InTransit \in {-Half, 0, Half}
<1>0. Half \in Nat /\ IsFiniteSet(Threads)
  BY HalfAssumption, ThreadsAssumption
<1>1. ASSUME NEW m, \A u \in Threads : pc[u] # m PROVE At({m}) = 0
  <2>1. At({m}) \in Nat /\ (At({m}) > 0 <=> \E u \in Threads : pc[u] \in {m})
    BY AtNat
  <2> QED
    BY <1>1, <2>1
<1>2. ASSUME NEW m \in Transfers, NEW t \in Threads, pc[t] = m PROVE At({m}) = 1
  <2>1. \A u \in Threads : pc[u] = m => u = t
    BY <1>2 DEF SuspendInv, Locked
  <2>2. {u \in Threads : pc[u] \in {m}} = {t}
    BY <1>2, <2>1
  <2> QED
    BY <2>2, FS_Singleton DEF At
<1>3. ASSUME NEW t \in Threads, NEW u \in Threads, pc[t] \in Transfers, pc[u] \in Transfers
      PROVE  pc[t] = pc[u]
  BY <1>3 DEF SuspendInv, Locked
<1>4. ASSUME \A u \in Threads : pc[u] \notin {"suspend_side", "resume_side"} PROVE InTransit = 0
  <2>1. At({"suspend_side"}) = 0 /\ At({"resume_side"}) = 0
    BY <1>1, <1>4
  <2> QED
    BY <1>0, <2>1 DEF InTransit
<1>5. ASSUME NEW t \in Threads, pc[t] \in {"suspend_move", "resume_move"} PROVE InTransit = 0
  <2>1. \A u \in Threads : pc[u] \notin {"suspend_side", "resume_side"}
    BY <1>3, <1>5 DEF Transfers
  <2> QED
    BY <1>4, <2>1
<1>6. ASSUME NEW t \in Threads, pc[t] = "suspend_side" PROVE InTransit = Half
  <2>1. At({"suspend_side"}) = 1
    BY <1>2, <1>6 DEF Transfers
  <2>2. At({"resume_side"}) = 0
    BY <1>1, <1>3, <1>6 DEF Transfers
  <2> QED
    BY <1>0, <2>1, <2>2 DEF InTransit
<1>7. ASSUME NEW t \in Threads, pc[t] = "resume_side" PROVE InTransit = -Half
  <2>1. At({"resume_side"}) = 1
    BY <1>2, <1>7 DEF Transfers
  <2>2. At({"suspend_side"}) = 0
    BY <1>1, <1>3, <1>7 DEF Transfers
  <2>3. Half * (0 - 1) = -Half
    BY <1>0
  <2> QED
    BY <2>1, <2>2, <2>3 DEF InTransit
<1> QED
  BY <1>4, <1>5, <1>6, <1>7

(* Every step keeps the parts in balance.                                      *)
LEMMA PartsStep ==
  ASSUME SuspendInv, Apart, Room, NEW t \in Threads, Moves(t)
  PROVE  \E s \in Nat, h \in 0..1, i \in 0..1, n \in 0..1 :
           Parts(s, h, i, n)' /\ (i = 1 => Inactive(word))
<1>1. PICK s \in Nat, h \in 0..1, i \in 0..1, n \in 0..1 : Parts(s, h, i, n)
  BY PartsExist
<1>2. /\ HasSide(word) <=> h = 1
      /\ Inactive(word) <=> i = 1
      /\ IsSuspended(word) <=> s > 0 \/ h = 1 \/ i = 1 \/ n = 1
  BY <1>1, PartsRead DEF PartsMeaning
<1>3. /\ word = 8 * s + 4 * h + 2 * i + n
      /\ s < 2 * Half
      /\ side \in Nat /\ finalized \in Nat
      /\ s + side + InTransit = Owed
      /\ h = 1 <=> side + InTransit > 0
      /\ i = 1 => n = 1
      /\ s > 0 \/ h = 1 \/ i = 1 \/ n = 0
      /\ finalized + At({"finalize"}) + n = 1
      /\ refs = (IF s > 0 \/ h = 1 \/ i = 1 \/ n = 1 THEN 1 ELSE 0) + At({"wake"}) - At({"retain"})
  BY <1>1 DEF Parts, INTERVAL, HAS_SIDE, INACTIVE
<1>4. /\ Counted /\ pc[t] \in Labels /\ pc'[t] \in Labels /\ Half \in Nat /\ Half > 1
      /\ pc \in [Threads -> Labels] /\ held \in [Threads -> 0..MaxHeld]
      /\ held[t] \in 0..MaxHeld /\ MaxHeld \in Nat
  BY InvCounted, ShapeStep, HalfAssumption, BoundsAssumption DEF Counted
<1>5. ASSUME NEW a, NEW b, pc[t] = a, pc'[t] = b
      PROVE  /\ Owed \in Nat /\ Owed' \in Nat
             /\ held[t] \in Nat /\ held'[t] \in Nat
             /\ Owed' = Owed + (held'[t] + Weight(b)) - (held[t] + Weight(a))
             /\ InTransit \in Int /\ InTransit' \in Int
             /\ InTransit' = InTransit
                  + (IF b = "suspend_side" THEN Half ELSE 0) - (IF a = "suspend_side" THEN Half ELSE 0)
                  - (IF b = "resume_side" THEN Half ELSE 0) + (IF a = "resume_side" THEN Half ELSE 0)
             /\ At({"finalize"}) \in Nat /\ At({"finalize"})' \in Nat
             /\ At({"finalize"})' = At({"finalize"}) + One(b, "finalize") - One(a, "finalize")
             /\ At({"wake"}) \in Nat /\ At({"wake"})' \in Nat
             /\ At({"wake"})' = At({"wake"}) + One(b, "wake") - One(a, "wake")
             /\ At({"retain"}) \in Nat /\ At({"retain"})' \in Nat
             /\ At({"retain"})' = At({"retain"}) + One(b, "retain") - One(a, "retain")
  <2>1. {"finalize", "wake", "retain"} \subseteq Labels
    BY DEF Labels, Resuming
  <2> QED
    BY <1>5, <2>1, Effects
<1>6. \A l \in {"idle", "suspend", "suspend_lock", "suspend_move", "retain", "suspend_side",
                "resume", "resume_lock", "resume_move", "set", "finalize", "resume_side", "wake"} :
        /\ Weight(l) = IF l \in {"resume", "resume_lock", "resume_move", "set", "finalize"} THEN 1
                       ELSE IF l \in {"suspend", "suspend_lock", "suspend_move"} THEN -1 ELSE 0
        /\ One(l, "finalize") = IF l = "finalize" THEN 1 ELSE 0
        /\ One(l, "wake") = IF l = "wake" THEN 1 ELSE 0
        /\ One(l, "retain") = IF l = "retain" THEN 1 ELSE 0
  BY DEF Weight, One, Resuming, Suspending
<1> DEFINE Change(owed, moved, final, wakes, retains) ==
             /\ Owed \in Nat /\ InTransit \in Int
             /\ Owed' = Owed + owed /\ InTransit' = InTransit + moved
             /\ At({"finalize"}) \in Nat /\ At({"finalize"})' = At({"finalize"}) + final
             /\ At({"wake"}) \in Nat /\ At({"wake"})' = At({"wake"}) + wakes
             /\ At({"retain"}) \in Nat /\ At({"retain"})' = At({"retain"}) + retains
           Goal == \E s2 \in Nat, h2 \in 0..1, i2 \in 0..1, n2 \in 0..1 :
                     Parts(s2, h2, i2, n2)' /\ (i2 = 1 => Inactive(word))
<1> SUFFICES Goal
  OBVIOUS
<1> HIDE DEF Goal
<1>11. CASE dispatch_suspend(t)
  <2>1. pc[t] = "idle" /\ pc'[t] = "suspend" /\ held'[t] = held[t] + 1
    BY <1>4, <1>11 DEF dispatch_suspend, Goto, Hold
  <2>2. word' = word /\ side' = side /\ refs' = refs /\ finalized' = finalized
    BY <1>11 DEF dispatch_suspend
  <2>0. Change(0, 0, 0, 0, 0)
    BY SMTT(60), <1>4, <1>5, <1>6, <2>1, <2>2
  <2>3. Parts(s, h, i, n)'
    BY <1>3, <1>4, <2>1, <2>2, <2>0 DEF Parts, INTERVAL, HAS_SIDE, INACTIVE
  <2> QED
    BY <1>2, <2>3 DEF Goal
<1>12. CASE queue_suspend(t)
  <2>1. pc[t] = "suspend" /\ held'[t] = held[t] /\ held[t] > 0
    BY <1>4, <1>12 DEF queue_suspend, Goto, Counted, Suspending
  <2>2. side' = side /\ refs' = refs /\ finalized' = finalized
    BY <1>12 DEF queue_suspend
  <2>3. CASE word + INTERVAL < Limit /\ word' = word + INTERVAL /\ pc'[t] = "retain" /\ ~IsSuspended(word)
    <3>1. s = 0 /\ h = 0 /\ i = 0 /\ n = 0 /\ word' = 8
      BY <1>2, <1>3, <2>3 DEF INTERVAL
    <3>0. Change(1, 0, 0, 0, 1)
      BY <1>4, <1>5, <1>6, <2>1, <2>2, <2>3, <3>1
    <3>2. Parts(1, h, i, n)'
      BY <1>3, <1>4, <2>1, <2>2, <2>3, <3>1, <3>0 DEF Parts, INTERVAL, HAS_SIDE, INACTIVE
    <3> QED
      BY <1>2, <3>2 DEF Goal
  <2>4. CASE word + INTERVAL < Limit /\ word' = word + INTERVAL /\ pc'[t] = "idle" /\ IsSuspended(word)
    <3>1. s + 1 < 2 * Half /\ word' = word + 8
      BY <1>3, <1>4, <2>4 DEF INTERVAL, Limit
    <3>2. s > 0 \/ h = 1 \/ i = 1 \/ n = 1
      BY <1>2, <2>4
    <3>0. Change(1, 0, 0, 0, 0)
      BY <1>4, <1>5, <1>6, <2>1, <2>2, <2>4, <3>1, <3>2
    <3>3. Parts(s + 1, h, i, n)'
      BY <3>0, <1>3, <1>4, <2>1, <2>2, <2>4, <3>1, <3>2 DEF Parts, INTERVAL, HAS_SIDE, INACTIVE
    <3> QED
      BY <1>2, <3>3 DEF Goal
  <2>5. CASE word' = word /\ pc'[t] = "suspend_lock"
    <3>0. Change(0, 0, 0, 0, 0)
      BY <1>4, <1>5, <1>6, <2>1, <2>2, <2>5
    <3>1. Parts(s, h, i, n)'
      BY <3>0, <1>3, <1>4, <2>1, <2>2, <2>5 DEF Parts, INTERVAL, HAS_SIDE, INACTIVE
    <3> QED
      BY <1>2, <3>1 DEF Goal
  <2> QED
    BY <1>4, <1>12, <2>3, <2>4, <2>5 DEF queue_suspend, Goto, NeedsRetain
<1>13. CASE suspend_retain(t)
  <2>1. pc[t] = "retain" /\ pc'[t] = "idle" /\ held'[t] = held[t]
    BY <1>4, <1>13 DEF suspend_retain, Goto
  <2>2. word' = word /\ side' = side /\ refs' = refs + 1 /\ finalized' = finalized
    BY <1>13 DEF suspend_retain
  <2>0. Change(0, 0, 0, 0, -1)
    BY <1>4, <1>5, <1>6, <2>1, <2>2
  <2>3. Parts(s, h, i, n)'
    BY <2>0, <1>3, <1>4, <2>1, <2>2 DEF Parts, INTERVAL, HAS_SIDE, INACTIVE
  <2> QED
    BY <1>2, <2>3 DEF Goal
<1>14. CASE sidelock_lock(t, "suspend_lock", "suspend_move")
  <2>1. pc[t] = "suspend_lock" /\ pc'[t] = "suspend_move" /\ held'[t] = held[t]
    BY <1>4, <1>14 DEF sidelock_lock, Goto
  <2>2. word' = word /\ side' = side /\ refs' = refs /\ finalized' = finalized
    BY <1>14 DEF sidelock_lock
  <2>0. Change(0, 0, 0, 0, 0)
    BY <1>4, <1>5, <1>6, <2>1, <2>2
  <2>3. Parts(s, h, i, n)'
    BY <2>0, <1>3, <1>4, <2>1, <2>2 DEF Parts, INTERVAL, HAS_SIDE, INACTIVE
  <2> QED
    BY <1>2, <2>3 DEF Goal
<1>15. CASE sidelock_lock(t, "resume_lock", "resume_move")
  <2>1. pc[t] = "resume_lock" /\ pc'[t] = "resume_move" /\ held'[t] = held[t]
    BY <1>4, <1>15 DEF sidelock_lock, Goto
  <2>2. word' = word /\ side' = side /\ refs' = refs /\ finalized' = finalized
    BY <1>15 DEF sidelock_lock
  <2>0. Change(0, 0, 0, 0, 0)
    BY <1>4, <1>5, <1>6, <2>1, <2>2
  <2>3. Parts(s, h, i, n)'
    BY <2>0, <1>3, <1>4, <2>1, <2>2 DEF Parts, INTERVAL, HAS_SIDE, INACTIVE
  <2> QED
    BY <1>2, <2>3 DEF Goal
<1>16. CASE suspend_slow(t)
  <2>1. pc[t] = "suspend_move" /\ held'[t] = held[t] /\ InTransit = 0
    BY <1>4, <1>16, TransitIs DEF suspend_slow
  <2>2. side' = side /\ refs' = refs /\ finalized' = finalized
    BY <1>16 DEF suspend_slow
  <2>3. CASE word >= SuspendDelta /\ word' = word - SuspendDelta /\ pc'[t] = "suspend_side"
    <3>1. SuspendDelta = 8 * Half - 8 - (IF side = 0 THEN 4 ELSE 0)
      BY <1>4 DEF SuspendDelta, INTERVAL, HAS_SIDE
    <3>2. s >= Half - 1 /\ word' = 8 * (s - Half + 1) + 4 * 1 + 2 * i + n
      BY <1>3, <1>4, <2>1, <2>3, <3>1
    <3>3. s > 0
      BY <1>4, <3>2
    <3>0. Change(1, Half, 0, 0, 0)
      BY <1>4, <1>5, <1>6, <2>1, <2>2, <2>3, <3>2, <3>3
    <3>4. Parts(s - Half + 1, 1, i, n)'
      BY <3>0, <1>3, <1>4, <2>1, <2>2, <2>3, <3>2, <3>3 DEF Parts, INTERVAL, HAS_SIDE, INACTIVE
    <3> QED
      BY <1>2, <1>4, <3>2, <3>4 DEF Goal
  <2>4. CASE word' = word /\ pc'[t] = "suspend"
    <3>0. Change(0, 0, 0, 0, 0)
      BY <1>4, <1>5, <1>6, <2>1, <2>2, <2>4
    <3>1. Parts(s, h, i, n)'
      BY <3>0, <1>3, <1>4, <2>1, <2>2, <2>4 DEF Parts, INTERVAL, HAS_SIDE, INACTIVE
    <3> QED
      BY <1>2, <3>1 DEF Goal
  <2> QED
    BY <1>4, <1>16, <2>3, <2>4 DEF suspend_slow, Goto
<1>17. CASE suspend_side(t)
  <2>1. pc[t] = "suspend_side" /\ pc'[t] = "idle" /\ held'[t] = held[t] /\ InTransit = Half
    BY <1>4, <1>17, TransitIs DEF suspend_side, Goto
  <2>2. word' = word /\ side' = side + Half /\ refs' = refs /\ finalized' = finalized
    BY <1>17 DEF suspend_side
  <2>0. Change(0, -Half, 0, 0, 0)
    BY <1>4, <1>5, <1>6, <2>1, <2>2
  <2>3. Parts(s, h, i, n)'
    BY <2>0, <1>3, <1>4, <2>1, <2>2 DEF Parts, INTERVAL, HAS_SIDE, INACTIVE
  <2> QED
    BY <1>2, <2>3 DEF Goal
<1>18. CASE dispatch_resume(t)
  <2>1. pc[t] = "idle" /\ pc'[t] = "resume" /\ held'[t] = held[t] - 1
    BY <1>4, <1>18 DEF dispatch_resume, Goto, Hold
  <2>2. word' = word /\ side' = side /\ refs' = refs /\ finalized' = finalized
    BY <1>18 DEF dispatch_resume
  <2>0. Change(0, 0, 0, 0, 0)
    <3>1. Weight("idle") = 0 /\ Weight("resume") = 1
      BY <1>6
    <3>2. Owed \in Nat /\ Owed' = Owed + (held'[t] + Weight("resume")) - (held[t] + Weight("idle"))
      BY <1>5, <2>1
    <3>3. Owed' = Owed
      BY <1>4, <2>1, <3>1, <3>2
    <3> QED
      BY <1>5, <1>6, <2>1, <3>2, <3>3
  <2>3. Parts(s, h, i, n)'
    BY <1>3, <1>4, <2>1, <2>2, <2>0 DEF Parts, INTERVAL, HAS_SIDE, INACTIVE
  <2> QED
    BY <1>2, <2>3 DEF Goal
<1>19. CASE queue_resume(t)
  <2>1. pc[t] = "resume" /\ held'[t] = held[t] /\ Owed >= 1
    <3>1. pc[t] = "resume" /\ held'[t] = held[t]
      BY <1>19 DEF queue_resume
    <3>2. Owes(t) = held[t] + Weight("resume") /\ Owed >= Owes(t)
      BY <1>4, <3>1, OwesIs, OwedIsSum
    <3>3. Owed \in Nat /\ Weight("resume") = 1
      BY <1>4, <1>6, OwedIsSum
    <3> QED
      BY <1>4, <3>1, <3>2, <3>3
  <2>2. side' = side /\ refs' = refs /\ finalized' = finalized
    BY <1>19 DEF queue_resume
  <2>3. ~(s = 0 /\ h = 0) /\ ~ActivatesSource(word)
    <3>1. ~(s = 0 /\ h = 0)
      <4>1. Owed \in Nat /\ InTransit \in Int
        BY <1>5
      <4> QED
        BY <1>3, <2>1, <4>1
    <3> QED
      BY <1>3, <3>1 DEF ActivatesSource, NA, INACTIVE
  <2>4. CASE Finalizes(word) /\ word' = Activated /\ pc'[t] = "finalize"
    <3>1. s = 1 /\ h = 0 /\ i = 0 /\ n = 1 /\ word' = 8
      BY <1>3, <2>4 DEF Finalizes, Activated, INTERVAL, NA
    <3>0. Change(0, 0, 1, 0, 0)
      BY <1>4, <1>5, <1>6, <2>1, <2>2, <2>4, <3>1
    <3>2. Parts(1, 0, 0, 0)'
      BY <1>3, <1>4, <2>1, <2>2, <2>4, <3>1, <3>0 DEF Parts, INTERVAL, HAS_SIDE, INACTIVE
    <3> QED
      BY <1>2, <3>2 DEF Goal
  <2>5. CASE ~Finalizes(word) /\ word >= INTERVAL /\ word' = word - INTERVAL
             /\ pc'[t] = IF IsSuspended(word') THEN "idle" ELSE "wake"
    <3>1. s >= 1 /\ word' = 8 * (s - 1) + 4 * h + 2 * i + n
      BY <1>3, <2>5 DEF INTERVAL
    <3>2. ~(s = 1 /\ h = 0 /\ i = 0 /\ n = 1)
      BY <1>3, <2>5 DEF Finalizes, INTERVAL, NA
    <3>3. IsSuspended(word') <=> s - 1 > 0 \/ h = 1 \/ i = 1 \/ n = 1
      BY <3>1 DEF IsSuspended, NA
    <3>4. CASE IsSuspended(word')
      <4>1. pc'[t] = "idle" /\ (s - 1 > 0 \/ h = 1 \/ i = 1 \/ n = 1)
        BY <2>5, <3>3, <3>4
      <4>0. Change(-1, 0, 0, 0, 0)
        BY <1>4, <1>5, <1>6, <2>1, <2>2, <3>1, <3>2, <4>1
      <4>2. Parts(s - 1, h, i, n)'
        BY <4>0, <1>3, <1>4, <2>1, <2>2, <3>1, <3>2, <4>1 DEF Parts, INTERVAL, HAS_SIDE, INACTIVE
      <4> QED
        BY <1>2, <3>1, <4>2 DEF Goal
    <3>5. CASE ~IsSuspended(word')
      <4>1. pc'[t] = "wake" /\ s = 1 /\ h = 0 /\ i = 0 /\ n = 0
        BY <2>5, <3>1, <3>3, <3>5
      <4>0. Change(-1, 0, 0, 1, 0)
        BY <1>4, <1>5, <1>6, <2>1, <2>2, <3>1, <3>2, <4>1
      <4>2. Parts(0, 0, 0, 0)'
        BY <1>3, <1>4, <2>1, <2>2, <3>1, <3>2, <4>1, <4>0 DEF Parts, INTERVAL, HAS_SIDE, INACTIVE
      <4> QED
        BY <1>2, <4>2 DEF Goal
    <3> QED
      BY <3>4, <3>5
  <2>6. CASE word < INTERVAL /\ word' = word /\ pc'[t] = IF HasSide(word) THEN "resume_lock" ELSE "over_resume"
    <3>1. pc'[t] = "resume_lock"
      BY <1>2, <1>3, <2>3, <2>6 DEF INTERVAL
    <3>0. Change(0, 0, 0, 0, 0)
      BY <1>4, <1>5, <1>6, <2>1, <2>2, <2>6, <3>1
    <3>2. Parts(s, h, i, n)'
      BY <1>3, <1>4, <2>1, <2>2, <2>6, <3>1, <3>0 DEF Parts, INTERVAL, HAS_SIDE, INACTIVE
    <3> QED
      BY <1>2, <3>2 DEF Goal
  <2> QED
    BY <1>4, <1>19, <2>3, <2>4, <2>5, <2>6 DEF queue_resume, Goto
<1>20. CASE resume_source(t)
  <2>1. pc[t] = "idle" /\ held'[t] = held[t] /\ IsSource /\ Inactive(word)
    BY <1>20 DEF resume_source
  <2>2. side' = side /\ refs' = refs /\ finalized' = finalized
    BY <1>20 DEF resume_source
  <2>3. \A u \in Threads : held[u] = 0 /\ pc[u] = "idle"
    <3>1. "setters" \notin use
      <4>1. use \in SUBSET {"source", "setters"} /\ use # {"source", "setters"} /\ "source" \in use
        BY <2>1, UsesAssumption DEF IsSource, Apart, SuspendInv, CountConserved, TypeOK
      <4> QED
        BY <4>1
    <3> QED
      BY <1>20, <3>1 DEF resume_source, SuspendInv, Calls
  <2>4. Owed = 0
    <3>1. \A u \in Threads : Owes(u) = 0
      BY <1>4, <1>6, <2>3, OwesIs
    <3> QED
      BY <1>4, <3>1, OwedIsSum
  <2>5. InTransit = 0
    BY <2>3, TransitIs
  <2>6. s = 0 /\ h = 0 /\ i = 1 /\ n = 1 /\ side = 0 /\ word = 3
    BY <1>2, <1>3, <2>1, <2>4, <2>5
  <2>7. word' = 8 /\ pc'[t] = "finalize"
    BY <1>4, <1>20, <2>1, <2>6 DEF resume_source, ActivatesSource, Activated, INTERVAL, NA, INACTIVE, Goto
  <2>0. Change(1, 0, 1, 0, 0)
    BY <1>4, <1>5, <1>6, <2>1, <2>2, <2>6, <2>7
  <2>8. Parts(1, 0, 0, 0)'
    BY <2>0, <1>3, <1>4, <2>1, <2>2, <2>6, <2>7 DEF Parts, INTERVAL, HAS_SIDE, INACTIVE
  <2> QED
    BY <1>2, <2>8 DEF Goal
<1>21. CASE resume_slow(t)
  <2>1. pc[t] = "resume_move" /\ held'[t] = held[t] /\ InTransit = 0
    BY <1>4, <1>21, TransitIs DEF resume_slow
  <2>2. side' = side /\ refs' = refs /\ finalized' = finalized
    BY <1>21 DEF resume_slow
  <2>3. CASE side > 0 /\ word + ResumeDelta < Limit /\ word' = word + ResumeDelta /\ pc'[t] = "resume_side"
    <3>0. PICK k \in Nat : side = k * Half
      BY <1>3 DEF SuspendInv, Sides
    <3>1. ResumeDelta = 8 * Half - 8 - (IF side = Half THEN 4 ELSE 0)
      BY <1>4 DEF ResumeDelta, INTERVAL, HAS_SIDE
    <3>2. h = 1 /\ side >= Half
      <4>1. k >= 1
        BY <1>4, <2>3, <3>0
      <4>2. k * Half >= Half
        BY <1>4, <4>1
      <4> QED
        BY <1>3, <2>1, <2>3, <3>0, <4>2
    <3>3. CASE side = Half
      <4>1. word' = 8 * (s + Half - 1) + 4 * 0 + 2 * i + n /\ s + Half - 1 < 2 * Half /\ s + Half - 1 > 0
        BY <1>3, <1>4, <2>3, <3>1, <3>2, <3>3 DEF Limit, INTERVAL
      <4>0. Change(-1, -Half, 0, 0, 0)
        BY <1>4, <1>5, <1>6, <2>1, <2>2, <2>3, <3>2, <3>3, <4>1
      <4>2. Parts(s + Half - 1, 0, i, n)'
        BY <4>0, <1>3, <1>4, <2>1, <2>2, <2>3, <3>2, <3>3, <4>1 DEF Parts, INTERVAL, HAS_SIDE, INACTIVE
      <4> QED
        BY <1>2, <1>4, <4>2 DEF Goal
    <3>4. CASE side # Half
      <4>1. word' = 8 * (s + Half - 1) + 4 * 1 + 2 * i + n /\ s + Half - 1 < 2 * Half /\ side > Half
        BY <1>3, <1>4, <2>3, <3>1, <3>2, <3>4 DEF Limit, INTERVAL
      <4>0. Change(-1, -Half, 0, 0, 0)
        BY <1>4, <1>5, <1>6, <2>1, <2>2, <2>3, <3>2, <3>4, <4>1
      <4>2. Parts(s + Half - 1, 1, i, n)'
        BY <4>0, <1>3, <1>4, <2>1, <2>2, <2>3, <3>2, <3>4, <4>1 DEF Parts, INTERVAL, HAS_SIDE, INACTIVE
      <4> QED
        BY <1>2, <1>4, <4>2 DEF Goal
    <3> QED
      BY <3>3, <3>4
  <2>4. CASE word' = word /\ pc'[t] = "resume"
    <3>0. Change(0, 0, 0, 0, 0)
      BY <1>4, <1>5, <1>6, <2>1, <2>2, <2>4
    <3>1. Parts(s, h, i, n)'
      BY <3>0, <1>3, <1>4, <2>1, <2>2, <2>4 DEF Parts, INTERVAL, HAS_SIDE, INACTIVE
    <3> QED
      BY <1>2, <3>1 DEF Goal
  <2> QED
    BY <1>4, <1>21, <2>3, <2>4 DEF resume_slow, Goto
<1>22. CASE resume_side(t)
  <2>1. pc[t] = "resume_side" /\ pc'[t] = "idle" /\ held'[t] = held[t] /\ InTransit = -Half
    BY <1>4, <1>22, TransitIs DEF resume_side, Goto
  <2>2. word' = word /\ side' = side - Half /\ refs' = refs /\ finalized' = finalized
    BY <1>22 DEF resume_side
  <2>3. side >= Half
    <3>1. side > 0
      <4>1. At({"resume_side"}) > 0
        BY <2>1, AtNat
      <4> QED
        BY <4>1 DEF SuspendInv, Sides
    <3>2. PICK k \in Nat : side = k * Half
      BY <1>3 DEF SuspendInv, Sides
    <3>3. k >= 1
      BY <1>4, <3>1, <3>2
    <3>4. k * Half >= Half
      BY <1>4, <3>3
    <3> QED
      BY <3>2, <3>4
  <2>0. Change(0, Half, 0, 0, 0)
    BY SMTT(60), <1>4, <1>5, <1>6, <2>1, <2>2, <2>3
  <2>4. side' \in Nat /\ side' + InTransit' = side + InTransit
    BY <1>3, <1>4, <2>2, <2>3, <2>0
  <2>5. Parts(s, h, i, n)'
    <3>1. word' = INTERVAL * s + HAS_SIDE * h + INACTIVE * i + n
      BY <1>3, <2>2 DEF INTERVAL, HAS_SIDE, INACTIVE
    <3>2. finalized' \in Nat /\ finalized' + At({"finalize"})' + n = 1
      BY <1>3, <2>0, <2>2
    <3>3. refs' = (IF s > 0 \/ h = 1 \/ i = 1 \/ n = 1 THEN 1 ELSE 0) + At({"wake"})' - At({"retain"})'
      BY <1>3, <2>0, <2>2
    <3>4. s + side' + InTransit' = Owed' /\ (h = 1 <=> side' + InTransit' > 0)
      BY <1>3, <2>0, <2>2, <2>4
    <3> QED
      BY <1>3, <2>4, <3>1, <3>2, <3>3, <3>4 DEF Parts
  <2> QED
    BY <1>2, <2>5 DEF Goal
<1>23. CASE resume_wakeup(t)
  <2>1. pc[t] = "wake" /\ pc'[t] = "idle" /\ held'[t] = held[t]
    BY <1>4, <1>23 DEF resume_wakeup, Goto
  <2>2. word' = word /\ side' = side /\ refs' = refs - 1 /\ finalized' = finalized
    BY <1>23 DEF resume_wakeup
  <2>0. Change(0, 0, 0, -1, 0)
    BY <1>4, <1>5, <1>6, <2>1, <2>2
  <2>3. Parts(s, h, i, n)'
    BY <2>0, <1>3, <1>4, <2>1, <2>2 DEF Parts, INTERVAL, HAS_SIDE, INACTIVE
  <2> QED
    BY <1>2, <2>3 DEF Goal
<1>24. CASE finalize_activation(t)
  <2>1. pc[t] = "finalize" /\ pc'[t] = "resume" /\ held'[t] = held[t]
    BY <1>4, <1>24 DEF finalize_activation, Goto
  <2>2. word' = word /\ side' = side /\ refs' = refs /\ finalized' = finalized + 1
    BY <1>24 DEF finalize_activation
  <2>0. Change(0, 0, -1, 0, 0)
    BY <1>4, <1>5, <1>6, <2>1, <2>2
  <2>3. Parts(s, h, i, n)'
    BY <1>3, <1>4, <2>1, <2>2, <2>0 DEF Parts, INTERVAL, HAS_SIDE, INACTIVE
  <2> QED
    BY <1>2, <2>3 DEF Goal
<1>25. CASE dispatch_activate(t)
  <2>1. pc[t] = "idle" /\ held'[t] = held[t]
    BY <1>25 DEF dispatch_activate
  <2>2. side' = side /\ refs' = refs /\ finalized' = finalized
    BY <1>25 DEF dispatch_activate
  <2>3. CASE ActivatesNow(word) /\ word' = word - INACTIVE - NA + INTERVAL /\ pc'[t] = "finalize"
    <3>1. s = 0 /\ h = 0 /\ i = 1 /\ n = 1 /\ word' = 8
      BY <1>3, <2>3 DEF ActivatesNow, NA, INACTIVE, INTERVAL
    <3>0. Change(1, 0, 1, 0, 0)
      BY <1>4, <1>5, <1>6, <2>1, <2>2, <2>3, <3>1
    <3>2. Parts(1, 0, 0, 0)'
      BY <3>0, <1>3, <1>4, <2>1, <2>2, <2>3, <3>1 DEF Parts, INTERVAL, HAS_SIDE, INACTIVE
    <3> QED
      BY <1>2, <3>2 DEF Goal
  <2>4. CASE ~ActivatesNow(word) /\ Inactive(word) /\ word' = word - INACTIVE /\ pc'[t] = "idle"
    <3>1. i = 1 /\ n = 1 /\ word' = 8 * s + 4 * h + 2 * 0 + n /\ (s > 0 \/ h = 1)
      BY <1>2, <1>3, <2>4 DEF ActivatesNow, NA, INACTIVE
    <3>0. Change(0, 0, 0, 0, 0)
      BY <1>4, <1>5, <1>6, <2>1, <2>2, <2>4, <3>1
    <3>2. Parts(s, h, 0, n)'
      BY <3>0, <1>3, <1>4, <2>1, <2>2, <2>4, <3>1 DEF Parts, INTERVAL, HAS_SIDE, INACTIVE
    <3> QED
      BY <1>2, <3>2 DEF Goal
  <2> QED
    BY <1>4, <1>25, <2>1, <2>3, <2>4 DEF dispatch_activate, Goto
<1>26. CASE try_inactive_suspend(t)
  <2>1. pc[t] = "idle" /\ held'[t] = held[t] /\ "setters" \in use /\ t \in Setters /\ Inactive(word)
    BY <1>26 DEF try_inactive_suspend
  <2>2. side' = side /\ refs' = refs /\ finalized' = finalized
    BY <1>26 DEF try_inactive_suspend
  <2>3. side = 0 /\ InTransit = 0
    <3>1. side = 0 /\ \A u \in Threads : pc[u] \notin Transfers
      BY <2>1 DEF SuspendInv, Shallow
    <3> QED
      BY <3>1, TransitIs DEF Transfers
  <2>4. Owed + 1 < 2 * Half
    <3>1. SetterHeld \in Nat
      BY BoundsAssumption
    <3>2. ASSUME NEW u \in Threads
          PROVE  Owes(u) =< SetterHeld + (IF u \in Setters THEN 1 ELSE 0)
      <4>1. Wants(u) =< SetterHeld + (IF u \in Setters THEN 1 ELSE 0)
        BY <2>1 DEF SuspendInv, Shallow
      <4>2. held[u] \in Nat
        BY <1>4
      <4> QED
        BY <3>1, <4>1, <4>2 DEF Owes, Wants
    <3>3. Owes(t) < SetterHeld + (IF t \in Setters THEN 1 ELSE 0)
      <4>1. held[t] =< SetterHeld
        BY <2>1 DEF SuspendInv, Shallow
      <4>2. Owes(t) = held[t]
        BY <1>4, <1>6, <2>1, OwesIs
      <4> QED
        BY <1>4, <2>1, <3>1, <4>1, <4>2
    <3>4. use \in Uses
      BY DEF SuspendInv, CountConserved, TypeOK
    <3> QED
      BY <1>4, <2>1, <3>2, <3>3, <3>4, RoomLeft
  <2>5. h = 0 /\ s + 1 < 2 * Half /\ i = 1
    BY <1>2, <1>3, <1>4, <2>1, <2>3, <2>4
  <2>6. word' = word + 8 /\ pc'[t] = "set"
    <3>1. word + 8 < Limit /\ word + 8 \in Nat /\ Limit \in Nat
      BY <1>3, <1>4, <2>5 DEF Limit, INTERVAL
    <3>2. (word + 8) % Limit = word + 8
      BY <3>1
    <3> QED
      BY <1>2, <1>4, <1>26, <2>5, <3>2 DEF try_inactive_suspend, Goto, INTERVAL
  <2>0. Change(1, 0, 0, 0, 0)
    BY <1>4, <1>5, <1>6, <2>1, <2>2, <2>3, <2>5, <2>6
  <2>7. Parts(s + 1, h, i, n)'
    BY <2>0, <1>3, <1>4, <2>1, <2>2, <2>3, <2>5, <2>6 DEF Parts, INTERVAL, HAS_SIDE, INACTIVE
  <2> QED
    BY <1>2, <2>7 DEF Goal
<1>27. CASE set_in_place(t)
  <2>1. pc[t] = "set" /\ pc'[t] = "resume" /\ held'[t] = held[t]
    BY <1>4, <1>27 DEF set_in_place, Goto
  <2>2. word' = word /\ side' = side /\ refs' = refs /\ finalized' = finalized
    BY <1>27 DEF set_in_place
  <2>0. Change(0, 0, 0, 0, 0)
    BY <1>4, <1>5, <1>6, <2>1, <2>2
  <2>3. Parts(s, h, i, n)'
    BY SMTT(60), <2>0, <1>3, <1>4, <2>1, <2>2 DEF Parts, INTERVAL, HAS_SIDE, INACTIVE
  <2> QED
    BY <1>2, <2>3 DEF Goal
<1> QED
  BY <1>11, <1>12, <1>13, <1>14, <1>15, <1>16, <1>17, <1>18, <1>19, <1>20, <1>21, <1>22,
     <1>23, <1>24, <1>25, <1>26, <1>27 DEF Moves, Step

-----------------------------------------------------------------------------
\* What is true of the state before a step when its thread comes to a label.
Entries(t) ==
  /\ pc'[t] = "finalize" => word' = INTERVAL
  /\ pc'[t] = "set" => Inactive(word) /\ t \in Setters /\ "setters" \in use
  /\ pc'[t] = "retain" => ~IsSuspended(word)
  /\ pc'[t] = "over_resume" => pc[t] = "resume" /\ word < INTERVAL /\ ~HasSide(word)
  /\ pc'[t] = "too_many_suspends" => "setters" \in use /\ Inactive(word) /\ HasSide(word)
  /\ pc'[t] = "suspend_lock" => pc[t] = "suspend" /\ word + INTERVAL >= Limit
  /\ pc'[t] = "resume_lock" => pc[t] = "resume" /\ HasSide(word)
  /\ pc'[t] = "resume_side" => side > 0 /\ side' = side
  /\ pc'[t] \in Transfers => pc[t] \in Transfers \cup {"suspend_lock", "resume_lock"}
  /\ pc'[t] \in Resuming => \/ pc[t] \in Resuming /\ held'[t] = held[t]
                            \/ held'[t] = held[t] - 1
                            \/ word' = INTERVAL
                            \/ t \in Setters /\ held'[t] = held[t]
  /\ held'[t] # held[t] => held'[t] = held[t] - 1 \/ ("setters" \in use => held'[t] =< SetterHeld)
  /\ side' # side => \/ pc[t] = "suspend_side" /\ side' = side + Half
                     \/ pc[t] = "resume_side" /\ side' = side - Half

LEMMA EntriesStep ==
  ASSUME SuspendInv, Apart, NEW t \in Threads, Moves(t)
  PROVE  Entries(t)
<1> USE DEF Entries, Goto, Hold, Transfers, Resuming
<1>0. /\ pc \in [Threads -> Labels] /\ held \in [Threads -> 0..MaxHeld] /\ MaxHeld \in Nat
      /\ SetterHeld \in Nat
      /\ word \in Nat /\ side \in Nat
  BY BoundsAssumption DEF SuspendInv, CountConserved, TypeOK
<1>1. CASE dispatch_suspend(t)
  <2>1. pc'[t] = "suspend" /\ held'[t] = held[t] + 1 /\ side' = side
    BY <1>0, <1>1 DEF dispatch_suspend
  <2>2. "setters" \in use => held[t] < SetterHeld
    BY <1>1 DEF dispatch_suspend
  <2>3. held[t] \in Nat
    BY <1>0
  <2> QED
    BY <1>0, <2>1, <2>2, <2>3
<1>2. CASE queue_suspend(t)
  BY <1>0, <1>2 DEF queue_suspend, NeedsRetain
<1>3. CASE suspend_retain(t)
  BY <1>0, <1>3 DEF suspend_retain
<1>4. CASE sidelock_lock(t, "suspend_lock", "suspend_move")
  BY <1>0, <1>4 DEF sidelock_lock
<1>5. CASE suspend_slow(t)
  BY <1>0, <1>5 DEF suspend_slow
<1>6. CASE suspend_side(t)
  BY <1>0, <1>6 DEF suspend_side
<1>7. CASE dispatch_resume(t)
  BY <1>0, <1>7 DEF dispatch_resume
<1>8. CASE resume_source(t)
  BY <1>0, <1>8 DEF resume_source, Activated
<1>9. CASE queue_resume(t)
  BY <1>0, <1>9 DEF queue_resume, Activated
<1>10. CASE sidelock_lock(t, "resume_lock", "resume_move")
  BY <1>0, <1>10 DEF sidelock_lock
<1>11. CASE resume_slow(t)
  BY <1>0, <1>11 DEF resume_slow
<1>12. CASE resume_side(t)
  BY <1>0, <1>12 DEF resume_side
<1>13. CASE resume_wakeup(t)
  BY <1>0, <1>13 DEF resume_wakeup
<1>14. CASE finalize_activation(t)
  BY <1>0, <1>14 DEF finalize_activation
<1>15. CASE dispatch_activate(t)
  BY <1>0, <1>15 DEF dispatch_activate, ActivatesNow, INTERVAL, NA, INACTIVE
<1>16. CASE try_inactive_suspend(t)
  BY <1>0, <1>16 DEF try_inactive_suspend
<1>17. CASE set_in_place(t)
  BY <1>0, <1>17 DEF set_in_place
<1> QED
  BY <1>1, <1>2, <1>3, <1>4, <1>5, <1>6, <1>7, <1>8, <1>9, <1>10, <1>11, <1>12,
     <1>13, <1>14, <1>15, <1>16, <1>17 DEF Moves, Step

(* The side lock is held by the thread that moves counts.                     *)
LEMMA LockedStep ==
  ASSUME SuspendInv, NEW t \in Threads, Moves(t)
  PROVE  /\ Locked' /\ lock' \in Threads \cup {None}
         /\ pc[t] \in {"suspend_side", "resume_side"} => lock' = None
<1> USE ThreadsAssumption DEF Locked, Goto, Transfers
<1>0. /\ pc \in [Threads -> Labels] /\ Locked /\ lock \in Threads \cup {None}
  BY DEF SuspendInv, CountConserved, TypeOK
<1>1. CASE dispatch_suspend(t)
  BY <1>0, <1>1 DEF dispatch_suspend
<1>2. CASE queue_suspend(t)
  BY <1>0, <1>2 DEF queue_suspend
<1>3. CASE suspend_retain(t)
  BY <1>0, <1>3 DEF suspend_retain
<1>4. CASE sidelock_lock(t, "suspend_lock", "suspend_move")
  BY <1>0, <1>4 DEF sidelock_lock
<1>5. CASE suspend_slow(t)
  BY <1>0, <1>5 DEF suspend_slow
<1>6. CASE suspend_side(t)
  BY <1>0, <1>6 DEF suspend_side
<1>7. CASE dispatch_resume(t)
  BY <1>0, <1>7 DEF dispatch_resume
<1>8. CASE resume_source(t)
  BY <1>0, <1>8 DEF resume_source
<1>9. CASE queue_resume(t)
  BY <1>0, <1>9 DEF queue_resume
<1>10. CASE sidelock_lock(t, "resume_lock", "resume_move")
  BY <1>0, <1>10 DEF sidelock_lock
<1>11. CASE resume_slow(t)
  BY <1>0, <1>11 DEF resume_slow
<1>12. CASE resume_side(t)
  BY <1>0, <1>12 DEF resume_side
<1>13. CASE resume_wakeup(t)
  BY <1>0, <1>13 DEF resume_wakeup
<1>14. CASE finalize_activation(t)
  BY <1>0, <1>14 DEF finalize_activation
<1>15. CASE dispatch_activate(t)
  BY <1>0, <1>15 DEF dispatch_activate
<1>16. CASE try_inactive_suspend(t)
  BY <1>0, <1>16 DEF try_inactive_suspend
<1>17. CASE set_in_place(t)
  BY <1>0, <1>17 DEF set_in_place
<1> QED
  BY <1>1, <1>2, <1>3, <1>4, <1>5, <1>6, <1>7, <1>8, <1>9, <1>10, <1>11, <1>12,
     <1>13, <1>14, <1>15, <1>16, <1>17 DEF Moves, Step

-----------------------------------------------------------------------------
\* A thread that has yet to take the reference of a suspended object holds a count.
Retained == /\ \A u \in Threads : pc[u] = "retain" => held[u] > 0
            /\ At({"retain"}) =< 1

LEMMA AtLabel == \A m \in Labels : At({m}) > 0 <=> \E u \in Threads : pc[u] = m
<1> SUFFICES ASSUME NEW m \in Labels PROVE At({m}) > 0 <=> \E u \in Threads : pc[u] = m
  OBVIOUS
<1>1. At({m}) > 0 <=> \E u \in Threads : pc[u] \in {m}
  BY AtNat
<1> QED
  BY <1>1

(* Whoever is inside a resume, a setter, an activation or a retain owes.       *)
OwingCalls ==
  Counted /\ Retained =>
    \A u, v \in Threads :
      /\ pc[u] \in Resuming \cup {"retain"} => Owed >= 1
      /\ u # v /\ {pc[u], pc[v]} \subseteq Resuming \cup {"retain"} => Owed >= 2

LEMMA TwoOwe == OwingCalls
<1> SUFFICES ASSUME Counted, Retained, NEW u \in Threads, NEW v \in Threads
             PROVE  /\ pc[u] \in Resuming \cup {"retain"} => Owed >= 1
                    /\ u # v /\ {pc[u], pc[v]} \subseteq Resuming \cup {"retain"} => Owed >= 2
  BY DEF OwingCalls
<1>1. ASSUME NEW x \in Threads, pc[x] \in Resuming \cup {"retain"}
      PROVE  Owes(x) >= 1 /\ Owes(x) \in Nat
  <2>1. /\ Owes(x) = held[x] + Weight(pc[x]) /\ held[x] \in 0..MaxHeld /\ MaxHeld \in Nat
        /\ pc[x] = "retain" => held[x] > 0
    BY OwesIs, BoundsAssumption DEF Retained
  <2> QED
    BY <1>1, <2>1 DEF Weight, Resuming, Suspending
<1>2. /\ Owed \in Nat /\ Owed >= Owes(u) /\ (u # v => Owed >= Owes(u) + Owes(v))
  BY OwedIsSum
<1> QED
  BY <1>1, <1>2

(* The parts in balance say what the invariant says of the counts.             *)
PartsBalance ==
  \A s \in Nat, h \in 0..1, i \in 0..1, n \in 0..1 :
    Parts(s, h, i, n) /\ Counted /\ Retained =>
      /\ word \in 0..(Limit - 1) /\ side \in Nat /\ finalized \in Nat
      /\ refs \in 0..(Cardinality(Threads) + 1)
      /\ word \div INTERVAL + side + InTransit = Owed
      /\ At({"suspend_side", "resume_side"}) = 0 => (HasSide(word) <=> side > 0)
      /\ HasSide(word) <=> side + InTransit > 0
      /\ SuspendedReference /\ Bits
      /\ Owed > 0 => IsSuspended(word)

LEMMA PartsGive == PartsBalance
<1> SUFFICES ASSUME NEW s \in Nat, NEW h \in 0..1, NEW i \in 0..1, NEW n \in 0..1,
                    Parts(s, h, i, n), Counted, Retained
             PROVE  /\ word \in 0..(Limit - 1) /\ side \in Nat /\ finalized \in Nat
                    /\ refs \in 0..(Cardinality(Threads) + 1)
                    /\ word \div INTERVAL + side + InTransit = Owed
                    /\ At({"suspend_side", "resume_side"}) = 0 => (HasSide(word) <=> side > 0)
                    /\ HasSide(word) <=> side + InTransit > 0
                    /\ SuspendedReference /\ Bits
                    /\ Owed > 0 => IsSuspended(word)
  BY DEF PartsBalance
<1>1. /\ word \in Nat
      /\ word \div INTERVAL = s
      /\ HasSide(word) <=> h = 1
      /\ Inactive(word) <=> i = 1
      /\ word % 2 = n
      /\ IsSuspended(word) <=> s > 0 \/ h = 1 \/ i = 1 \/ n = 1
  BY PartsRead DEF PartsMeaning
<1>2. /\ word = 8 * s + 4 * h + 2 * i + n
      /\ s < 2 * Half /\ Half \in Nat
      /\ side \in Nat /\ finalized \in Nat
      /\ s + side + InTransit = Owed
      /\ h = 1 <=> side + InTransit > 0
      /\ i = 1 => n = 1
      /\ s > 0 \/ h = 1 \/ i = 1 \/ n = 0
      /\ finalized + At({"finalize"}) + n = 1
      /\ refs = (IF s > 0 \/ h = 1 \/ i = 1 \/ n = 1 THEN 1 ELSE 0) + At({"wake"}) - At({"retain"})
  BY HalfAssumption DEF Parts, INTERVAL, HAS_SIDE, INACTIVE
<1>3. word \in 0..(Limit - 1)
  BY <1>1, <1>2 DEF Limit, INTERVAL
<1>4. /\ Owed \in Nat /\ InTransit \in Int
      /\ At({"wake"}) \in Nat /\ At({"wake"}) =< Cardinality(Threads)
      /\ At({"retain"}) \in Nat /\ Cardinality(Threads) \in Nat
  <2>1. InTransit \in Int
    <3>1. At({"suspend_side"}) \in Nat /\ At({"resume_side"}) \in Nat
      BY AtNat
    <3> QED
      BY <1>2, <3>1 DEF InTransit
  <2> QED
    BY <2>1, AtNat, OwedIsSum
<1>5. At({"retain"}) > 0 => Owed >= 1
  <2>1. At({"retain"}) > 0 => \E u \in Threads : pc[u] = "retain"
    BY AtNat
  <2> QED
    BY <2>1, TwoOwe DEF OwingCalls
<1>6. Owed > 0 => IsSuspended(word)
  BY <1>1, <1>2, <1>4
<1>7. refs \in 0..(Cardinality(Threads) + 1)
  BY <1>1, <1>2, <1>4, <1>5, <1>6 DEF Retained
<1>8. ASSUME At({"suspend_side", "resume_side"}) = 0 PROVE InTransit = 0
  <2>1. \A u \in Threads : pc[u] \notin {"suspend_side", "resume_side"}
    BY <1>8, AtNat
  <2>2. At({"suspend_side"}) = 0 /\ At({"resume_side"}) = 0
    <3>1. /\ At({"suspend_side"}) \in Nat
          /\ At({"suspend_side"}) > 0 <=> \E u \in Threads : pc[u] \in {"suspend_side"}
      BY AtNat
    <3>2. /\ At({"resume_side"}) \in Nat
          /\ At({"resume_side"}) > 0 <=> \E u \in Threads : pc[u] \in {"resume_side"}
      BY AtNat
    <3> QED
      BY <2>1, <3>1, <3>2
  <2> QED
    BY <1>2, <2>2 DEF InTransit
<1>9. SuspendedReference
  <2>1. IsSuspended(word) <=> (s > 0 \/ h = 1 \/ i = 1 \/ n = 1)
    BY <1>1
  <2> QED
    BY <1>2, <2>1 DEF SuspendedReference
<1>10. Bits
  <2>1. word # 1
    BY <1>2
  <2> QED
    BY <1>1, <1>2, <2>1 DEF Bits, NA
<1>11. HasSide(word) <=> side + InTransit > 0
  BY <1>1, <1>2
<1>12. At({"suspend_side", "resume_side"}) = 0 => (HasSide(word) <=> side > 0)
  <2> SUFFICES ASSUME At({"suspend_side", "resume_side"}) = 0 PROVE HasSide(word) <=> side > 0
    OBVIOUS
  <2>1. side + InTransit = side
    BY <1>2, <1>8
  <2> QED
    BY <1>11, <2>1
<1>13. word \div INTERVAL + side + InTransit = Owed
  BY <1>1, <1>2
<1> QED
  BY <1>2, <1>3, <1>6, <1>7, <1>9, <1>10, <1>11, <1>12, <1>13

(* Every step keeps the invariant.                                             *)
LEMMA SuspendStep ==
  ASSUME SuspendInv, Apart, Room, NEW t \in Threads, Moves(t)
  PROVE  SuspendInv'
<1>1. PICK s \in Nat, h \in 0..1, i \in 0..1, n \in 0..1 : Parts(s, h, i, n)
  BY PartsExist
<1>2. /\ HasSide(word) <=> h = 1
      /\ Inactive(word) <=> i = 1
      /\ IsSuspended(word) <=> s > 0 \/ h = 1 \/ i = 1 \/ n = 1
  BY <1>1, PartsRead DEF PartsMeaning
<1>3. /\ word = 8 * s + 4 * h + 2 * i + n
      /\ side \in Nat /\ finalized \in Nat
      /\ s + side + InTransit = Owed
      /\ h = 1 <=> side + InTransit > 0
      /\ i = 1 => n = 1
      /\ finalized + At({"finalize"}) + n = 1
  BY <1>1 DEF Parts, INTERVAL, HAS_SIDE, INACTIVE
<1>4. PICK s1 \in Nat, h1 \in 0..1, i1 \in 0..1, n1 \in 0..1 :
         Parts(s1, h1, i1, n1)' /\ (i1 = 1 => Inactive(word))
  BY PartsStep
<1>5. /\ Counted /\ Counted' /\ Half \in Nat /\ Half > 1
      /\ pc \in [Threads -> Labels] /\ pc' \in [Threads -> Labels]
      /\ \A u \in Threads \ {t} : pc'[u] = pc[u] /\ held'[u] = held[u]
      /\ \A u \in Threads : pc'[u] = "retain" => held'[u] > 0
      /\ MaxHeld \in Nat /\ SetterHeld \in Nat
      /\ held \in [Threads -> 0..MaxHeld] /\ held' \in [Threads -> 0..MaxHeld]
  BY InvCounted, ShapeStep, HalfAssumption, BoundsAssumption DEF Counted
<1>6. Entries(t)
  BY EntriesStep
<1>7. Retained /\ use' = use /\ use \in Uses
  BY DEF SuspendInv, Calls, Retained, Moves, CountConserved, TypeOK
<1>0. ASSUME NEW m
      PROVE  /\ At({m}) \in Nat /\ At({m})' \in Nat
             /\ At({m})' = At({m}) + (IF pc'[t] = m THEN 1 ELSE 0) - (IF pc[t] = m THEN 1 ELSE 0)
             /\ At({m}) > 0 <=> \E u \in Threads : pc[u] = m
  <2>1. At({m}) > 0 <=> \E u \in Threads : pc[u] \in {m}
    BY AtNat
  <2>2. /\ At({m}) \in Nat /\ At({m})' \in Nat
        /\ At({m})' = At({m}) + (IF pc'[t] \in {m} THEN 1 ELSE 0) - (IF pc[t] \in {m} THEN 1 ELSE 0)
    BY <1>5, AtMoves
  <2> QED
    BY <2>1, <2>2
<1>8. /\ At({"retain"}) \in Nat /\ At({"retain"})' \in Nat
      /\ At({"retain"})' = At({"retain"}) + (IF pc'[t] = "retain" THEN 1 ELSE 0) - (IF pc[t] = "retain" THEN 1 ELSE 0)
      /\ At({"retain"}) > 0 <=> \E u \in Threads : pc[u] = "retain"
      /\ At({"over_resume"}) \in Nat /\ At({"over_resume"})' \in Nat
      /\ At({"over_resume"})' = At({"over_resume"}) + (IF pc'[t] = "over_resume" THEN 1 ELSE 0) - (IF pc[t] = "over_resume" THEN 1 ELSE 0)
      /\ At({"over_resume"}) > 0 <=> \E u \in Threads : pc[u] = "over_resume"
      /\ At({"too_many_suspends"}) \in Nat /\ At({"too_many_suspends"})' \in Nat
      /\ At({"too_many_suspends"})' = At({"too_many_suspends"}) + (IF pc'[t] = "too_many_suspends" THEN 1 ELSE 0) - (IF pc[t] = "too_many_suspends" THEN 1 ELSE 0)
      /\ At({"too_many_suspends"}) > 0 <=> \E u \in Threads : pc[u] = "too_many_suspends"
      /\ At({"finalize"}) \in Nat /\ At({"finalize"})' \in Nat
      /\ At({"finalize"})' = At({"finalize"}) + (IF pc'[t] = "finalize" THEN 1 ELSE 0) - (IF pc[t] = "finalize" THEN 1 ELSE 0)
      /\ At({"finalize"}) > 0 <=> \E u \in Threads : pc[u] = "finalize"
      /\ At({"set"}) \in Nat /\ At({"set"})' \in Nat
      /\ At({"set"})' = At({"set"}) + (IF pc'[t] = "set" THEN 1 ELSE 0) - (IF pc[t] = "set" THEN 1 ELSE 0)
      /\ At({"set"}) > 0 <=> \E u \in Threads : pc[u] = "set"
      /\ At({"resume_side"}) \in Nat /\ At({"resume_side"})' \in Nat
      /\ At({"resume_side"})' = At({"resume_side"}) + (IF pc'[t] = "resume_side" THEN 1 ELSE 0) - (IF pc[t] = "resume_side" THEN 1 ELSE 0)
      /\ At({"resume_side"}) > 0 <=> \E u \in Threads : pc[u] = "resume_side"
  BY <1>0
<1>9. Owed \in Nat /\ InTransit \in Int
  BY <1>5, OwedMoves, TransitMoves
<1>10. pc[t] = "resume" => ~(s = 0 /\ h = 0)
  <2>1. pc[t] = "resume" => Owed >= 1
    BY <1>5, <1>7, TwoOwe DEF OwingCalls, Resuming
  <2> QED
    BY <1>3, <1>9, <2>1
\* Where setters are at work and the object is inactive, nothing moves to or from
\* the side count.
<1>11. ASSUME "setters" \in use, Inactive(word)
       PROVE  /\ side = 0 /\ InTransit = 0 /\ h = 0
              /\ \A u \in Threads : pc[u] \notin Transfers \cup {"suspend_lock", "resume_lock"}
              /\ \A u \in Threads : Wants(u) =< SetterHeld + (IF u \in Setters THEN 1 ELSE 0)
  <2>1. /\ side = 0
        /\ \A u \in Threads : pc[u] \notin Transfers \cup {"suspend_lock", "resume_lock"}
        /\ \A u \in Threads : Wants(u) =< SetterHeld + (IF u \in Setters THEN 1 ELSE 0)
    BY <1>11 DEF SuspendInv, Shallow
  <2>2. InTransit = 0
    BY <2>1, TransitIs DEF Transfers
  <2> QED
    BY <1>3, <2>1, <2>2
<1>12. At({"retain"})' =< 1
  <2>1. CASE pc'[t] = "retain"
    <3>1. Owed = 0
      BY <1>2, <1>3, <1>6, <1>9, <2>1 DEF Entries
    <3>2. \A u \in Threads : pc[u] # "retain"
      BY <1>5, <1>7, <3>1, TwoOwe DEF OwingCalls
    <3> QED
      BY <1>8, <2>1, <3>2
  <2>2. CASE pc'[t] # "retain"
    <3>1. At({"retain"}) =< 1
      BY <1>7 DEF Retained
    <3> QED
      BY <1>8, <2>2, <3>1
  <2> QED
    BY <2>1, <2>2
<1>13. /\ word' \in 0..(Limit - 1) /\ side' \in Nat /\ finalized' \in Nat
       /\ refs' \in 0..(Cardinality(Threads) + 1)
       /\ word' \div INTERVAL + side' + InTransit' = Owed'
       /\ At({"suspend_side", "resume_side"})' = 0 => (HasSide(word') <=> side' > 0)
       /\ HasSide(word') <=> side' + InTransit' > 0
       /\ SuspendedReference' /\ Bits'
       /\ Owed' > 0 => IsSuspended(word')
  <2>1. Retained'
    BY <1>5, <1>12 DEF Retained
  <2>2. PartsBalance'
    BY PartsGive, PTL
  <2> QED
    BY <1>4, <1>5, <2>1, <2>2 DEF PartsBalance
<1>14. NoFalseOverResume'
  <2>1. At({"over_resume"}) = 0
    BY DEF SuspendInv, CountConserved, NoFalseOverResume
  <2>2. pc'[t] # "over_resume"
    BY <1>2, <1>3, <1>6, <1>10 DEF Entries, INTERVAL
  <2> QED
    BY <1>8, <2>1, <2>2 DEF NoFalseOverResume
<1>15. Calls'
  <2>1. \A u \in Threads : pc'[u] \in Suspending \cup {"retain"} => held'[u] > 0
    BY <1>5 DEF Counted
  <2>2. At({"too_many_suspends"})' = 0
    <3>1. At({"too_many_suspends"}) = 0
      BY DEF SuspendInv, Calls
    <3>2. pc'[t] # "too_many_suspends"
      BY <1>2, <1>6, <1>11 DEF Entries
    <3> QED
      BY <1>8, <3>1, <3>2
  <2>3. \A u \in Threads : pc'[u] = "set" => u \in Setters /\ "setters" \in use'
    BY <1>5, <1>6, <1>7 DEF Entries, SuspendInv, Calls
  <2> QED
    BY <1>12, <2>1, <2>2, <2>3 DEF Calls
<1>16. SetterExcludesActivation'
  <2> SUFFICES ASSUME At({"set"})' > 0
               PROVE  At({"finalize"})' = 0 /\ IsSuspended(word')
    BY DEF SetterExcludesActivation
  <2>1. (\A m \in Labels : At({m}) > 0 <=> \E u \in Threads : pc[u] = m)'
    BY AtLabel, PTL
  <2>2. /\ At({"set"})' > 0 <=> \E u \in Threads : pc'[u] = "set"
        /\ At({"finalize"})' > 0 <=> \E u \in Threads : pc'[u] = "finalize"
    BY <2>1 DEF Labels, Resuming
  <2>3. PICK u \in Threads : pc'[u] = "set"
    BY <2>2
  <2>4. Counted' /\ Retained'
    BY <1>5, <1>12 DEF Retained
  <2>5. OwingCalls'
    BY TwoOwe, PTL
  <2>6. Owed' >= 1 /\ Owed' \in Nat
    BY <1>5, <2>3, <2>4, <2>5, OwedMoves DEF OwingCalls, Resuming
  <2>7. ASSUME NEW v \in Threads, pc'[v] = "finalize" PROVE FALSE
    <3>1. u # v /\ Owed' >= 2
      BY <2>3, <2>4, <2>5, <2>7 DEF OwingCalls, Resuming
    <3>2. CASE pc'[t] = "finalize"
      <4>1. word' = 8 /\ InTransit' \in Int
        BY <1>5, <1>6, <3>2, TransitMoves DEF Entries, INTERVAL
      <4>2. /\ word' = 8 * s1 + 4 * h1 + 2 * i1 + n1 /\ side' \in Nat
            /\ s1 + side' + InTransit' = Owed'
            /\ h1 = 1 <=> side' + InTransit' > 0
        BY <1>4 DEF Parts, INTERVAL, HAS_SIDE, INACTIVE
      <4>3. s1 =< 1 /\ (h1 = 1 => s1 = 0)
        BY <4>1, <4>2
      <4>4. h1 = 0
        BY <4>1, <4>2
      <4>5. PICK x \in Int, y \in Nat, z \in Nat : x = InTransit' /\ y = side' /\ z = Owed'
        BY <2>6, <4>1, <4>2
      <4>6. s1 + y + x = z
        BY <4>2, <4>5
      <4>7. z >= 2
        BY <3>1, <4>5
      <4>8. ~(side' + InTransit' > 0)
        BY <4>2, <4>4
      <4>9. ~(y + x > 0)
        BY <4>5, <4>8
      <4> QED
        BY <4>3, <4>6, <4>7, <4>9
    <3>3. CASE pc'[t] = "set"
      <4>1. n = 1
        BY <1>2, <1>3, <1>6, <3>3 DEF Entries
      <4>2. At({"finalize"}) = 0
        <5>1. At({"finalize"}) \in Nat
          BY <1>0
        <5> QED
          BY <1>3, <4>1, <5>1
      <4>3. At({"finalize"})' = 0
        BY <1>8, <3>3, <4>2
      <4> QED
        BY <2>2, <2>7, <4>3
    <3>4. CASE pc'[t] \notin {"finalize", "set"}
      <4>1. pc[u] = "set" /\ pc[v] = "finalize"
        BY <1>5, <2>3, <2>7, <3>4
      <4>2. At({"set"}) > 0 /\ At({"finalize"}) > 0
        BY <1>8, <4>1
      <4> QED
        BY <4>2 DEF SuspendInv, SetterExcludesActivation
    <3> QED
      BY <3>2, <3>3, <3>4
  <2> QED
    BY <1>8, <1>13, <2>2, <2>6, <2>7
<1>17. Sides'
  <2>1. PICK k \in 0..side : side = k * Half
    BY DEF SuspendInv, Sides
  <2>2. \E m \in 0..side' : side' = m * Half
    <3>1. CASE side' = side
      BY <2>1, <3>1
    <3>2. CASE side' = side + Half
      <4>1. k + 1 \in 0..(side + Half) /\ (k + 1) * Half = side + Half
        BY <1>3, <1>5, <2>1
      <4> QED
        BY <3>2, <4>1
    <3>3. CASE side' = side - Half
      <4>1. k \in Nat /\ k >= 1
        BY <1>3, <1>5, <1>13, <2>1, <3>3
      <4>2. (k - 1) * Half = side - Half
        BY <1>5, <2>1, <4>1
      <4>3. k - 1 =< (k - 1) * Half
        BY <1>5, <4>1
      <4>4. k - 1 \in 0..side'
        BY <1>13, <3>3, <4>1, <4>2, <4>3
      <4> QED
        BY <3>3, <4>2, <4>4
    <3> QED
      BY <1>6, <3>1, <3>2, <3>3 DEF Entries
  <2>3. ASSUME At({"resume_side"})' > 0 PROVE side' > 0
    <3>1. (\A m \in Labels : At({m}) > 0 <=> \E u \in Threads : pc[u] = m)'
      BY AtLabel, PTL
    <3>2. PICK u \in Threads : pc'[u] = "resume_side"
      BY <2>3, <3>1 DEF Labels
    <3>3. lock' = u /\ u # None
      BY <3>2, LockedStep, ThreadsAssumption DEF Locked, Transfers
    <3>4. pc[t] \notin {"suspend_side", "resume_side"}
      BY <3>3, LockedStep
    <3>5. CASE u = t
      BY <1>6, <3>2, <3>5 DEF Entries
    <3>6. CASE u # t
      <4>1. pc[u] = "resume_side" /\ side' = side
        BY <1>5, <1>6, <3>2, <3>4, <3>6 DEF Entries
      <4>2. At({"resume_side"}) > 0
        BY <1>8, <4>1
      <4> QED
        BY <4>1, <4>2 DEF SuspendInv, Sides
    <3> QED
      BY <3>5, <3>6
  <2> QED
    BY <1>13, <2>2, <2>3 DEF Sides
<1>18. Shallow'
  <2> SUFFICES ASSUME "setters" \in use
               PROVE  /\ \A u \in Threads : held'[u] =< SetterHeld
                      /\ Inactive(word') =>
                           /\ side' = 0
                           /\ \A u \in Threads : pc'[u] \notin Transfers \cup {"suspend_lock", "resume_lock"}
                           /\ \A u \in Threads : Wants(u)' =< SetterHeld + (IF u \in Setters THEN 1 ELSE 0)
    BY <1>7 DEF Shallow
  <2>1. \A u \in Threads : held[u] =< SetterHeld
    BY DEF SuspendInv, Shallow
  <2>2. held'[t] =< SetterHeld /\ held[t] \in Nat /\ held'[t] \in Nat
    BY <1>5, <1>6, <2>1 DEF Entries
  <2>3. ASSUME Inactive(word')
        PROVE  /\ side' = 0
               /\ \A u \in Threads : pc'[u] \notin Transfers \cup {"suspend_lock", "resume_lock"}
               /\ \A u \in Threads : Wants(u)' =< SetterHeld + (IF u \in Setters THEN 1 ELSE 0)
    <3>1. Inactive(word)
      <4>1. PartsMeaning'
        BY PartsRead, PTL
      <4>2. i1 = 1
        BY <1>4, <2>3, <4>1 DEF PartsMeaning
      <4> QED
        BY <1>4, <4>2
    <3>2. /\ side = 0 /\ InTransit = 0 /\ h = 0 /\ s = Owed
          /\ \A u \in Threads : pc[u] \notin Transfers \cup {"suspend_lock", "resume_lock"}
          /\ \A u \in Threads : Wants(u) =< SetterHeld + (IF u \in Setters THEN 1 ELSE 0)
      BY <1>3, <1>11, <3>1
    <3>3. side' = 0
      BY <1>6, <3>2 DEF Entries, Transfers
    <3>4. pc'[t] # "suspend_lock"
      <4>1. ASSUME pc'[t] = "suspend_lock" PROVE FALSE
        <5>1. pc[t] = "suspend" /\ word + 8 >= 16 * Half
          BY <1>6, <4>1, <1>5 DEF Entries, INTERVAL, Limit
        <5>2. s + 1 >= 2 * Half
          BY <1>3, <1>5, <3>2, <5>1
        <5>3. ASSUME NEW u \in Threads
              PROVE  /\ Owes(u) =< SetterHeld + (IF u \in Setters THEN 1 ELSE 0)
                     /\ u = t => Owes(u) < SetterHeld + (IF u \in Setters THEN 1 ELSE 0)
          <6>1. Wants(u) =< SetterHeld + (IF u \in Setters THEN 1 ELSE 0) /\ held[u] \in Nat
            BY <1>5, <3>2
          <6> QED
            BY <1>5, <5>1, <6>1 DEF Owes, Wants, Suspending
        <5>4. Owed + 1 < 2 * Half
          BY <1>5, <1>7, <5>3, RoomLeft
        <5> QED
          BY <1>5, <1>9, <3>2, <5>2, <5>4
      <4> QED
        BY <4>1
    <3>5. pc'[t] \notin Transfers \cup {"resume_lock"}
      BY <1>2, <1>6, <3>2 DEF Entries
    <3>6. word' # INTERVAL
      BY <2>3 DEF Inactive, INTERVAL, INACTIVE
    <3>7. Wants(t)' =< SetterHeld + (IF t \in Setters THEN 1 ELSE 0)
      <4>1. Wants(t)' = held'[t] + (IF pc'[t] \in Resuming THEN 1 ELSE 0)
        BY DEF Wants
      <4>2. /\ pc[t] \in Resuming => held[t] + 1 =< SetterHeld + (IF t \in Setters THEN 1 ELSE 0)
        BY <3>2 DEF Wants
      <4>3. held[t] =< SetterHeld
        BY <2>1
      <4>4. CASE pc'[t] \notin Resuming
        BY <1>5, <2>2, <4>1, <4>4
      <4>5. CASE pc'[t] \in Resuming /\ pc[t] \in Resuming /\ held'[t] = held[t]
        BY <1>5, <2>2, <4>1, <4>2, <4>5
      <4>6. CASE pc'[t] \in Resuming /\ held'[t] = held[t] - 1
        BY <1>5, <2>2, <4>1, <4>3, <4>6
      <4>7. CASE pc'[t] \in Resuming /\ t \in Setters /\ held'[t] = held[t]
        BY <1>5, <2>2, <4>1, <4>3, <4>7
      <4> QED
        BY <1>6, <3>6, <4>4, <4>5, <4>6, <4>7 DEF Entries
    <3>8. \A u \in Threads \ {t} : Wants(u)' = Wants(u)
      BY <1>5 DEF Wants
    <3> QED
      BY <1>5, <3>2, <3>3, <3>4, <3>5, <3>7, <3>8
  <2> QED
    BY <1>5, <2>1, <2>2, <2>3
<1>19. TypeOK'
  BY <1>5, <1>7, <1>13, LockedStep DEF TypeOK, Counted
<1>20. CountConserved'
  BY <1>13, <1>14, <1>19 DEF CountConserved
<1>21. Locked'
  BY LockedStep
<1> QED
  BY <1>13, <1>15, <1>16, <1>17, <1>18, <1>20, <1>21 DEF SuspendInv

LEMMA SuspendInit == Init => SuspendInv
<1> SUFFICES ASSUME Init PROVE SuspendInv
  OBVIOUS
<1> USE HalfAssumption, ThreadsAssumption, BoundsAssumption DEF Init
<1>1. word = 3 /\ word \in Nat
  BY DEF INACTIVE, NA
<1>2. pc \in [Threads -> Labels] /\ held \in [Threads -> 0..MaxHeld]
  BY DEF Labels
<1>3. ASSUME NEW l, "idle" \notin l PROVE At(l) = 0
  <2>1. {u \in Threads : pc[u] \in l} = {}
    BY <1>3
  <2> QED
    BY <2>1, FS_EmptySet DEF At
<1>4. /\ At({"suspend_side"}) = 0 /\ At({"resume_side"}) = 0 /\ At({"wake"}) = 0
      /\ At({"retain"}) = 0 /\ At({"finalize"}) = 0 /\ At({"set"}) = 0
      /\ At({"over_resume"}) = 0 /\ At({"too_many_suspends"}) = 0
      /\ InTransit = 0
  <2>1. /\ At({"suspend_side"}) = 0 /\ At({"resume_side"}) = 0 /\ At({"wake"}) = 0
        /\ At({"retain"}) = 0 /\ At({"finalize"}) = 0 /\ At({"set"}) = 0
        /\ At({"over_resume"}) = 0 /\ At({"too_many_suspends"}) = 0
    BY <1>3
  <2> QED
    BY <2>1 DEF InTransit
<1>5. Owed = 0
  <2>1. Counted
    BY <1>2 DEF Counted, Suspending
  <2>2. \A u \in Threads : Owes(u) = 0
    BY DEF Owes, Wants, Suspending, Resuming
  <2> QED
    BY <2>1, <2>2, OwedIsSum
<1>6. /\ word \div INTERVAL = 0 /\ ~HasSide(word) /\ Inactive(word) /\ word % 2 = 1
      /\ IsSuspended(word)
  BY <1>1 DEF INTERVAL, HasSide, HAS_SIDE, Inactive, INACTIVE, IsSuspended, NA
<1>7. CountConserved
  <2>1. Cardinality(Threads) \in Nat
    BY FS_CardinalityType
  <2>2. word \in 0..(Limit - 1)
    BY <1>1 DEF Limit, INTERVAL
  <2>3. TypeOK
    BY <1>2, <2>1, <2>2 DEF TypeOK
  <2>4. SuspendedReference
    BY <1>4, <1>6 DEF SuspendedReference
  <2> QED
    BY <1>4, <1>5, <1>6, <2>3, <2>4 DEF CountConserved, NoFalseOverResume
<1>8. Locked /\ Sides
  BY <1>4, <1>6 DEF Locked, Sides, Transfers
<1>9. Bits /\ Calls /\ SetterExcludesActivation
  BY <1>1, <1>4, <1>6 DEF Bits, Calls, SetterExcludesActivation, NA, Suspending
<1>10. Shallow
  BY DEF Shallow, Wants, Transfers, Resuming
<1> QED
  BY <1>7, <1>8, <1>9, <1>10 DEF SuspendInv

(* The counts of dispatch_suspend, dispatch_resume, the setters and the        *)
(* activation are what the invariant says, however they race.                 *)
THEOREM SuspendInvariant ==
  ASSUME Apart, Room
  PROVE  Spec => []SuspendInv
<1>1. SuspendInv /\ [Next]_vars => SuspendInv'
  <2>1. ASSUME SuspendInv, Next PROVE SuspendInv'
    <3>1. PICK t \in Threads : Moves(t)
      BY <2>1 DEF Next, Moves
    <3> QED
      BY <2>1, <3>1, SuspendStep
  <2>2. ASSUME SuspendInv, UNCHANGED vars PROVE SuspendInv'
    BY <2>2 DEF vars, SuspendInv, CountConserved, TypeOK, SuspendedReference, NoFalseOverResume,
                SetterExcludesActivation, Locked, Sides, Bits, Calls, Shallow, InTransit, At,
                Owed, Owes, Wants
  <2> QED
    BY <2>1, <2>2
<1> QED
  BY <1>1, SuspendInit, PTL DEF Spec

(* No suspension is lost or invented while the counts move between dq_state    *)
(* and the side count (_dispatch_queue_suspend_slow, _dispatch_queue_resume_slow).*)
THEOREM SuspendCountConserved ==
  ASSUME Apart, Room
  PROVE  Spec => []CountConserved
<1>1. SuspendInv => CountConserved
  BY DEF SuspendInv
<1> QED
  BY <1>1, SuspendInvariant, PTL

(* A setter that has locked an inactive object keeps its activation away.       *)
THEOREM SuspendSetterExcludes ==
  ASSUME Apart, Room
  PROVE  Spec => []SetterExcludesActivation
<1>1. SuspendInv => SetterExcludesActivation
  BY DEF SuspendInv
<1> QED
  BY <1>1, SuspendInvariant, PTL

(* The object is runnable only when every suspension was resumed and its       *)
(* activation has run once, and it is runnable when all of that has happened.  *)
THEOREM SuspendResumed ==
  ASSUME Apart, Room
  PROVE  Spec => []ResumedMeansRunnable
<1>1. ASSUME SuspendInv PROVE ResumedMeansRunnable
  <2>1. PICK s \in Nat, h \in 0..1, i \in 0..1, n \in 0..1 : Parts(s, h, i, n)
    BY <1>1, PartsExist
  <2>2. /\ Inactive(word) <=> i = 1
        /\ IsSuspended(word) <=> s > 0 \/ h = 1 \/ i = 1 \/ n = 1
    BY <2>1, PartsRead DEF PartsMeaning
  <2>3. /\ word = 8 * s + 4 * h + 2 * i + n
        /\ side \in Nat /\ finalized \in Nat
        /\ s + side + InTransit = Owed
        /\ h = 1 <=> side + InTransit > 0
        /\ s > 0 \/ h = 1 \/ i = 1 \/ n = 0
        /\ finalized + At({"finalize"}) + n = 1
    BY <2>1 DEF Parts, INTERVAL, HAS_SIDE, INACTIVE
  <2>4. Counted /\ Retained
    BY <1>1, InvCounted DEF SuspendInv, Calls, Retained
  <2>5. /\ Owed \in Nat /\ At({"finalize"}) \in Nat
        /\ At({"finalize"}) > 0 <=> \E u \in Threads : pc[u] \in {"finalize"}
        /\ InTransit \in {-Half, 0, Half} /\ Half \in Nat
    BY <1>1, <2>4, OwedIsSum, AtNat, TransitIs, HalfAssumption
  <2>6. finalized =< 1
    BY <2>3, <2>5
  <2>7. ASSUME ~IsSuspended(word) PROVE finalized = 1 /\ Owed = 0
    <3>1. s = 0 /\ h = 0 /\ n = 0
      BY <2>2, <2>7
    <3>2. Owed = 0
      BY <2>3, <2>5, <3>1
    <3>3. \A u \in Threads : pc[u] # "finalize"
      BY <2>4, <3>2, TwoOwe DEF OwingCalls, Resuming
    <3>4. At({"finalize"}) = 0
      BY <2>5, <3>3
    <3> QED
      BY <2>3, <3>1, <3>2, <3>4
  <2>8. ASSUME At({"idle"}) = Cardinality(Threads), Owed = 0, ~Inactive(word)
        PROVE  word = 0
    <3>1. \A u \in Threads : pc[u] = "idle"
      <4>1. {u \in Threads : pc[u] \in {"idle"}} = Threads
        BY <2>8, ThreadsAssumption, FS_Subset DEF At
      <4> QED
        BY <4>1
    <3>2. InTransit = 0
      BY <1>1, <3>1, TransitIs
    <3> QED
      BY <2>2, <2>3, <2>8, <3>2
  <2> QED
    BY <2>6, <2>7, <2>8 DEF ResumedMeansRunnable
<1> QED
  BY <1>1, SuspendInvariant, PTL

-----------------------------------------------------------------------------
(* The lists of work.                                                         *)

(* The list s as its links show it to whoever walks it.  Its first b items are the
   consumer's own: they do not lead to the others.  Between two neighbours there is
   a link, or a producer in L that is about to write it.                       *)
Linked(s, b, L, nx, pv, ch) ==
  /\ \A i, j \in 1..Len(s) : s[i] = s[j] => i = j
  /\ \A i \in 1..Len(s) : i = b \/ i = Len(s) => nx[s[i]] = Null
  /\ \A i \in 1..(Len(s) - 1) : i # b =>
       \/ nx[s[i]] = s[i + 1]
       \/ nx[s[i]] = Null /\ \E p \in L : pv[p] = s[i] /\ ch[p][1] = s[i + 1]
  /\ \A p \in L : \E i \in 1..(Len(s) - 1) :
       i # b /\ pv[p] = s[i] /\ ch[p][1] = s[i + 1] /\ nx[s[i]] = Null
  /\ \A p, q \in L : pv[p] = pv[q] => p = q

(* The items c that a producer is about to append to s.                      *)
Fresh(c, s, nx) ==
  /\ c \in Seq(Node) /\ Len(c) \in 1..2
  /\ Len(c) = 2 => c[1] # c[2] /\ nx[c[1]] = c[2]
  /\ nx[c[Len(c)]] = Null
  /\ \A i \in 1..Len(c), j \in 1..Len(s) : c[i] # s[j]

(* The chains of the producers X are free, and no two share an item.         *)
Loose(X, s, nx, ch) ==
  /\ \A p \in X : Fresh(ch[p], s, nx)
  /\ \A p, q \in X : p # q =>
       \A i \in 1..Len(ch[p]), j \in 1..Len(ch[q]) : ch[p][i] # ch[q][j]

(* Neither of the two marks in the head is an item.                          *)
LEMMA Names == Null \notin Node /\ Mediator \notin Node /\ Mediator # Null
BY NodeAssumption

LEMMA Joined ==
  ASSUME NEW s \in Seq(Node), NEW c \in Seq(Node)
  PROVE  /\ s \o c \in Seq(Node) /\ Len(s \o c) = Len(s) + Len(c)
         /\ Len(s) \in Nat /\ Len(c) \in Nat
         /\ \A i \in 1..Len(s) : (s \o c)[i] = s[i] /\ s[i] \in Node
         /\ \A i \in 1..Len(c) : (s \o c)[Len(s) + i] = c[i] /\ c[i] \in Node
         /\ \A i \in 1..Len(s \o c) : i > Len(s) => i - Len(s) \in 1..Len(c)
  BY SMTT(60)

(* Appending a chain: the producer links it unless the others cannot reach the
   last item, and then it becomes the head.                                  *)
LEMMA LinkAppend ==
  ASSUME NEW s \in Seq(Node), NEW b \in 0..Len(s), NEW L, NEW nx, NEW pv, NEW ch, NEW pw,
         Linked(s, b, L, nx, pv, ch), NEW p, p \notin L, Fresh(ch[p], s, nx),
         \A q \in L : pw[q] = pv[q], b # Len(s) => pw[p] = s[Len(s)]
  PROVE  Linked(s \o ch[p], b, IF b = Len(s) THEN L ELSE L \cup {p}, nx, pw, ch)
<1> DEFINE c == ch[p]
           r == s \o c
           n == Len(s)
           m == Len(c)
           M == IF b = n THEN L ELSE L \cup {p}
<1>1. /\ r \in Seq(Node) /\ Len(r) = n + m /\ n \in Nat /\ m \in {1, 2} /\ b \in 0..n
      /\ \A i \in 1..n : r[i] = s[i]
      /\ \A i \in 1..m : r[n + i] = c[i]
  <2>1. c \in Seq(Node) /\ Len(c) \in 1..2
    BY DEF Fresh
  <2> QED
    BY <2>1, Joined
<1>2. /\ m = 2 => c[1] # c[2] /\ nx[c[1]] = c[2]
      /\ nx[c[m]] = Null
      /\ \A i \in 1..m, j \in 1..n : c[i] # s[j]
  BY DEF Fresh
<1>3. /\ \A i, j \in 1..n : s[i] = s[j] => i = j
      /\ \A i \in 1..n : i = b \/ i = n => nx[s[i]] = Null
      /\ \A i \in 1..(n - 1) : i # b =>
           \/ nx[s[i]] = s[i + 1]
           \/ nx[s[i]] = Null /\ \E q \in L : pv[q] = s[i] /\ ch[q][1] = s[i + 1]
      /\ \A q \in L : \E i \in 1..(n - 1) :
           i # b /\ pv[q] = s[i] /\ ch[q][1] = s[i + 1] /\ nx[s[i]] = Null
      /\ \A q, u \in L : pv[q] = pv[u] => q = u
  BY DEF Linked
<1>4. /\ \A q \in M : q \in L \/ (q = p /\ b # n /\ pw[p] = s[n])
      /\ b # n => p \in M /\ pw[p] = s[n]
  OBVIOUS
<1> HIDE DEF r, c, n, m, M
<1>5. r[n + 1] = c[1] /\ (m = 2 => r[n + 2] = c[2]) /\ 1..(n + m) = 1..n \cup {n + 1, n + m}
  BY <1>1
<1>6. \A i, j \in 1..(n + m) : r[i] = r[j] => i = j
  <2>1. \A i \in 1..(n + m) : \/ i \in 1..n /\ r[i] = s[i]
                              \/ i = n + 1 /\ r[i] = c[1]
                              \/ i = n + 2 /\ m = 2 /\ r[i] = c[2]
    BY <1>1, <1>5
  <2>2. 1 \in 1..m /\ (m = 2 => 2 \in 1..m)
    BY <1>1
  <2> QED
    BY <1>2, <1>3, <2>1, <2>2
<1>7. \A i \in 1..(n + m) : i = b \/ i = n + m => nx[r[i]] = Null
  <2> TAKE i \in 1..(n + m)
  <2>1. CASE i = b
    BY <1>1, <1>3, <2>1
  <2>2. CASE i = n + m
    BY <1>1, <1>2, <1>5, <2>2
  <2> QED
    BY <2>1, <2>2
<1>8. ASSUME NEW i \in 1..(n + m - 1), i # b
      PROVE  \/ nx[r[i]] = r[i + 1]
             \/ nx[r[i]] = Null /\ \E q \in M : pw[q] = r[i] /\ ch[q][1] = r[i + 1]
  <2>1. CASE i < n
    <3>1. r[i] = s[i] /\ r[i + 1] = s[i + 1] /\ i \in 1..(n - 1)
      BY <1>1, <2>1
    <3>2. CASE nx[s[i]] = s[i + 1]
      BY <3>1, <3>2
    <3>3. CASE nx[s[i]] # s[i + 1]
      <4>1. PICK q \in L : nx[s[i]] = Null /\ pv[q] = s[i] /\ ch[q][1] = s[i + 1]
        BY <1>3, <1>8, <3>1, <3>3
      <4>2. q \in M /\ pw[q] = s[i]
        BY <4>1 DEF M
      <4> QED
        BY <3>1, <4>1, <4>2
    <3> QED
      BY <3>2, <3>3
  <2>2. CASE i = n
    <3>1. r[i] = s[i] /\ r[i + 1] = c[1] /\ i \in 1..n
      BY <1>1, <1>5, <2>2
    <3>2. nx[s[i]] = Null
      BY <1>3, <2>2, <3>1
    <3>3. p \in M /\ pw[p] = s[i]
      BY <1>4, <1>8, <2>2
    <3> QED
      BY <3>1, <3>2, <3>3 DEF c
  <2>3. CASE i > n
    <3>1. i = n + 1 /\ m = 2 /\ i + 1 = n + 2
      BY <1>1, <2>3
    <3> QED
      BY <1>2, <1>5, <3>1
  <2> QED
    BY <1>1, <2>1, <2>2, <2>3
<1>9. ASSUME NEW q \in M
      PROVE  \E i \in 1..(n + m - 1) :
               i # b /\ pw[q] = r[i] /\ ch[q][1] = r[i + 1] /\ nx[r[i]] = Null
  <2>1. CASE q \in L
    <3>1. PICK i \in 1..(n - 1) :
            i # b /\ pv[q] = s[i] /\ ch[q][1] = s[i + 1] /\ nx[s[i]] = Null
      BY <1>3, <2>1
    <3>2. r[i] = s[i] /\ r[i + 1] = s[i + 1] /\ i \in 1..(n + m - 1)
      BY <1>1
    <3> QED
      BY <2>1, <3>1, <3>2
  <2>2. CASE q \notin L
    <3>1. q = p /\ b # n /\ pw[q] = s[n]
      BY <1>4, <2>2
    <3>2. n \in 1..(n + m - 1) /\ n \in 1..n
      BY <1>1, <3>1
    <3>3. r[n] = s[n] /\ r[n + 1] = c[1] /\ nx[s[n]] = Null
      BY <1>1, <1>3, <1>5, <3>2
    <3> QED
      BY <3>1, <3>2, <3>3 DEF c
  <2> QED
    BY <2>1, <2>2
<1>10. ASSUME NEW q \in M, NEW u \in M, pw[q] = pw[u] PROVE q = u
  <2>1. ASSUME NEW v \in L PROVE pw[v] # s[n]
    <3>1. PICK i \in 1..(n - 1) : pv[v] = s[i]
      BY <1>3
    <3>2. i # n /\ i \in 1..n /\ n \in 1..n
      BY <1>1
    <3> QED
      BY <1>3, <3>1, <3>2
  <2> QED
    BY <1>3, <1>4, <1>10, <2>1
<1>11. Linked(r, b, M, nx, pw, ch)
  <2>1. Len(r) = n + m /\ 1..Len(r) = 1..(n + m) /\ 1..(Len(r) - 1) = 1..(n + m - 1)
    BY <1>1
  <2>2. \A i, j \in 1..Len(r) : r[i] = r[j] => i = j
    BY <1>6, <2>1
  <2>3. \A i \in 1..Len(r) : i = b \/ i = Len(r) => nx[r[i]] = Null
    BY <1>7, <2>1
  <2>4. \A i \in 1..(Len(r) - 1) : i # b =>
          \/ nx[r[i]] = r[i + 1]
          \/ nx[r[i]] = Null /\ \E q \in M : pw[q] = r[i] /\ ch[q][1] = r[i + 1]
    <3> SUFFICES ASSUME NEW i \in 1..(n + m - 1), i # b
                 PROVE  \/ nx[r[i]] = r[i + 1]
                        \/ nx[r[i]] = Null /\ \E q \in M : pw[q] = r[i] /\ ch[q][1] = r[i + 1]
      BY Zenon, <2>1
    <3> QED
      BY Zenon, <1>8
  <2>5. \A q \in M : \E i \in 1..(Len(r) - 1) :
          i # b /\ pw[q] = r[i] /\ ch[q][1] = r[i + 1] /\ nx[r[i]] = Null
    <3> SUFFICES ASSUME NEW q \in M
                 PROVE  \E i \in 1..(n + m - 1) :
                          i # b /\ pw[q] = r[i] /\ ch[q][1] = r[i + 1] /\ nx[r[i]] = Null
      BY Zenon, <2>1
    <3> QED
      BY Zenon, <1>9
  <2>6. \A q, u \in M : pw[q] = pw[u] => q = u
    BY <1>10
  <2> QED
    BY Zenon, <2>2, <2>3, <2>4, <2>5, <2>6 DEF Linked
<1> QED
  BY <1>11 DEF r, c, n, M

(* Writing a link that is missing.                                           *)
LEMMA LinkWrite ==
  ASSUME NEW s \in Seq(Node), NEW b \in 0..Len(s), NEW L, NEW nx, NEW pv, NEW ch,
         Linked(s, b, L, nx, pv, ch), NEW p \in L, DOMAIN nx = Node,
         NEW pw, NEW dh, \A q \in L \ {p} : pw[q] = pv[q] /\ dh[q] = ch[q]
  PROVE  /\ Linked(s, b, L \ {p}, [nx EXCEPT ![pv[p]] = ch[p][1]], pw, dh)
         /\ \E i \in 1..Len(s) : pv[p] = s[i]
<1> DEFINE ny == [nx EXCEPT ![pv[p]] = ch[p][1]]
<1>1. PICK k \in 1..(Len(s) - 1) :
        k # b /\ pv[p] = s[k] /\ ch[p][1] = s[k + 1] /\ nx[s[k]] = Null
  BY DEF Linked
<1>2. /\ Len(s) \in Nat /\ \A i \in 1..Len(s) : s[i] \in Node
      /\ k \in 1..Len(s) /\ k # Len(s)
  OBVIOUS
<1>3. \A i, j \in 1..Len(s) : s[i] = s[j] => i = j
  BY DEF Linked
<1>4. ny[s[k]] = s[k + 1] /\ \A i \in 1..Len(s) : i # k => ny[s[i]] = nx[s[i]]
  BY <1>1, <1>2, <1>3
<1> HIDE DEF ny
<1>5. \A i \in 1..Len(s) : i = b \/ i = Len(s) => ny[s[i]] = Null
  BY <1>1, <1>2, <1>4 DEF Linked
<1>6. ASSUME NEW q \in L \ {p}
      PROVE  \E i \in 1..(Len(s) - 1) :
               i # b /\ i # k /\ pw[q] = s[i] /\ dh[q][1] = s[i + 1] /\ ny[s[i]] = Null
  <2>1. PICK i \in 1..(Len(s) - 1) :
          i # b /\ pv[q] = s[i] /\ ch[q][1] = s[i + 1] /\ nx[s[i]] = Null
    BY <1>6 DEF Linked
  <2>2. pv[q] # pv[p]
    BY <1>6 DEF Linked
  <2>3. i # k /\ i \in 1..Len(s)
    BY <1>1, <1>2, <2>1, <2>2
  <2> QED
    BY <1>4, <1>6, <2>1, <2>3
<1>7. ASSUME NEW i \in 1..(Len(s) - 1), i # b
      PROVE  \/ ny[s[i]] = s[i + 1]
             \/ ny[s[i]] = Null /\ \E q \in L \ {p} : pw[q] = s[i] /\ dh[q][1] = s[i + 1]
  <2>1. CASE i = k
    BY <1>4, <2>1
  <2>2. CASE i # k
    <3>1. i \in 1..Len(s) /\ ny[s[i]] = nx[s[i]]
      BY <1>2, <1>4, <2>2
    <3>2. CASE nx[s[i]] # s[i + 1]
      <4>1. PICK q \in L : nx[s[i]] = Null /\ pv[q] = s[i] /\ ch[q][1] = s[i + 1]
        BY <1>7, <3>2 DEF Linked
      <4>2. q # p
        BY <1>1, <1>2, <1>3, <2>2, <3>1, <4>1
      <4> QED
        BY <3>1, <4>1, <4>2
    <3> QED
      BY <3>1, <3>2
  <2> QED
    BY <2>1, <2>2
<1>8. \A q, u \in L \ {p} : pw[q] = pw[u] => q = u
  BY DEF Linked
<1>9. Linked(s, b, L \ {p}, ny, pw, dh)
  BY <1>3, <1>5, <1>6, <1>7, <1>8 DEF Linked
<1> QED
  BY <1>1, <1>2, <1>9 DEF ny

(* Taking the first item, to which nobody still writes a link.               *)
LEMMA LinkTake ==
  ASSUME NEW s \in Seq(Node), NEW b \in 0..Len(s), NEW L, NEW nx, NEW pv, NEW ch,
         Linked(s, b, L, nx, pv, ch), s # <<>>,
         b = 1 \/ Len(s) = 1 \/ nx[s[1]] # Null
  PROVE  /\ Linked(Tail(s), IF b = 0 THEN 0 ELSE b - 1, L, nx, pv, ch)
         /\ Tail(s) \in Seq(Node) /\ Len(Tail(s)) = Len(s) - 1
         /\ \A i \in 1..(Len(s) - 1) : Tail(s)[i] = s[i + 1]
<1> DEFINE r == Tail(s)
           d == IF b = 0 THEN 0 ELSE b - 1
<1>1. /\ r \in Seq(Node) /\ Len(s) \in Nat \ {0} /\ Len(r) = Len(s) - 1
      /\ \A i \in 1..(Len(s) - 1) : r[i] = s[i + 1]
  BY SMTT(60)
<1> HIDE DEF r
<1>2. \A i, j \in 1..Len(r) : r[i] = r[j] => i = j
  <2> TAKE i, j \in 1..Len(r)
  <2>1. i + 1 \in 1..Len(s) /\ j + 1 \in 1..Len(s) /\ r[i] = s[i + 1] /\ r[j] = s[j + 1]
    BY <1>1
  <2>2. s[i + 1] = s[j + 1] => i + 1 = j + 1
    BY <2>1 DEF Linked
  <2> QED
    BY <2>1, <2>2
<1>3. ASSUME NEW i \in 1..Len(r), i = d \/ i = Len(r) PROVE nx[r[i]] = Null
  <2>1. i + 1 \in 1..Len(s) /\ r[i] = s[i + 1] /\ (i + 1 = b \/ i + 1 = Len(s))
    BY <1>1, <1>3
  <2> QED
    BY <2>1 DEF Linked
<1>4. ASSUME NEW i \in 1..(Len(r) - 1), i # d
      PROVE  \/ nx[r[i]] = r[i + 1]
             \/ nx[r[i]] = Null /\ \E q \in L : pv[q] = r[i] /\ ch[q][1] = r[i + 1]
  <2>1. i + 1 \in 1..(Len(s) - 1) /\ r[i] = s[i + 1] /\ r[i + 1] = s[i + 1 + 1] /\ i + 1 # b
    BY SMTT(60), <1>1, <1>4
  <2> QED
    BY <2>1 DEF Linked
<1>5. ASSUME NEW q \in L
      PROVE  \E i \in 1..(Len(r) - 1) :
               i # d /\ pv[q] = r[i] /\ ch[q][1] = r[i + 1] /\ nx[r[i]] = Null
  <2>1. PICK i \in 1..(Len(s) - 1) :
          i # b /\ pv[q] = s[i] /\ ch[q][1] = s[i + 1] /\ nx[s[i]] = Null
    BY <1>5 DEF Linked
  <2>2. i # 1
    BY <1>1, <2>1
  <2>3. i - 1 \in 1..(Len(r) - 1) /\ r[i - 1] = s[i] /\ r[i - 1 + 1] = s[i + 1] /\ i - 1 # d
    BY <1>1, <2>1, <2>2
  <2> QED
    BY <2>1, <2>3
<1>6. Linked(r, d, L, nx, pv, ch)
  BY <1>2, <1>3, <1>4, <1>5 DEF Linked
<1> QED
  BY <1>1, <1>6 DEF r

(* Links of other items, and producers that are not linking, do not matter.  *)
LEMMA LinkKeeps ==
  ASSUME NEW s \in Seq(Node), NEW b \in 0..Len(s), NEW L, NEW nx, NEW pv, NEW ch,
         Linked(s, b, L, nx, pv, ch), NEW ny, NEW pw, NEW dh,
         \A i \in 1..Len(s) : ny[s[i]] = nx[s[i]],
         \A q \in L : pw[q] = pv[q] /\ dh[q] = ch[q]
  PROVE  Linked(s, b, L, ny, pw, dh)
<1>1. /\ \A i, j \in 1..Len(s) : s[i] = s[j] => i = j
      /\ \A i \in 1..Len(s) : i = b \/ i = Len(s) => ny[s[i]] = Null
      /\ \A p, q \in L : pw[p] = pw[q] => p = q
  BY DEF Linked
<1>2. \A i \in 1..(Len(s) - 1) : i \in 1..Len(s)
  OBVIOUS
<1>3. \A i \in 1..(Len(s) - 1) : i # b =>
        \/ ny[s[i]] = s[i + 1]
        \/ ny[s[i]] = Null /\ \E p \in L : pw[p] = s[i] /\ dh[p][1] = s[i + 1]
  <2> TAKE i \in 1..(Len(s) - 1)
  <2> HAVE i # b
  <2>1. CASE nx[s[i]] = s[i + 1]
    BY <1>2, <2>1
  <2>2. CASE nx[s[i]] # s[i + 1]
    <3>1. PICK p \in L : nx[s[i]] = Null /\ pv[p] = s[i] /\ ch[p][1] = s[i + 1]
      BY <2>2 DEF Linked
    <3> QED
      BY <1>2, <3>1
  <2> QED
    BY <2>1, <2>2
<1>4. \A p \in L : \E i \in 1..(Len(s) - 1) :
        i # b /\ pw[p] = s[i] /\ dh[p][1] = s[i + 1] /\ ny[s[i]] = Null
  BY SMTT(60), <1>2 DEF Linked
<1> QED
  BY <1>1, <1>3, <1>4 DEF Linked

(* The end of the list follows the consumer's own items, or these get a link to
   the others.                                                               *)
LEMMA LinkSplit ==
  ASSUME NEW s \in Seq(Node), NEW b \in 0..Len(s), NEW L, NEW nx, NEW pv, NEW ch,
         Linked(s, b, L, nx, pv, ch)
  PROVE  /\ b = 0 => Linked(s, Len(s), L, nx, pv, ch)
         /\ b = Len(s) => Linked(s, 0, L, nx, pv, ch)
         /\ b = 1 /\ Len(s) > 1 /\ DOMAIN nx = Node =>
              Linked(s, 0, L, [nx EXCEPT ![s[1]] = s[2]], pv, ch)
<1>1. Len(s) \in Nat /\ \A i \in 1..Len(s) : s[i] \in Node
  OBVIOUS
<1>2. b = 0 => Linked(s, Len(s), L, nx, pv, ch)
  BY <1>1 DEF Linked
<1>3. b = Len(s) => Linked(s, 0, L, nx, pv, ch)
  BY <1>1 DEF Linked
<1>4. ASSUME b = 1, Len(s) > 1, DOMAIN nx = Node
      PROVE  Linked(s, 0, L, [nx EXCEPT ![s[1]] = s[2]], pv, ch)
  <2> DEFINE ny == [nx EXCEPT ![s[1]] = s[2]]
  <2>1. \A i, j \in 1..Len(s) : s[i] = s[j] => i = j
    BY DEF Linked
  <2>2. ny[s[1]] = s[2] /\ \A i \in 1..Len(s) : i # 1 => ny[s[i]] = nx[s[i]]
    BY <1>1, <1>4, <2>1
  <2> HIDE DEF ny
  <2>3. \A i \in 1..Len(s) : i = 0 \/ i = Len(s) => ny[s[i]] = Null
    BY <1>1, <1>4, <2>2 DEF Linked
  <2>4. ASSUME NEW i \in 1..(Len(s) - 1)
        PROVE  \/ ny[s[i]] = s[i + 1]
               \/ ny[s[i]] = Null /\ \E p \in L : pv[p] = s[i] /\ ch[p][1] = s[i + 1]
    <3>1. CASE i = 1
      BY <2>2, <3>1
    <3>2. CASE i # 1
      BY <1>1, <1>4, <2>2, <3>2 DEF Linked
    <3> QED
      BY <3>1, <3>2
  <2>5. ASSUME NEW p \in L
        PROVE  \E i \in 1..(Len(s) - 1) :
                 pv[p] = s[i] /\ ch[p][1] = s[i + 1] /\ ny[s[i]] = Null
    <3>1. PICK i \in 1..(Len(s) - 1) :
            i # b /\ pv[p] = s[i] /\ ch[p][1] = s[i + 1] /\ nx[s[i]] = Null
      BY DEF Linked
    <3>2. i \in 1..Len(s) /\ ny[s[i]] = nx[s[i]] /\ i # 0
      BY SMTT(60), <1>1, <1>4, <2>2, <3>1
    <3> QED
      BY <3>1, <3>2
  <2>6. \A p, q \in L : pv[p] = pv[q] => p = q
    BY DEF Linked
  <2>7. Linked(s, 0, L, ny, pv, ch)
    BY <2>1, <2>3, <2>4, <2>5, <2>6 DEF Linked
  <2> QED
    BY <2>7 DEF ny
<1> QED
  BY <1>2, <1>3, <1>4

(* A chain that was free stays so: of fewer producers, of a list without new items
   of theirs, and whatever links of other items change.                      *)
LEMMA LooseKeeps ==
  ASSUME NEW X, NEW s, NEW nx, NEW ch, Loose(X, s, nx, ch),
         NEW Y \in SUBSET X, NEW r, NEW ny, NEW dh, \A q \in Y : dh[q] = ch[q],
         \A q \in Y : \A i \in 1..Len(ch[q]) :
           ny[ch[q][i]] = nx[ch[q][i]] /\ \A j \in 1..Len(r) : ch[q][i] # r[j]
  PROVE  Loose(Y, r, ny, dh)
<1>1. ASSUME NEW q \in Y PROVE Fresh(dh[q], r, ny)
  <2> DEFINE c == ch[q]
  <2>1. Fresh(c, s, nx) /\ dh[q] = c
    BY DEF Loose
  <2>2. \A i \in 1..Len(c) : ny[c[i]] = nx[c[i]] /\ \A j \in 1..Len(r) : c[i] # r[j]
    OBVIOUS
  <2> HIDE DEF c
  <2>3. Len(c) \in 1..2 /\ Len(c) \in 1..Len(c) /\ 1 \in 1..Len(c)
    BY <2>1 DEF Fresh
  <2>4. Fresh(c, r, ny)
    BY <2>1, <2>2, <2>3 DEF Fresh
  <2> QED
    BY <2>1, <2>4
<1>2. \A p, q \in Y : p # q =>
        \A i \in 1..Len(dh[p]), j \in 1..Len(dh[q]) : dh[p][i] # dh[q][j]
  BY DEF Loose
<1> QED
  BY <1>1, <1>2 DEF Loose

(* What a producer appends is no longer of the free chains.                  *)
LEMMA LooseAppend ==
  ASSUME NEW X, NEW s \in Seq(Node), NEW nx, NEW ch, Loose(X, s, nx, ch), NEW p \in X
  PROVE  Loose(X \ {p}, s \o ch[p], nx, ch)
<1> DEFINE r == s \o ch[p]
<1>1. \A q \in X : Fresh(ch[q], s, nx)
  BY DEF Loose
<1>2. /\ Len(r) = Len(s) + Len(ch[p]) /\ Len(s) \in Nat /\ Len(ch[p]) \in Nat
      /\ \A i \in 1..Len(s) : r[i] = s[i]
      /\ \A i \in 1..Len(ch[p]) : r[Len(s) + i] = ch[p][i]
      /\ \A i \in 1..Len(r) : i > Len(s) => i - Len(s) \in 1..Len(ch[p])
  BY <1>1, Joined DEF Fresh
<1> HIDE DEF r
<1>3. ASSUME NEW q \in X \ {p}, NEW i \in 1..Len(ch[q]), NEW j \in 1..Len(r)
      PROVE  ch[q][i] # r[j]
  <2>1. CASE j =< Len(s)
    <3>1. r[j] = s[j] /\ j \in 1..Len(s)
      BY <1>2, <2>1
    <3> QED
      BY <1>1, <1>3, <3>1 DEF Fresh
  <2>2. CASE j > Len(s)
    <3>1. PICK k \in 1..Len(ch[p]) : k = j - Len(s)
      BY <1>2, <2>2
    <3>2. j = Len(s) + k
      BY <1>2, <3>1
    <3>3. r[j] = ch[p][k]
      BY <1>2, <3>2
    <3> QED
      BY <1>3, <3>3 DEF Loose
  <2> QED
    BY <1>2, <2>1, <2>2
<1>4. Loose(X \ {p}, r, nx, ch)
  BY <1>3, LooseKeeps
<1> QED
  BY <1>4 DEF r

(* A producer starts with items of its own.                                  *)
LEMMA LooseStart ==
  ASSUME NEW X, NEW s, NEW nx, NEW ch, Loose(X, s, nx, ch), NEW p, p \notin X,
         NEW ny, NEW dh, \A q \in X : dh[q] = ch[q], Fresh(dh[p], s, ny),
         \A q \in X : \A i \in 1..Len(ch[q]) :
           ny[ch[q][i]] = nx[ch[q][i]] /\ \A j \in 1..Len(dh[p]) : ch[q][i] # dh[p][j]
  PROVE  Loose(X \cup {p}, s, ny, dh)
<1>1. Loose(X, s, ny, dh)
  <2>1. \A q \in X : \A i \in 1..Len(ch[q]), j \in 1..Len(s) : ch[q][i] # s[j]
    BY DEF Loose, Fresh
  <2> QED
    BY <2>1, LooseKeeps
<1>2. \A q \in X \cup {p} : Fresh(dh[q], s, ny)
  BY <1>1 DEF Loose
<1>3. \A q \in X, u \in X : q # u =>
        \A i \in 1..Len(dh[q]), j \in 1..Len(dh[u]) : dh[q][i] # dh[u][j]
  BY <1>1 DEF Loose
<1>4. \A q \in X : \A i \in 1..Len(dh[q]), j \in 1..Len(dh[p]) :
        dh[q][i] # dh[p][j] /\ dh[p][j] # dh[q][i]
  OBVIOUS
<1> QED
  BY <1>2, <1>3, <1>4 DEF Loose

(* An element that is nowhere else in a list leaves the rest when it is first. *)
LEMMA WithoutFirst ==
  ASSUME NEW s \in Seq(Node), s # <<>>, \A i, j \in 1..Len(s) : s[i] = s[j] => i = j
  PROVE  /\ Without(s, s[1]) = Tail(s) /\ Queue!Without(s, s[1]) = Tail(s)
<1>1. Len(s) \in Nat \ {0} /\ DOMAIN s = 1..Len(s) /\ 1 \in 1..Len(s)
  OBVIOUS
<1> DEFINE k == CHOOSE i \in DOMAIN s : s[i] = s[1]
           r == [i \in 1..(Len(s) - 1) |-> IF i < k THEN s[i] ELSE s[i + 1]]
<1>2. k \in DOMAIN s /\ s[k] = s[1]
  BY <1>1
<1>3. k = 1
  BY <1>1, <1>2
<1> HIDE DEF k
<1>4. r = [i \in 1..(Len(s) - 1) |-> s[i + 1]]
  BY <1>3
<1>5. Tail(s) = [i \in 1..(Len(s) - 1) |-> s[i + 1]]
  <2>1. /\ Tail(s) \in Seq(Node) /\ Len(Tail(s)) = Len(s) - 1
        /\ \A i \in 1..Len(Tail(s)) : Tail(s)[i] = s[i + 1]
    BY HeadTailProperties
  <2>2. Tail(s) = [i \in 1..Len(Tail(s)) |-> Tail(s)[i]]
    BY <2>1, LenProperties
  <2> QED
    BY <2>1, <2>2
<1>6. \E i \in DOMAIN s : s[i] = s[1]
  BY <1>1
<1> HIDE DEF r
<1>7. Without(s, s[1]) = r
  BY <1>6 DEF Without, k, r
<1>8. Queue!Without(s, s[1]) = r
  BY <1>6 DEF Queue!Without, k, r
<1> QED
  BY <1>4, <1>5, <1>7, <1>8
-----------------------------------------------------------------------------
QueueLabels == {"idle", "xchg", "link", "head"}
QueueAt(l) == {p \in Producers : qpc[p] = l}
Item == Node \cup {Null}

SharedType ==
  /\ head \in Node \cup {Null, Mediator} /\ tail \in Item
  /\ next \in [Node -> Item] /\ fifo \in Seq(Node)
  /\ chain \in [Producers -> Seq(Node)] /\ prev \in [Producers -> Item]

QueueType ==
  /\ SharedType /\ qpc \in [Producers -> QueueLabels]
  /\ qcur \in Item /\ nxt \in Item /\ last \in Item

(* The consumer holds the first item.  It takes an item without a successor for the
   last only when the list, or its snapshot, ends there.                       *)
Cursor ==
  /\ cpc # "idle" => fifo # <<>> /\ qcur = fifo[1]
  /\ cpc = "pop_store" => nxt \in {Null, next[qcur]}
  /\ cpc = "pop_cas" => nxt = Null
  /\ cpc \in {"pop_cas", "capture_tail"} => head = Null
  /\ cpc = "popped" /\ nxt # Null => nxt = next[qcur] /\ qcur # last
  /\ cpc = "popped" /\ nxt = Null => last \in {Null, qcur}
  /\ cpc \in {"pop_read", "pop_store", "pop_cas", "pop_wait"} => last = Null

(* The consumer's own items: a snapshot, or the last item, with the tail reset. *)
Private(b) ==
  /\ cpc = "snapshot" \/ (cpc = "popped" /\ last # Null) => b > 0 /\ last = fifo[b]
  /\ cpc = "undo_wait" \/ (cpc = "popped" /\ last = Null /\ nxt = Null) => b = 1
  /\ cpc \notin {"snapshot", "undo_wait"} /\ (cpc = "popped" => last = Null /\ nxt # Null) => b = 0

(* The other items start at the head, which one producer at most has to write.  *)
Public(b) ==
  /\ \A p \in QueueAt("head") : /\ b < Len(fifo) /\ chain[p][1] = fifo[b + 1] /\ head = Null
                                /\ b > 0 \/ cpc = "idle"
  /\ \A p, q \in QueueAt("head") : p = q
  /\ b > 0 \/ cpc = "idle" => head = Null \/ (b < Len(fifo) /\ head = fifo[b + 1])

Split(b) ==
  /\ b \in 0..Len(fifo)
  /\ Linked(fifo, b, QueueAt("link"), next, prev, chain)
  /\ Loose(QueueAt("xchg"), fifo, next, chain)
  /\ tail = IF b = Len(fifo) THEN Null ELSE fifo[Len(fifo)]
  /\ Private(b) /\ Public(b)

QueueInv == QueueType /\ Cursor /\ \E b \in 0..Len(fifo) : Split(b)

\* What a step of the consumer starts from.
QueueStart(b) == QueueType /\ Cursor /\ b \in 0..Len(fifo) /\ Split(b)

(* A step that leaves the list, and what its producers do, alone.            *)
LEMMA SplitStays ==
  ASSUME NEW b, QueueStart(b), UNCHANGED <<next, chain, prev, fifo, qpc>>
  PROVE  /\ Linked(fifo, b, QueueAt("link"), next, prev, chain)'
         /\ Loose(QueueAt("xchg"), fifo, next, chain)'
         /\ QueueAt("head")' = QueueAt("head")
<1>1. /\ QueueAt("link")' = QueueAt("link") /\ QueueAt("xchg")' = QueueAt("xchg")
      /\ QueueAt("head")' = QueueAt("head")
  BY DEF QueueAt
<1>2. /\ Linked(fifo, b, QueueAt("link"), next, prev, chain)
      /\ Loose(QueueAt("xchg"), fifo, next, chain)
  BY DEF QueueStart, Split
<1>3. fifo' = fifo /\ next' = next /\ prev' = prev /\ chain' = chain
  OBVIOUS
<1> QED
  BY <1>1, <1>2, <1>3 DEF Linked, Loose, Fresh

(* The end of the list, of which the first item has a successor or none.     *)
LEMMA FirstItem ==
  ASSUME NEW b, QueueStart(b), cpc # "idle"
  PROVE  /\ Len(fifo) \in Nat \ {0} /\ \A i \in 1..Len(fifo) : fifo[i] \in Node
         /\ qcur = fifo[1] /\ qcur \in Node
         /\ next[qcur] # Null => 1 < Len(fifo) /\ 1 # b
         /\ next[qcur] # Null => next[qcur] = fifo[2]
         /\ \A i, j \in 1..Len(fifo) : fifo[i] = fifo[j] => i = j
<1>1. /\ fifo \in Seq(Node) /\ fifo # <<>> /\ qcur = fifo[1] /\ b \in 0..Len(fifo)
      /\ Linked(fifo, b, QueueAt("link"), next, prev, chain)
  BY DEF QueueStart, QueueType, SharedType, Cursor, Split
<1>2. Len(fifo) \in Nat \ {0} /\ \A i \in 1..Len(fifo) : fifo[i] \in Node
  BY <1>1
<1>3. 1 \in 1..Len(fifo) /\ Len(fifo) \in 1..Len(fifo)
  BY <1>2
<1>4. next[qcur] # Null => 1 # Len(fifo) /\ 1 # b
  BY <1>1, <1>3 DEF Linked
<1>5. ASSUME next[qcur] # Null PROVE next[qcur] = fifo[2]
  <2>1. 1 \in 1..(Len(fifo) - 1) /\ 1 # b
    BY <1>2, <1>4, <1>5
  <2>2. next[fifo[1]] = fifo[1 + 1]
    BY <1>1, <1>5, <2>1 DEF Linked
  <2> QED
    BY <1>1, <2>2
<1>6. \A i, j \in 1..Len(fifo) : fifo[i] = fifo[j] => i = j
  BY <1>1 DEF Linked
<1>7. qcur \in Node
  <2>1. fifo[1] \in Node /\ qcur = fifo[1]
    BY <1>1, <1>2, <1>3
  <2> QED
    BY <2>1
<1>8. ASSUME next[qcur] # Null PROVE 1 < Len(fifo)
  <2>1. PICK n \in Nat : n = Len(fifo) /\ n # 0 /\ n # 1
    BY <1>2, <1>4, <1>8
  <2> QED
    BY <2>1
<1> QED
  BY <1>1, <1>2, <1>4, <1>5, <1>6, <1>7, <1>8

(* Steps of the consumer that move no boundary.                              *)
LEMMA QueueReads ==
  ASSUME NEW b, QueueStart(b),
         \/ Queue!get_head \/ Queue!pop_read \/ Queue!pop_store \/ Queue!pop_wait
         \/ Queue!undo_store \/ Queue!capture \/ Queue!pop_snapshot_head
         \/ Queue!pop_cas /\ tail # qcur
         \/ Queue!undo_pop /\ ~(nxt = Null /\ tail = Null)
  PROVE  QueueStart(b)'
<1> USE Names DEF Queue!queue, Queue!producer, Queue!consumer
<1>0. /\ QueueType /\ Cursor /\ b \in 0..Len(fifo) /\ Private(b) /\ Public(b)
      /\ head \in Item \cup {Mediator}
      /\ tail = IF b = Len(fifo) THEN Null ELSE fifo[Len(fifo)]
      /\ Len(fifo) \in Nat
  BY DEF QueueStart, Split, QueueType, SharedType, Item
<1>1. UNCHANGED <<next, chain, prev, fifo, qpc, tail>>
  BY DEF Queue!get_head, Queue!pop_read, Queue!pop_store, Queue!pop_wait, Queue!undo_store,
         Queue!capture, Queue!pop_snapshot_head, Queue!pop_cas, Queue!undo_pop
<1>2. /\ Linked(fifo, b, QueueAt("link"), next, prev, chain)'
      /\ Loose(QueueAt("xchg"), fifo, next, chain)'
      /\ QueueAt("head")' = QueueAt("head")
  BY <1>1, SplitStays
<1>3. SUFFICES (/\ head \in Item \cup {Mediator} /\ qcur \in Item /\ nxt \in Item /\ last \in Item
                /\ Cursor /\ Private(b) /\ Public(b))'
  <2>1. SharedType' /\ (qpc \in [Producers -> QueueLabels])'
    BY <1>0, <1>1, <1>3 DEF QueueType, SharedType, Item
  <2>2. (b \in 0..Len(fifo) /\ tail = IF b = Len(fifo) THEN Null ELSE fifo[Len(fifo)])'
    BY <1>0, <1>1
  <2> QED
    BY <1>2, <1>3, <2>1, <2>2 DEF QueueStart, Split, QueueType
<1>4. cpc # "idle" => /\ Len(fifo) \in Nat \ {0} /\ qcur = fifo[1] /\ qcur \in Node
                      /\ next[qcur] # Null => 1 # b
                      /\ next[qcur] \in Item /\ \A i \in 1..Len(fifo) : fifo[i] \in Node
                      /\ \A i, j \in 1..Len(fifo) : fifo[i] = fifo[j] => i = j
  BY <1>0, FirstItem DEF QueueType, SharedType
<1>5. CASE Queue!get_head
  <2>1. b = 0 /\ head = fifo[1] /\ Len(fifo) > 0 /\ head \in Node /\ fifo # <<>>
    BY <1>0, <1>5 DEF Queue!get_head, Private, Public, QueueType, SharedType
  <2>2. QueueAt("head") = {}
    BY <1>0, <1>5, <2>1 DEF Queue!get_head, Public
  <2> QED
    BY <1>0, <1>1, <1>2, <1>5, <2>1, <2>2
    DEF Queue!get_head, Cursor, Private, Public, QueueType, Item
<1>6. CASE Queue!pop_read
  BY <1>0, <1>1, <1>2, <1>4, <1>6 DEF Queue!pop_read, Cursor, Private, Public, QueueType, Item
<1>7. CASE Queue!pop_store
  BY <1>0, <1>1, <1>2, <1>4, <1>7
  DEF Queue!pop_store, Queue!AfterStore, Cursor, Private, Public, QueueType, Item
<1>8. CASE Queue!pop_wait
  BY <1>0, <1>1, <1>2, <1>4, <1>8 DEF Queue!pop_wait, Cursor, Private, Public, QueueType, Item
<1>9. CASE Queue!undo_store
  BY <1>0, <1>1, <1>2, <1>4, <1>9 DEF Queue!undo_store, Cursor, Private, Public, QueueType, Item
<1>10. CASE Queue!capture
  BY <1>0, <1>1, <1>2, <1>4, <1>10 DEF Queue!capture, Cursor, Private, Public, QueueType, Item
<1>11. CASE Queue!pop_snapshot_head
  BY <1>0, <1>1, <1>2, <1>4, <1>11
  DEF Queue!pop_snapshot_head, Queue!SnapshotReady, Queue!SnapshotNext, Cursor, Private, Public,
      QueueType, Item
<1>12. CASE Queue!pop_cas /\ tail # qcur
  BY <1>0, <1>1, <1>2, <1>4, <1>12 DEF Queue!pop_cas, Cursor, Private, Public, QueueType, Item
<1>13. CASE Queue!undo_pop /\ ~(nxt = Null /\ tail = Null)
  BY <1>0, <1>1, <1>2, <1>4, <1>13 DEF Queue!undo_pop, Cursor, Private, Public, QueueType, Item
<1> QED
  BY <1>5, <1>6, <1>7, <1>8, <1>9, <1>10, <1>11, <1>12, <1>13

(* Steps of the consumer that move the boundary: the tail of a list of one item is
   reset, or put back; the tail of a snapshot is taken; the item that was put back
   gets its link.                                                            *)
LEMMA QueueSplits ==
  ASSUME NEW b, QueueStart(b),
         \/ Queue!pop_cas /\ tail = qcur
         \/ Queue!undo_pop /\ nxt = Null /\ tail = Null
         \/ Queue!capture_tail
  PROVE  \E d \in 0..Len(fifo)' : QueueStart(d)'
<1> USE Names DEF Queue!queue, Queue!producer, Queue!consumer
<1>8. PICK n \in Nat : n = Len(fifo)
  BY DEF QueueStart, QueueType, SharedType
<1>0. /\ QueueType /\ Cursor /\ b \in 0..n /\ Private(b) /\ Public(b)
      /\ tail = IF b = n THEN Null ELSE fifo[n]
      /\ Linked(fifo, b, QueueAt("link"), next, prev, chain)
  BY <1>8 DEF QueueStart, Split, QueueType, SharedType, Item
<1>1. /\ UNCHANGED <<next, chain, prev, fifo, qpc, head, qcur, nxt>>
      /\ cpc # "idle"
  BY DEF Queue!undo_pop, Queue!capture_tail, Queue!pop_cas
<1>2. /\ n \in Nat \ {0} /\ qcur = fifo[1] /\ qcur \in Node
      /\ \A i \in 1..n : fifo[i] \in Node
      /\ \A i, j \in 1..n : fifo[i] = fifo[j] => i = j
      /\ fifo \in Seq(Node)
  BY <1>1, <1>8, FirstItem DEF QueueStart, QueueType, SharedType
<1>3. /\ Loose(QueueAt("xchg"), fifo, next, chain)'
      /\ QueueAt("head")' = QueueAt("head") /\ QueueAt("link")' = QueueAt("link")
  BY <1>1, SplitStays DEF QueueAt
<1>4. PICK d \in 0..n : /\ Linked(fifo, d, QueueAt("link"), next, prev, chain)
                        /\ tail' = IF d = n THEN Null ELSE fifo[n]
                        /\ Cursor' /\ Private(d)' /\ Public(d)'
                        /\ tail' \in Item /\ last' \in Item
  <2>1. CASE Queue!pop_cas /\ tail = qcur
    <3>1. b = 0 /\ tail = fifo[n] /\ n \in 1..n /\ 1 \in 1..n
      BY <1>0, <1>2, <2>1 DEF Queue!pop_cas, Private
    <3>2. n = 1
      BY <1>2, <2>1, <3>1
    <3>3. Linked(fifo, n, QueueAt("link"), next, prev, chain)
      BY <1>8, <1>0, <1>2, <3>1, LinkSplit
    <3>4. tail' = Null /\ cpc' = "popped" /\ last' = last /\ last = Null /\ nxt = Null /\ head = Null
      BY <1>0, <2>1 DEF Queue!pop_cas, Cursor
    <3>5. Cursor' /\ Private(n)'
      BY <1>0, <1>1, <1>2, <3>2, <3>4 DEF Cursor, Private
    <3>6. QueueAt("head") = {}
      BY <1>0, <2>1, <3>1 DEF Public, Queue!pop_cas
    <3>7. Public(n)'
      BY <1>1, <1>3, <3>4, <3>6 DEF Public
    <3>8. n \in 0..n /\ tail' \in Item /\ last' \in Item
      BY <1>0, <1>2, <3>4 DEF QueueType, Item
    <3> QED
      BY <3>3, <3>4, <3>5, <3>7, <3>8
  <2>2. CASE Queue!undo_pop /\ nxt = Null /\ tail = Null
    <3>1. b = 1 /\ tail' = qcur /\ cpc' = "undo_store" /\ last' = last /\ last = Null
      BY <1>0, <2>2 DEF Queue!undo_pop, Private
    <3>2. n = 1
      <4>1. n \in 1..n /\ fifo[n] # Null
        BY <1>2
      <4> QED
        BY <1>0, <2>2, <3>1, <4>1
    <3>3. Linked(fifo, 0, QueueAt("link"), next, prev, chain)
      BY <1>8, <1>0, <1>2, <3>1, <3>2, LinkSplit
    <3>4. QueueAt("head") = {}
      BY <1>8, <1>0, <3>1, <3>2 DEF Public
    <3>5. Cursor' /\ Private(0)' /\ Public(0)'
      BY <1>0, <1>1, <1>2, <1>3, <3>1, <3>4 DEF Cursor, Private, Public
    <3> QED
      BY <1>0, <1>2, <3>1, <3>2, <3>3, <3>5 DEF QueueType, Item
  <2>3. CASE Queue!capture_tail
    <3>1. b = 0 /\ tail = fifo[n] /\ n \in 1..n /\ head = Null
      BY <1>0, <1>2, <2>3 DEF Queue!capture_tail, Private, Cursor
    <3>2. tail' = Null /\ last' = fifo[n] /\ cpc' = "snapshot" /\ fifo[n] \in Node
      BY <1>2, <2>3, <3>1 DEF Queue!capture_tail
    <3>3. Linked(fifo, n, QueueAt("link"), next, prev, chain)
      BY <1>8, <1>0, <1>2, <3>1, LinkSplit
    <3>4. QueueAt("head") = {}
      BY <1>0, <2>3, <3>1 DEF Public, Queue!capture_tail
    <3>5. Cursor' /\ head' = Null
      BY <1>0, <1>1, <1>2, <3>1, <3>2 DEF Cursor
    <3>6. Private(n)'
      BY <1>1, <1>2, <3>2 DEF Private
    <3>7. Public(n)'
      BY <1>1, <1>3, <3>2, <3>4, <3>5 DEF Public
    <3>8. n \in 0..n /\ tail' \in Item /\ last' \in Item
      BY <1>2, <3>2 DEF Item
    <3> QED
      BY <3>2, <3>3, <3>5, <3>6, <3>7, <3>8
  <2> QED
    BY <2>1, <2>2, <2>3
<1>5. QueueType'
  BY <1>0, <1>1, <1>4 DEF QueueType, SharedType, Item
<1>6. Linked(fifo, d, QueueAt("link"), next, prev, chain)'
  <2>1. Linked(fifo, d, QueueAt("link"), next, prev, chain)
    BY <1>4
  <2> QED
    BY <1>1, <1>3, <2>1 DEF Linked
<1>7. d \in 0..Len(fifo)' /\ (tail = IF d = Len(fifo) THEN Null ELSE fifo[Len(fifo)])'
  BY <1>8, <1>1, <1>4
<1> QED
  BY <1>3, <1>4, <1>5, <1>6, <1>7 DEF QueueStart, Split

LEMMA UndoWait ==
  ASSUME NEW b, QueueStart(b), Queue!undo_wait
  PROVE  QueueStart(0)'
<1> USE Names DEF Queue!queue, Queue!producer, Queue!consumer
<1>0. /\ QueueType /\ Cursor /\ b = 1 /\ b \in 0..Len(fifo) /\ Private(b) /\ Public(b)
      /\ tail = IF b = Len(fifo) THEN Null ELSE fifo[Len(fifo)]
      /\ Linked(fifo, b, QueueAt("link"), next, prev, chain)
      /\ Loose(QueueAt("xchg"), fifo, next, chain)
      /\ fifo \in Seq(Node) /\ next \in [Node -> Item] /\ DOMAIN next = Node
  BY DEF QueueStart, Split, QueueType, SharedType, Queue!undo_wait, Private
<1>1. /\ UNCHANGED <<chain, prev, fifo, qpc, head, tail, qcur, nxt, last>>
      /\ cpc = "undo_wait" /\ cpc' = "undo_store" /\ head # Null
      /\ next' = [next EXCEPT ![qcur] = head]
  BY DEF Queue!undo_wait
<1>2. /\ Len(fifo) \in Nat \ {0} /\ qcur = fifo[1] /\ qcur \in Node
      /\ \A i \in 1..Len(fifo) : fifo[i] \in Node
  BY <1>1, FirstItem
<1>3. head = fifo[2] /\ Len(fifo) > 1 /\ head \in Node
  BY <1>0, <1>1, <1>2 DEF Public
<1>4. QueueAt("head") = {} /\ QueueAt("head")' = {}
  BY <1>0, <1>1 DEF Public, QueueAt
<1>5. QueueAt("link")' = QueueAt("link") /\ QueueAt("xchg")' = QueueAt("xchg")
  BY <1>1 DEF QueueAt
<1>6. Linked(fifo, 0, QueueAt("link"), next', prev, chain)
  BY <1>0, <1>1, <1>2, <1>3, LinkSplit
<1>7. Loose(QueueAt("xchg"), fifo, next', chain)
  <2>1. ASSUME NEW q \in QueueAt("xchg"), NEW i \in 1..Len(chain[q])
        PROVE  /\ next'[chain[q][i]] = next[chain[q][i]]
               /\ \A j \in 1..Len(fifo) : chain[q][i] # fifo[j]
    <3>1. Fresh(chain[q], fifo, next)
      BY <1>0 DEF Loose
    <3>2. chain[q][i] \in Node /\ \A j \in 1..Len(fifo) : chain[q][i] # fifo[j]
      BY <3>1 DEF Fresh
    <3>3. 1 \in 1..Len(fifo)
      BY <1>2
    <3>4. chain[q][i] # qcur
      BY <1>2, <3>2, <3>3
    <3> QED
      BY <1>0, <1>1, <3>2, <3>4
  <2> QED
    BY <1>0, <2>1, LooseKeeps
<1>8. Cursor' /\ Private(0)' /\ Public(0)'
  BY <1>0, <1>1, <1>2, <1>4 DEF Cursor, Private, Public
<1>9. QueueType'
  <2>1. next' \in [Node -> Item]
    BY <1>0, <1>1, <1>3 DEF Item
  <2> QED
    BY <1>0, <1>1, <2>1 DEF QueueType, SharedType
<1>10. (0 \in 0..Len(fifo) /\ tail = IF 0 = Len(fifo) THEN Null ELSE fifo[Len(fifo)])'
  BY <1>0, <1>1, <1>2, <1>3
<1>11. /\ Linked(fifo, 0, QueueAt("link"), next, prev, chain)'
       /\ Loose(QueueAt("xchg"), fifo, next, chain)'
  BY SMTT(60), <1>1, <1>5, <1>6, <1>7 DEF Linked, Loose, Fresh
<1> QED
  BY <1>8, <1>9, <1>10, <1>11 DEF QueueStart, Split

(* The first item leaves the list, and nobody will write its link.           *)
LEMMA QueueTakes ==
  ASSUME NEW b, QueueStart(b), Queue!take
  PROVE  /\ fifo # <<>> /\ fifo' = Tail(fifo)
         /\ \E d \in 0..Len(fifo)' : QueueStart(d)'
<1> USE Names DEF Queue!queue, Queue!producer, Queue!consumer
<1>1. PICK n \in Nat : n = Len(fifo)
  BY DEF QueueStart, QueueType, SharedType
<1>2. /\ QueueType /\ Cursor /\ b \in 0..n /\ Private(b) /\ Public(b)
      /\ tail = IF b = n THEN Null ELSE fifo[n]
      /\ Linked(fifo, b, QueueAt("link"), next, prev, chain)
      /\ Loose(QueueAt("xchg"), fifo, next, chain)
      /\ fifo \in Seq(Node) /\ fifo # <<>> /\ qcur = fifo[1] /\ cpc = "popped"
  BY <1>1 DEF QueueStart, Split, QueueType, SharedType, Queue!take, Cursor
<1>3. /\ n \in Nat \ {0} /\ qcur \in Node /\ \A i \in 1..n : fifo[i] \in Node
      /\ next[qcur] # Null => 1 < n /\ 1 # b /\ next[qcur] = fifo[2]
      /\ \A i, j \in 1..n : fifo[i] = fifo[j] => i = j
  BY <1>1, <1>2, FirstItem
<1>4. /\ UNCHANGED <<head, tail, next, chain, prev, qpc, nxt, last>> /\ qcur' = nxt
      /\ cpc' = IF nxt = Null THEN "idle" ELSE IF last = Null THEN "pop_read" ELSE "snapshot"
  BY DEF Queue!take
<1>5. fifo' = Tail(fifo)
  BY <1>1, <1>2, <1>3, WithoutFirst DEF Queue!take
<1>6. nxt = Null => b = 1
  <2>1. 1 \in 1..n
    BY <1>3
  <2> QED
    BY <1>2, <1>3, <2>1 DEF Private, Cursor
<1>7. nxt # Null => nxt = fifo[2] /\ n > 1 /\ b # 1 /\ (last = Null <=> b = 0)
  BY <1>2, <1>3 DEF Private, Cursor
<1>8. PICK d \in Nat : d = IF b = 0 THEN 0 ELSE b - 1
  BY <1>2
<1>9. /\ Linked(Tail(fifo), d, QueueAt("link"), next, prev, chain)
      /\ Tail(fifo) \in Seq(Node) /\ Len(Tail(fifo)) = n - 1
      /\ \A i \in 1..(n - 1) : Tail(fifo)[i] = fifo[i + 1]
  <2>1. b = 1 \/ Len(fifo) = 1 \/ next[fifo[1]] # Null
    BY <1>2, <1>6 DEF Cursor
  <2> QED
    BY <1>1, <1>2, <1>8, <2>1, LinkTake
<1>10. /\ fifo' \in Seq(Node) /\ Len(fifo') = n - 1 /\ d \in 0..(n - 1)
       /\ \A i \in 1..(n - 1) : fifo'[i] = fifo[i + 1]
  BY <1>2, <1>3, <1>5, <1>7, <1>8, <1>9
<1>11. /\ QueueAt("link")' = QueueAt("link") /\ QueueAt("xchg")' = QueueAt("xchg")
       /\ QueueAt("head")' = QueueAt("head")
  BY <1>4 DEF QueueAt
<1>12. Linked(fifo, d, QueueAt("link"), next, prev, chain)'
  BY <1>4, <1>5, <1>9, <1>11 DEF Linked
<1>13. Loose(QueueAt("xchg"), fifo', next, chain)
  <2>1. ASSUME NEW q \in QueueAt("xchg"), NEW i \in 1..Len(chain[q]), NEW j \in 1..Len(fifo')
        PROVE  chain[q][i] # fifo'[j]
    <3>1. fifo'[j] = fifo[j + 1] /\ j + 1 \in 1..n
      BY <1>10
    <3> QED
      BY SMTT(60), <1>1, <1>2, <3>1 DEF Loose, Fresh
  <2> QED
    BY <1>2, <2>1, LooseKeeps
<1>14. Loose(QueueAt("xchg"), fifo, next, chain)'
  BY <1>4, <1>11, <1>13 DEF Loose, Fresh
<1>15. (tail = IF d = Len(fifo) THEN Null ELSE fifo[Len(fifo)])'
  <2>1. d = n - 1 <=> b = n
    BY <1>2, <1>3, <1>6, <1>7, <1>8
  <2>2. d # n - 1 => n - 1 \in 1..(n - 1) /\ n - 1 + 1 = n
    BY <1>10
  <2>3. d # n - 1 => fifo'[n - 1] = fifo[n]
    BY <1>10, <2>2
  <2> QED
    BY <1>2, <1>4, <1>10, <2>1, <2>3
<1>16. cpc' # "idle" => fifo' # <<>> /\ qcur' = fifo'[1]
  <2>1. nxt # Null => 1 \in 1..(n - 1) /\ fifo'[1] = fifo[2]
    <3>1. nxt # Null => 1 \in 1..(n - 1)
      BY <1>7
    <3> QED
      BY <1>10, <3>1
  <2> QED
    BY <1>4, <1>7, <1>10, <2>1
<1>17. Cursor'
  BY <1>4, <1>16 DEF Cursor
<1>18. Private(d)'
  <2>1. CASE nxt = Null
    BY <1>4, <1>6, <1>8, <2>1 DEF Private
  <2>2. CASE nxt # Null /\ last = Null
    BY <1>4, <1>7, <1>8, <2>2 DEF Private
  <2>3. CASE nxt # Null /\ last # Null
    <3>1. d > 0 /\ d \in 1..(n - 1) /\ d + 1 = b /\ last = fifo[b]
      BY <1>2, <1>7, <1>8, <1>10, <2>3 DEF Private
    <3>2. fifo'[d] = fifo[b]
      BY <1>10, <3>1
    <3> QED
      BY <1>4, <2>3, <3>1, <3>2 DEF Private
  <2> QED
    BY <2>1, <2>2, <2>3
<1>19. Public(d)'
  <2>1. CASE b = 0
    <3>1. QueueAt("head") = {} /\ d = 0 /\ cpc' # "idle"
      BY <1>2, <1>4, <1>6, <1>8, <2>1 DEF Public
    <3> QED
      BY <1>11, <3>1 DEF Public
  <2>2. CASE b # 0
    <3>1. d = b - 1 /\ (d > 0 \/ cpc' = "idle")
      BY <1>2, <1>4, <1>7, <1>8, <2>2
    <3>2. b < n => d < n - 1 /\ d + 1 \in 1..(n - 1) /\ d + 1 = b
      BY <1>2, <2>2, <3>1
    <3>3. b < n => fifo'[d + 1] = fifo[b + 1]
      BY <1>10, <3>2
    <3>4. b > 0
      BY <1>2, <2>2
    <3> QED
      BY <1>1, <1>2, <1>4, <1>10, <1>11, <3>1, <3>2, <3>3, <3>4 DEF Public
  <2> QED
    BY <2>1, <2>2
<1>20. QueueType'
  BY <1>2, <1>4, <1>10 DEF QueueType, SharedType
<1>21. d \in 0..Len(fifo)'
  BY <1>10
<1>22. QueueStart(d)'
  BY <1>12, <1>14, <1>15, <1>17, <1>18, <1>19, <1>20, <1>21 DEF QueueStart, Split
<1> QED
  BY <1>2, <1>5, <1>21, <1>22

(* A producer begins, with items that are nowhere else.                      *)
LEMMA QueueStarts ==
  ASSUME NEW b, QueueStart(b), NEW p \in Producers, Queue!push_start(p)
  PROVE  QueueStart(b)'
<1> USE Names DEF Queue!queue, Queue!producer, Queue!consumer
<1>1. PICK x \in Node, y \in Node :
        /\ x \notin Queue!InUse /\ y \notin Queue!InUse
        /\ chain' = [chain EXCEPT ![p] = IF x = y THEN <<x>> ELSE <<x, y>>]
        /\ next' = [next EXCEPT ![x] = IF x = y THEN Null ELSE y, ![y] = Null]
  BY DEF Queue!push_start
<1>2. /\ UNCHANGED <<head, tail, prev, fifo, cpc, qcur, nxt, last>>
      /\ qpc[p] = "idle" /\ qpc' = [qpc EXCEPT ![p] = "xchg"]
  BY DEF Queue!push_start
<1>3. QueueType /\ Cursor /\ b \in 0..Len(fifo) /\ Private(b) /\ Public(b)
  BY DEF QueueStart, Split
<1>4. /\ fifo \in Seq(Node) /\ chain \in [Producers -> Seq(Node)] /\ next \in [Node -> Item]
      /\ qpc \in [Producers -> QueueLabels]
  BY DEF QueueStart, QueueType, SharedType
<1>5. DOMAIN fifo = 1..Len(fifo) /\ \A i \in 1..Len(fifo) : fifo[i] \in Node
  BY <1>4
<1>6. Loose(QueueAt("xchg"), fifo, next, chain)
  BY DEF QueueStart, Split
<1>7. \A i \in 1..Len(fifo) : fifo[i] \in Node \ {x, y}
  <2>1. ASSUME NEW i \in DOMAIN fifo PROVE fifo[i] \in Queue!InUse
    BY Zenon DEF Queue!InUse
  <2> QED
    BY <1>1, <1>5, <2>1
<1>8. ASSUME NEW q \in QueueAt("xchg"), NEW i \in 1..Len(chain[q])
      PROVE  chain[q][i] \in Node \ {x, y}
  <2>1. q \in Producers /\ qpc[q] = "xchg"
    BY DEF QueueAt
  <2>2. chain[q] \in Seq(Node)
    BY Zenon, <1>4, <2>1
  <2>3. i \in DOMAIN chain[q] /\ chain[q][i] \in Node
    BY <2>2
  <2>4. chain[q][i] \in Queue!InUse
    <3> DEFINE Of(u) == {chain[u][k] : k \in DOMAIN chain[u]}
               Begun == {u \in Producers : qpc[u] = "xchg"}
    <3>1. chain[q][i] \in Of(q)
      BY Zenon, <2>3
    <3>2. q \in Begun
      BY Zenon, <2>1
    <3> HIDE DEF Of, Begun
    <3>3. chain[q][i] \in UNION {Of(u) : u \in Begun}
      BY Zenon, <3>1, <3>2
    <3> QED
      BY Zenon, <3>3 DEF Queue!InUse, Of, Begun
  <2> QED
    BY <1>1, <2>3, <2>4
<1>9. PICK c : c \in Seq(Node) /\ c = IF x = y THEN <<x>> ELSE <<x, y>>
  <2>1. <<x>> \in Seq(Node) /\ <<x, y>> \in Seq(Node)
    OBVIOUS
  <2> QED
    BY Zenon, <2>1
<1>10. /\ x = y => next'[x] = Null
       /\ x # y => next'[x] = y /\ next'[y] = Null
       /\ \A z \in Node \ {x, y} : next'[z] = next[z]
       /\ next' \in [Node -> Item]
  <2>1. next' = [next EXCEPT ![x] = IF x = y THEN Null ELSE y, ![y] = Null]
    BY <1>1
  <2>2. next \in [Node -> Item]
    BY <1>4
  <2> QED
    BY <2>1, <2>2 DEF Item
<1>11. /\ Len(c) \in 1..2 /\ \A i \in 1..Len(c) : c[i] \in {x, y}
       /\ Len(c) = 2 => c[1] # c[2] /\ next'[c[1]] = c[2]
       /\ next'[c[Len(c)]] = Null
  <2>1. CASE x = y
    <3>1. c = <<x>>
      BY <1>9, <2>1
    <3> QED
      BY <1>10, <2>1, <3>1
  <2>2. CASE x # y
    <3>1. c = <<x, y>>
      BY <1>9, <2>2
    <3> QED
      BY <1>10, <2>2, <3>1
  <2> QED
    BY <2>1, <2>2
<1>12. /\ chain' \in [Producers -> Seq(Node)] /\ chain'[p] = c
       /\ \A q \in Producers \ {p} : chain'[q] = chain[q]
  <2>1. chain' = [chain EXCEPT ![p] = c]
    BY Zenon, <1>1, <1>9
  <2>2. chain \in [Producers -> Seq(Node)] /\ c \in Seq(Node)
    BY <1>4, <1>9
  <2> QED
    BY <2>1, <2>2
<1>13. /\ QueueAt("link")' = QueueAt("link") /\ QueueAt("head")' = QueueAt("head")
       /\ QueueAt("xchg")' = QueueAt("xchg") \cup {p}
       /\ p \notin QueueAt("link") \cup QueueAt("head") \cup QueueAt("xchg")
       /\ qpc' \in [Producers -> QueueLabels]
  <2>1. qpc \in [Producers -> QueueLabels]
    BY <1>4
  <2>2. qpc' \in [Producers -> QueueLabels]
    BY <1>2, <2>1 DEF QueueLabels
  <2>3. qpc'[p] = "xchg" /\ \A q \in Producers \ {p} : qpc'[q] = qpc[q]
    BY <1>2, <2>1
  <2> QED
    BY <1>2, <2>2, <2>3 DEF QueueAt
<1>14. \A q \in QueueAt("link") \cup QueueAt("head") \cup QueueAt("xchg") : chain'[q] = chain[q]
  BY <1>12, <1>13 DEF QueueAt
<1>15. Linked(fifo, b, QueueAt("link"), next', prev, chain')
  <2>1. \A q \in QueueAt("link") : chain'[q] = chain[q]
    BY <1>14
  <2>2. \A i \in 1..Len(fifo) : next'[fifo[i]] = next[fifo[i]]
    BY <1>7, <1>10
  <2>3. fifo \in Seq(Node) /\ b \in 0..Len(fifo) /\ Linked(fifo, b, QueueAt("link"), next, prev, chain)
    BY <1>3, <1>4 DEF QueueStart, Split
  <2> QED
    BY <2>1, <2>2, <2>3, LinkKeeps
<1>16. Loose(QueueAt("xchg") \cup {p}, fifo, next', chain')
  <2>1. \A q \in QueueAt("xchg") : chain'[q] = chain[q]
    BY <1>14
  <2>2. \A i \in 1..Len(c), k \in 1..Len(fifo) : c[i] # fifo[k]
    BY <1>7, <1>11
  <2>3. Fresh(chain'[p], fifo, next')
    BY <1>9, <1>11, <1>12, <2>2 DEF Fresh
  <2>4. ASSUME NEW q \in QueueAt("xchg"), NEW i \in 1..Len(chain[q])
        PROVE  /\ next'[chain[q][i]] = next[chain[q][i]]
               /\ \A k \in 1..Len(chain'[p]) : chain[q][i] # chain'[p][k]
    <3>1. chain[q][i] \in Node \ {x, y}
      BY <1>8
    <3>2. \A k \in 1..Len(c) : chain[q][i] # c[k]
      BY <1>11, <3>1
    <3> QED
      BY Zenon, <1>10, <1>12, <3>1, <3>2
  <2>5. p \notin QueueAt("xchg")
    BY <1>13
  <2> QED
    BY <1>6, <2>1, <2>3, <2>4, <2>5, LooseStart
<1>17. Cursor'
  <2>1. ASSUME cpc # "idle" PROVE next'[qcur] = next[qcur]
    <3>1. Len(fifo) \in Nat \ {0} /\ qcur = fifo[1]
      BY <2>1, FirstItem
    <3>2. 1 \in 1..Len(fifo)
      BY <3>1
    <3> QED
      BY <1>7, <1>10, <3>1, <3>2
  <2>2. Cursor
    BY <1>3
  <2> QED
    BY <1>2, <2>1, <2>2 DEF Cursor
<1>18. Private(b)' /\ Public(b)'
  <2>1. \A q \in QueueAt("head") : chain'[q] = chain[q]
    BY <1>14
  <2>2. QueueAt("head")' = QueueAt("head")
    BY <1>13
  <2>3. Private(b) /\ Public(b)
    BY <1>3
  <2> QED
    BY <1>2, <2>1, <2>2, <2>3 DEF Private, Public
<1>19. QueueType'
  <2>1. QueueType
    BY <1>3
  <2> QED
    BY <1>2, <1>10, <1>12, <1>13, <2>1 DEF QueueType, SharedType
<1>20. /\ Linked(fifo, b, QueueAt("link"), next, prev, chain)'
       /\ Loose(QueueAt("xchg"), fifo, next, chain)'
  <2>1. fifo' = fifo /\ prev' = prev /\ QueueAt("link")' = QueueAt("link")
    BY <1>2, <1>13
  <2>2. Linked(fifo, b, QueueAt("link"), next, prev, chain)'
    BY <1>15, <2>1 DEF Linked
  <2>3. QueueAt("xchg")' = QueueAt("xchg") \cup {p}
    BY <1>13
  <2>4. Loose(QueueAt("xchg"), fifo, next, chain)'
    BY <1>16, <2>1, <2>3 DEF Loose, Fresh
  <2> QED
    BY <2>2, <2>4
<1>21. (b \in 0..Len(fifo) /\ tail = IF b = Len(fifo) THEN Null ELSE fifo[Len(fifo)])'
  BY <1>2, <1>3 DEF QueueStart, Split
<1> QED
  BY <1>17, <1>18, <1>19, <1>20, <1>21 DEF QueueStart, Split

(* A producer exchanges the tail: its items are in the list from then on.    *)
LEMMA QueueAppends ==
  ASSUME NEW b, QueueStart(b), NEW p \in Producers, Queue!push_xchg(p)
  PROVE  QueueStart(b)' /\ fifo' = fifo \o chain[p] /\ Fresh(chain[p], fifo, next)
<1> USE Names DEF Queue!queue, Queue!producer, Queue!consumer
<1> DEFINE c == chain[p]
<1>1. PICK n \in Nat : n = Len(fifo)
  BY DEF QueueStart, QueueType, SharedType
<1>2. /\ UNCHANGED <<head, next, chain, cpc, qcur, nxt, last>>
      /\ qpc[p] = "xchg" /\ prev' = [prev EXCEPT ![p] = tail]
      /\ tail' = c[Len(c)] /\ fifo' = fifo \o c
      /\ qpc' = [qpc EXCEPT ![p] = IF tail = Null THEN "head" ELSE "link"]
  BY DEF Queue!push_xchg, Queue!Last
<1>3. /\ QueueType /\ Cursor /\ b \in 0..n /\ Private(b) /\ Public(b)
      /\ tail = IF b = n THEN Null ELSE fifo[n]
      /\ Linked(fifo, b, QueueAt("link"), next, prev, chain)
      /\ Loose(QueueAt("xchg"), fifo, next, chain)
      /\ fifo \in Seq(Node) /\ chain \in [Producers -> Seq(Node)] /\ prev \in [Producers -> Item]
      /\ qpc \in [Producers -> QueueLabels] /\ tail \in Item
      /\ \A i \in 1..n : fifo[i] \in Node
  BY <1>1 DEF QueueStart, Split, QueueType, SharedType
<1>4. p \in QueueAt("xchg") /\ p \notin QueueAt("link") /\ p \notin QueueAt("head")
  BY <1>2 DEF QueueAt
<1>5. Fresh(c, fifo, next) /\ c \in Seq(Node)
  BY <1>3, <1>4 DEF Loose
<1>6. tail = Null <=> b = n
  <2>1. b # n => n \in 1..n
    BY <1>3
  <2> QED
    BY <1>3, <2>1
<1>7. PICK m \in {1, 2} : m = Len(c)
  BY <1>5 DEF Fresh
<1>8. /\ fifo' \in Seq(Node) /\ Len(fifo') = n + m
      /\ \A i \in 1..n : fifo'[i] = fifo[i]
      /\ \A i \in 1..m : fifo'[n + i] = c[i] /\ c[i] \in Node
  BY <1>1, <1>2, <1>3, <1>5, <1>7, Joined
<1>9. /\ QueueAt("link")' = (IF b = n THEN QueueAt("link") ELSE QueueAt("link") \cup {p})
      /\ QueueAt("head")' = (IF b = n THEN QueueAt("head") \cup {p} ELSE QueueAt("head"))
      /\ QueueAt("xchg")' = QueueAt("xchg") \ {p}
      /\ qpc' \in [Producers -> QueueLabels]
  BY <1>2, <1>3, <1>6 DEF QueueAt, QueueLabels
<1> HIDE DEF c
<1>10. Linked(fifo', b, QueueAt("link")', next, prev', chain)
  <2>1. \A q \in QueueAt("link") : prev'[q] = prev[q]
    BY <1>2, <1>3, <1>4 DEF QueueAt
  <2>2. b # Len(fifo) => prev'[p] = fifo[Len(fifo)]
    BY <1>1, <1>2, <1>3
  <2>3. /\ fifo \in Seq(Node) /\ b \in 0..Len(fifo) /\ p \notin QueueAt("link")
        /\ Linked(fifo, b, QueueAt("link"), next, prev, chain) /\ Fresh(chain[p], fifo, next)
    BY <1>1, <1>3, <1>4, <1>5 DEF c
  <2>4. Linked(fifo \o chain[p], b, IF b = Len(fifo) THEN QueueAt("link") ELSE QueueAt("link") \cup {p},
               next, prev', chain)
    BY <2>1, <2>2, <2>3, LinkAppend
  <2> QED
    BY <1>1, <1>2, <1>9, <2>4 DEF c
<1>11. Loose(QueueAt("xchg") \ {p}, fifo', next, chain)
  BY <1>2, <1>3, <1>4, LooseAppend DEF c
<1>12. (tail = IF b = Len(fifo) THEN Null ELSE fifo[Len(fifo)])' /\ tail' \in Item
  <2>1. b # n + m /\ n + m = n + Len(c) /\ Len(c) \in 1..m
    BY <1>3, <1>7
  <2>2. fifo'[n + m] = c[Len(c)] /\ c[Len(c)] \in Node
    BY <1>7, <1>8, <2>1
  <2> QED
    BY <1>2, <1>8, <2>1, <2>2 DEF Item
<1>13. cpc # "idle" => n > 0 /\ fifo'[1] = fifo[1]
  <2>1. cpc # "idle" => n \in Nat \ {0}
    BY <1>1, FirstItem
  <2>2. n \in Nat \ {0} => 1 \in 1..n
    OBVIOUS
  <2> QED
    BY <1>8, <2>1, <2>2
<1>14. Cursor'
  <2>1. fifo' # <<>>
    BY <1>8
  <2> QED
    BY <1>2, <1>3, <1>13, <2>1 DEF Cursor
<1>15. Private(b)'
  <2>1. b > 0 => fifo'[b] = fifo[b]
    BY <1>3, <1>8
  <2> QED
    BY <1>2, <1>3, <2>1 DEF Private
<1>16. Public(b)'
  <2>1. CASE b = n
    <3>1. QueueAt("head") = {}
      BY <1>1, <1>3, <2>1 DEF Public
    <3>2. b > 0 \/ cpc = "idle"
      BY <1>13, <2>1
    <3>3. head = Null
      BY <1>1, <1>3, <2>1, <3>2 DEF Public
    <3>4. b < n + m /\ 1 \in 1..m /\ b + 1 = n + 1
      BY <1>7, <2>1
    <3>5. fifo'[b + 1] = chain[p][1]
      BY <1>8, <3>4 DEF c
    <3> QED
      BY ZenonT(60), <1>2, <1>8, <1>9, <2>1, <3>1, <3>2, <3>3, <3>4, <3>5 DEF Public
  <2>2. CASE b # n
    <3>1. b < n /\ b < n + m /\ b + 1 \in 1..n
      BY <1>3, <1>7, <2>2
    <3>2. fifo'[b + 1] = fifo[b + 1]
      BY <1>8, <3>1
    <3> QED
      BY <1>2, <1>3, <1>8, <1>9, <2>2, <3>1, <3>2 DEF Public
  <2> QED
    BY <2>1, <2>2
<1>17. QueueType'
  <2>1. prev' \in [Producers -> Item]
    BY <1>2, <1>3
  <2> QED
    BY <1>2, <1>3, <1>8, <1>9, <1>12, <2>1 DEF QueueType, SharedType
<1>18. b \in 0..Len(fifo)'
  BY <1>3, <1>7, <1>8
<1>19. /\ Linked(fifo, b, QueueAt("link"), next, prev, chain)'
       /\ Loose(QueueAt("xchg"), fifo, next, chain)'
  <2>1. chain' = chain /\ next' = next /\ QueueAt("xchg")' = QueueAt("xchg") \ {p}
    BY <1>2, <1>9
  <2>2. Linked(fifo, b, QueueAt("link"), next, prev, chain)'
    BY <1>10, <2>1 DEF Linked
  <2>3. Loose(QueueAt("xchg"), fifo, next, chain)'
    BY SMTT(60), <1>11, <2>1 DEF Loose, Fresh
  <2> QED
    BY <2>2, <2>3
<1>20. QueueStart(b)'
  BY <1>12, <1>14, <1>15, <1>16, <1>17, <1>18, <1>19 DEF QueueStart, Split
<1> QED
  BY <1>2, <1>5, <1>20 DEF c

(* A producer writes the link it owes.                                       *)
LEMMA QueueLinks ==
  ASSUME NEW b, QueueStart(b), NEW p \in Producers, Queue!push_link(p)
  PROVE  QueueStart(b)'
<1> USE Names DEF Queue!queue, Queue!producer, Queue!consumer
<1>1. /\ UNCHANGED <<head, tail, chain, prev, fifo, cpc, qcur, nxt, last>>
      /\ qpc[p] = "link" /\ qpc' = [qpc EXCEPT ![p] = "idle"]
      /\ next' = [next EXCEPT ![prev[p]] = chain[p][1]]
  BY DEF Queue!push_link, Queue!First
<1>2. /\ QueueType /\ Cursor /\ b \in 0..Len(fifo) /\ Private(b) /\ Public(b)
      /\ tail = IF b = Len(fifo) THEN Null ELSE fifo[Len(fifo)]
      /\ Linked(fifo, b, QueueAt("link"), next, prev, chain)
      /\ Loose(QueueAt("xchg"), fifo, next, chain)
      /\ fifo \in Seq(Node) /\ next \in [Node -> Item] /\ DOMAIN next = Node
      /\ qpc \in [Producers -> QueueLabels]
  BY DEF QueueStart, Split, QueueType, SharedType
<1>3. p \in QueueAt("link")
  BY <1>1 DEF QueueAt
<1>4. /\ QueueAt("link")' = QueueAt("link") \ {p} /\ QueueAt("head")' = QueueAt("head")
      /\ QueueAt("xchg")' = QueueAt("xchg") /\ qpc' \in [Producers -> QueueLabels]
  BY <1>1, <1>2 DEF QueueAt, QueueLabels
<1>5. PICK k \in 1..(Len(fifo) - 1) :
        k # b /\ prev[p] = fifo[k] /\ chain[p][1] = fifo[k + 1] /\ next[fifo[k]] = Null
  BY <1>2, <1>3 DEF Linked
<1>6. prev[p] \in Node /\ chain[p][1] \in Node
  BY <1>2, <1>5
<1>7. Linked(fifo, b, QueueAt("link") \ {p}, next', prev, chain)
  <2>1. \A q \in QueueAt("link") \ {p} : prev[q] = prev[q] /\ chain[q] = chain[q]
    OBVIOUS
  <2>2. Linked(fifo, b, QueueAt("link") \ {p}, [next EXCEPT ![prev[p]] = chain[p][1]], prev, chain)
    BY <1>2, <1>3, <2>1, LinkWrite
  <2> QED
    BY <1>1, <2>2
<1>8. Loose(QueueAt("xchg"), fifo, next', chain)
  <2>1. ASSUME NEW q \in QueueAt("xchg"), NEW i \in 1..Len(chain[q])
        PROVE  /\ next'[chain[q][i]] = next[chain[q][i]]
               /\ \A j \in 1..Len(fifo) : chain[q][i] # fifo[j]
    <3>1. Fresh(chain[q], fifo, next)
      BY <1>2 DEF Loose
    <3>2. chain[q][i] \in Node /\ \A j \in 1..Len(fifo) : chain[q][i] # fifo[j]
      BY <3>1 DEF Fresh
    <3>3. k \in 1..Len(fifo)
      BY <1>2
    <3>4. chain[q][i] # prev[p]
      BY <1>5, <3>2, <3>3
    <3> QED
      BY <1>1, <1>2, <3>2, <3>4
  <2> QED
    BY <1>2, <2>1, LooseKeeps
<1>9. next' \in [Node -> Item] /\ \A z \in Node : next[z] # Null => next'[z] = next[z]
  BY <1>1, <1>2, <1>5, <1>6 DEF Item
<1>10. Cursor'
  <2>1. cpc # "idle" => qcur \in Node
    BY FirstItem
  <2> QED
    BY <1>1, <1>2, <1>9, <2>1 DEF Cursor
<1>11. Private(b)' /\ Public(b)'
  BY <1>1, <1>2, <1>4 DEF Private, Public
<1>12. QueueType'
  BY <1>1, <1>2, <1>4, <1>9 DEF QueueType, SharedType
<1>13. /\ Linked(fifo, b, QueueAt("link"), next, prev, chain)'
       /\ Loose(QueueAt("xchg"), fifo, next, chain)'
  BY <1>1, <1>4, <1>7, <1>8 DEF Linked, Loose, Fresh
<1>14. (b \in 0..Len(fifo) /\ tail = IF b = Len(fifo) THEN Null ELSE fifo[Len(fifo)])'
  BY <1>1, <1>2
<1> QED
  BY <1>10, <1>11, <1>12, <1>13, <1>14 DEF QueueStart, Split

(* The producer that found the list empty writes the head.                   *)
LEMMA QueueHeads ==
  ASSUME NEW b, QueueStart(b), NEW p \in Producers, Queue!push_head(p)
  PROVE  QueueStart(b)'
<1> USE Names DEF Queue!queue, Queue!producer, Queue!consumer
<1>1. /\ UNCHANGED <<tail, next, chain, prev, fifo, cpc, qcur, nxt, last>>
      /\ qpc[p] = "head" /\ qpc' = [qpc EXCEPT ![p] = "idle"]
      /\ head' = chain[p][1]
  BY DEF Queue!push_head, Queue!First
<1>2. /\ QueueType /\ Cursor /\ b \in 0..Len(fifo) /\ Private(b) /\ Public(b)
      /\ tail = IF b = Len(fifo) THEN Null ELSE fifo[Len(fifo)]
      /\ Linked(fifo, b, QueueAt("link"), next, prev, chain)
      /\ Loose(QueueAt("xchg"), fifo, next, chain)
      /\ fifo \in Seq(Node) /\ qpc \in [Producers -> QueueLabels] /\ Len(fifo) \in Nat
      /\ \A i \in 1..Len(fifo) : fifo[i] \in Node
  BY DEF QueueStart, Split, QueueType, SharedType
<1>3. p \in QueueAt("head")
  BY <1>1 DEF QueueAt
<1>4. /\ QueueAt("link")' = QueueAt("link") /\ QueueAt("head")' = QueueAt("head") \ {p}
      /\ QueueAt("xchg")' = QueueAt("xchg") /\ qpc' \in [Producers -> QueueLabels]
  BY <1>1, <1>2 DEF QueueAt, QueueLabels
<1>5. /\ b < Len(fifo) /\ chain[p][1] = fifo[b + 1] /\ (b > 0 \/ cpc = "idle")
      /\ QueueAt("head") \ {p} = {}
  BY <1>2, <1>3 DEF Public
<1>6. head' \in Node
  <2>1. b + 1 \in 1..Len(fifo)
    BY <1>2, <1>5
  <2> QED
    BY <1>1, <1>2, <1>5, <2>1
<1>7. Cursor'
  <2>1. cpc \notin {"pop_cas", "capture_tail"}
    BY <1>2, <1>5 DEF Private
  <2> QED
    BY <1>1, <1>2, <2>1 DEF Cursor
<1>8. Private(b)' /\ Public(b)'
  <2>1. Private(b)'
    BY <1>1, <1>2 DEF Private
  <2>2. Public(b)'
    BY <1>1, <1>4, <1>5 DEF Public
  <2> QED
    BY <2>1, <2>2
<1>9. QueueType'
  BY <1>1, <1>2, <1>4, <1>6 DEF QueueType, SharedType
<1>10. /\ Linked(fifo, b, QueueAt("link"), next, prev, chain)'
       /\ Loose(QueueAt("xchg"), fifo, next, chain)'
  BY <1>1, <1>2, <1>4 DEF Linked, Loose, Fresh
<1>11. (b \in 0..Len(fifo) /\ tail = IF b = Len(fifo) THEN Null ELSE fifo[Len(fifo)])'
  BY <1>1, <1>2
<1> QED
  BY <1>7, <1>8, <1>9, <1>10, <1>11 DEF QueueStart, Split

(* A chain that is appended, or the first item that leaves: a step of the FIFO. *)
LEMMA AbsSteps ==
  ASSUME fifo \in Seq(Node)
  PROVE  /\ \A c : Fresh(c, fifo, next) /\ fifo' = fifo \o c => Abs!Next
         /\ fifo # <<>> /\ fifo' = Tail(fifo) => Abs!Next
<1>1. ASSUME NEW c, Fresh(c, fifo, next), fifo' = fifo \o c PROVE Abs!Next
  <2>1. c \in Seq(Node) /\ Len(c) \in {1, 2} /\ DOMAIN c = 1..Len(c) /\ DOMAIN fifo = 1..Len(fifo)
    BY <1>1 DEF Fresh
  <2>2. c \in [1..Len(c) -> Node] /\ Len(c) \in 1..2
    BY <2>1, LenProperties
  <2>3. \A i, j \in DOMAIN c : c[i] = c[j] => i = j
    BY <1>1, <2>1 DEF Fresh
  <2>4. \A i \in DOMAIN c, j \in DOMAIN fifo : c[i] # fifo[j]
    BY <1>1, <2>1 DEF Fresh
  <2>5. c \in Abs!Chains
    BY <2>2, <2>3, <2>4 DEF Abs!Chains
  <2> QED
    BY <1>1, <2>5 DEF Abs!Next, Abs!Push
<1>2. ASSUME fifo # <<>>, fifo' = Tail(fifo) PROVE Abs!Next
  BY <1>2 DEF Abs!Next, Abs!Take
<1> QED
  BY <1>1, <1>2

(* The list of a queue, as one step of a producer or of the consumer leaves it. *)
LEMMA QueueStep ==
  ASSUME QueueInv, Queue!Next
  PROVE  QueueInv' /\ (Abs!Next \/ UNCHANGED fifo)
<1>1. PICK b \in 0..Len(fifo) : QueueStart(b)
  BY DEF QueueInv, QueueStart
<1>2. (\E d \in 0..Len(fifo) : QueueStart(d))' => QueueInv'
  BY DEF QueueInv, QueueStart
<1>3. QueueStart(b)' => (\E d \in 0..Len(fifo) : QueueStart(d))'
  BY DEF QueueStart
<1>4. fifo \in Seq(Node)
  BY <1>1 DEF QueueStart, QueueType, SharedType
<1>5. ASSUME NEW p \in Producers, Queue!push_start(p) PROVE QueueStart(b)' /\ UNCHANGED fifo
  BY <1>1, <1>5, QueueStarts DEF Queue!push_start
<1>6. ASSUME NEW p \in Producers, Queue!push_xchg(p) PROVE QueueStart(b)' /\ Abs!Next
  BY <1>1, <1>4, <1>6, QueueAppends, AbsSteps
<1>7. ASSUME NEW p \in Producers, Queue!push_link(p) PROVE QueueStart(b)' /\ UNCHANGED fifo
  BY <1>1, <1>7, QueueLinks DEF Queue!push_link
<1>8. ASSUME NEW p \in Producers, Queue!push_head(p) PROVE QueueStart(b)' /\ UNCHANGED fifo
  BY <1>1, <1>8, QueueHeads DEF Queue!push_head
<1>9. ASSUME Queue!take PROVE (\E d \in 0..Len(fifo) : QueueStart(d))' /\ Abs!Next
  BY <1>1, <1>4, <1>9, QueueTakes, AbsSteps
<1>10. ASSUME \/ Queue!get_head \/ Queue!pop_read \/ Queue!pop_store \/ Queue!pop_wait
              \/ Queue!undo_store \/ Queue!capture \/ Queue!pop_snapshot_head
              \/ Queue!pop_cas /\ tail # qcur
              \/ Queue!undo_pop /\ ~(nxt = Null /\ tail = Null)
       PROVE  QueueStart(b)' /\ UNCHANGED fifo
  <2>1. QueueStart(b)'
    BY <1>1, <1>10, QueueReads
  <2>2. UNCHANGED fifo
    BY <1>10 DEF Queue!get_head, Queue!pop_read, Queue!pop_store, Queue!pop_wait,
         Queue!undo_store, Queue!capture, Queue!pop_snapshot_head, Queue!pop_cas, Queue!undo_pop
  <2> QED
    BY <2>1, <2>2
<1>11. ASSUME \/ Queue!pop_cas /\ tail = qcur
              \/ Queue!undo_pop /\ nxt = Null /\ tail = Null
              \/ Queue!capture_tail
       PROVE  (\E d \in 0..Len(fifo) : QueueStart(d))' /\ UNCHANGED fifo
  <2>1. \E d \in 0..Len(fifo)' : QueueStart(d)'
    BY <1>1, <1>11, QueueSplits
  <2>2. UNCHANGED fifo
    BY <1>11 DEF Queue!pop_cas, Queue!undo_pop, Queue!capture_tail
  <2> QED
    BY <2>1, <2>2
<1>12. ASSUME Queue!undo_wait PROVE QueueStart(0)' /\ UNCHANGED fifo
  BY <1>1, <1>12, UndoWait DEF Queue!undo_wait
<1>13. QueueStart(0)' => (\E d \in 0..Len(fifo) : QueueStart(d))'
  BY DEF QueueStart
<1>14. \/ \E p \in Producers : \/ Queue!push_start(p) \/ Queue!push_xchg(p)
                               \/ Queue!push_link(p) \/ Queue!push_head(p)
       \/ Queue!get_head \/ Queue!pop_read \/ Queue!pop_store \/ Queue!pop_cas \/ Queue!pop_wait
       \/ Queue!undo_wait \/ Queue!undo_store \/ Queue!capture \/ Queue!capture_tail
       \/ Queue!pop_snapshot_head \/ Queue!take \/ Queue!undo_pop
  BY DEF Queue!Next, Queue!Push, Queue!Drain
<1> QED
  BY <1>2, <1>3, <1>5, <1>6, <1>7, <1>8, <1>9, <1>10, <1>11, <1>12, <1>13, <1>14, ZenonT(60)

LEMMA QueueBegins == Queue!Init => QueueInv
<1> SUFFICES ASSUME Queue!Init PROVE QueueInv
  OBVIOUS
<1> USE Names DEF Queue!Init
<1>1. QueueAt("link") = {} /\ QueueAt("xchg") = {} /\ QueueAt("head") = {}
  BY DEF QueueAt
<1>2. fifo = <<>> /\ Len(fifo) = 0 /\ 0 \in 0..Len(fifo)
  OBVIOUS
<1>3. QueueType
  BY DEF QueueType, SharedType, Item, QueueLabels
<1>4. Cursor
  BY DEF Cursor
<1>5. Linked(fifo, 0, {}, next, prev, chain) /\ Loose({}, fifo, next, chain)
  BY <1>2 DEF Linked, Loose
<1>6. Private(0) /\ Public(0)
  BY <1>1, <1>2 DEF Private, Public
<1>7. Split(0)
  BY <1>1, <1>2, <1>5, <1>6 DEF Split
<1> QED
  BY <1>2, <1>3, <1>4, <1>7 DEF QueueInv
-----------------------------------------------------------------------------
(* The pool of threads.  Where a producer or a worker may be, and what it asks for
   and returns to while it pokes.                                            *)
Poking == {"probe", "signal", "pool", "create"}
ProducerLabels == {"idle", "xchg", "link", "head"} \cup Poking
WorkerLabels == {"none", "drain", "undo", "contend", "check_tail", "one2", "one2_empty", "one2_full",
                 "next", "clear", "cas", "wait_next", "restore", "run", "sleep", "asleep", "exit"}
                \cup Poking
Places(t) == IF t \in Producers THEN ProducerLabels ELSE WorkerLabels
Returns(t) == IF t \in Producers THEN {"idle"} ELSE {"sleep", "run", "none"}

PoolType ==
  /\ DOMAIN at = Actors /\ DOMAIN want = Actors /\ DOMAIN after = Actors
  /\ \A t \in Actors : at[t] \in Places(t)
  /\ \A t \in Actors : at[t] \in Poking => want[t] \in 1..2 /\ after[t] \in Returns(t)
  /\ \A t \in Actors : at[t] = "create" => want[t] =< PoolSize
  /\ pool \in Nat

\* The workers that count, and the requests for threads as columns.
Live == {w \in Workers : at[w] # "none" /\ (at[w] \in Poking => after[w] # "none")}
Wanted == [t \in Actors |-> IF at[t] = "create" THEN want[t] ELSE 0]
Columns(f) == {p \in Actors \X (1..PoolSize) : p[2] =< f[p[1]]}

PoolInv == PoolType /\ pool + Cardinality(Columns(Wanted)) + Cardinality(Live) = PoolSize

LEMMA PoolFinite ==
  /\ PoolSize \in Nat \ {0} /\ IsFiniteSet(Workers) /\ IsFiniteSet(Actors)
  /\ Workers \subseteq Actors /\ Producers \subseteq Actors
  /\ \A w \in Workers : w \notin Producers
  /\ IsFiniteSet(Live) /\ Cardinality(Live) \in Nat
<1>1. Cardinality(Workers) \in Nat
  BY PoolAssumption, FS_CardinalityType
<1>2. IsFiniteSet(Actors)
  BY PoolAssumption, ActorsAssumption, FS_Union DEF Actors
<1>3. IsFiniteSet(Live) /\ Cardinality(Live) \in Nat
  BY PoolAssumption, FS_Subset, FS_CardinalityType DEF Live
<1> QED
  BY PoolAssumption, ActorsAssumption, <1>1, <1>2, <1>3 DEF Actors

(* The invariant is what the runs check.                                     *)
LEMMA PoolCounts == PoolInv => PoolAccounting
<1> SUFFICES ASSUME PoolInv PROVE PoolAccounting
  OBVIOUS
<1> DEFINE Leaving == {w \in Workers : at[w] = "none" \/ (at[w] \in {"probe", "signal", "pool", "create"}
                                                          /\ after[w] = "none")}
           Requests == {r \in Actors \X (1..PoolSize) : at[r[1]] = "create" /\ r[2] =< want[r[1]]}
<1>1. Workers \ Leaving = Live
  BY DEF Live, Poking
<1>2. Requests = Columns(Wanted)
  BY DEF Columns, Wanted
<1>3. pool >= 0 /\ \A t \in Actors : at[t] = "create" => want[t] \in 1..PoolSize
  BY PoolFinite DEF PoolInv, PoolType, Poking
<1>4. pool + Cardinality(Requests) + Cardinality(Workers \ Leaving) = PoolSize
  BY <1>1, <1>2 DEF PoolInv
<1> QED
  BY <1>3, <1>4 DEF PoolAccounting

(* Steps that are no poke's: they change nothing here, or a poke begins.      *)
Local(t) == /\ at[t] \notin Poking \cup {"none"} /\ UNCHANGED <<poking, pool>>
            /\ \E l \in Places(t) \ (Poking \cup {"none"}) : at' = [at EXCEPT ![t] = l]
Asks(t) == /\ at[t] \notin Poking \cup {"none"} /\ UNCHANGED pool
           /\ \E n \in 1..2, r \in Returns(t) \ {"none"} : Poke(t, n, r)

LEMMA ProducerLocal ==
  ASSUME PoolType, NEW p \in Producers,
         at[p] = "head" => Len(chain[p]) \in 1..2,
         push_start(p) \/ PushStep(p)
  PROVE  Local(p) \/ Asks(p)
<1> USE DEF threads, Go, Places, ProducerLabels, Poking, Returns, poking
<1>1. CASE push_start(p)
  BY <1>1 DEF push_start, Local
<1>2. CASE push_xchg(p)
  BY <1>2 DEF push_xchg, Local
<1>3. CASE push_link(p)
  BY <1>3 DEF push_link, Local
<1>4. CASE push_head(p)
  <2>1. Len(chain[p]) \in 1..2 /\ Poke(p, Len(chain[p]), "idle") /\ pool' = pool
    BY <1>4 DEF push_head
  <2> QED
    BY <1>4, <2>1 DEF push_head, Asks
<1> QED
  BY <1>1, <1>2, <1>3, <1>4 DEF PushStep

LEMMA WorkerLocal ==
  ASSUME PoolType, NEW w \in Workers, DrainStep(w) \/ worker_timeout(w), ~worker_exit(w)
  PROVE  Local(w) \/ Asks(w)
<1> USE PoolFinite DEF threads, Go, Places, WorkerLabels, Poking, Returns, poking
<1>1. CASE drain_xchg(w)
  BY <1>1 DEF drain_xchg, Local
<1>2. CASE drain_undo(w)
  BY <1>2 DEF drain_undo, Local
<1>3. CASE drain_checkTail(w)
  BY <1>3 DEF drain_checkTail, Local
<1>4. CASE drain_one2(w)
  BY <1>4 DEF drain_one2, Local
<1>5. CASE drain_one2_tail(w)
  BY <1>5 DEF drain_one2_tail, Local
<1>6. CASE drain_one_slow(w)
  BY <1>6 DEF drain_one_slow, Local, Asks
<1>7. CASE drain_next(w)
  BY <1>7 DEF drain_next, Local
<1>8. CASE drain_clear(w)
  BY <1>8 DEF drain_clear, Local
<1>9. CASE drain_cas(w)
  BY <1>9 DEF drain_cas, Local
<1>10. CASE drain_waitNext(w)
  BY <1>10 DEF drain_waitNext, Local
<1>11. CASE drain_restore(w)
  BY <1>11 DEF drain_restore, Asks
<1>12. CASE run_item(w)
  BY <1>12 DEF run_item, Local
<1>13. CASE worker_wait(w)
  BY <1>13 DEF worker_wait, Local
<1>14. CASE worker_timeout(w)
  BY <1>14 DEF worker_timeout, Local
<1> QED
  BY <1>1, <1>2, <1>3, <1>4, <1>5, <1>6, <1>7, <1>8, <1>9, <1>10, <1>11, <1>12, <1>13, <1>14
  DEF DrainStep

LEMMA PoolKeeps ==
  ASSUME PoolInv, PoolType', pool' = pool, Wanted' = Wanted, Live' = Live
  PROVE  PoolInv'
BY DEF PoolInv, Columns

LEMMA LocalKeeps ==
  ASSUME PoolInv, NEW t \in Actors, Local(t) \/ Asks(t)
  PROVE  PoolInv'
<1> USE PoolFinite DEF PoolInv, Poke, Go, poking
<1>1. CASE Local(t)
  <2>1. PICK l \in Places(t) \ (Poking \cup {"none"}) : at' = [at EXCEPT ![t] = l]
    BY <1>1 DEF Local
  <2>2. /\ at[t] \notin Poking \cup {"none"} /\ UNCHANGED <<want, after, pool>>
        /\ at'[t] = l /\ DOMAIN at' = DOMAIN at /\ \A u \in Actors \ {t} : at'[u] = at[u]
        /\ l # "create" /\ at[t] # "create"
    BY <1>1, <2>1 DEF Local, PoolType, Poking
  <2>3. PoolType'
    BY <2>1, <2>2 DEF PoolType
  <2>4. Wanted' = Wanted
    BY <2>2 DEF Wanted
  <2>5. Live' = Live
    BY <2>1, <2>2 DEF Live
  <2> QED
    BY <2>2, <2>3, <2>4, <2>5, PoolKeeps
<1>2. CASE Asks(t)
  <2>1. PICK n \in 1..2, r \in Returns(t) \ {"none"} : Poke(t, n, r)
    BY <1>2 DEF Asks
  <2>2. /\ at[t] \notin Poking \cup {"none"} /\ UNCHANGED pool
        /\ at'[t] = "probe" /\ want'[t] = n /\ after'[t] = r /\ at[t] # "create"
        /\ DOMAIN at' = Actors /\ DOMAIN want' = Actors /\ DOMAIN after' = Actors
        /\ \A u \in Actors \ {t} : at'[u] = at[u] /\ want'[u] = want[u] /\ after'[u] = after[u]
    BY <1>2, <2>1 DEF Asks, PoolType, Poking
  <2>3. "probe" \in Poking /\ "probe" \in Places(t)
    BY DEF Poking, Places, ProducerLabels, WorkerLabels
  <2>4. PoolType'
    BY <2>1, <2>2, <2>3 DEF PoolType
  <2>5. Wanted' = Wanted
    BY <2>2 DEF Wanted
  <2>6. Live' = Live
    BY <2>1, <2>2, <2>3 DEF Live
  <2> QED
    BY <2>2, <2>4, <2>5, <2>6, PoolKeeps
<1> QED
  BY <1>1, <1>2

LEMMA WantedMoves ==
  ASSUME PoolType, PoolType', NEW t \in Actors, \A u \in Actors \ {t} : Wanted'[u] = Wanted[u]
  PROVE  /\ Cardinality(Columns(Wanted)) \in Nat /\ Cardinality(Columns(Wanted))' \in Nat
         /\ Cardinality(Columns(Wanted))' = Cardinality(Columns(Wanted)) + Wanted'[t] - Wanted[t]
<1>1. Wanted \in [Actors -> 0..PoolSize]
  BY PoolFinite DEF Wanted, PoolType, Poking
<1>2. Wanted' \in [Actors -> 0..PoolSize]
  BY PoolFinite DEF Wanted, PoolType, Poking
<1>3. IsFiniteSet(Actors) /\ PoolSize \in Nat
  BY PoolFinite
<1>4. LET Under(h) == {p \in Actors \X (1..PoolSize) : p[2] =< h[p[1]]}
      IN  /\ Cardinality(Under(Wanted)) \in Nat /\ Cardinality(Under(Wanted')) \in Nat
          /\ Cardinality(Under(Wanted')) = Cardinality(Under(Wanted)) + Wanted'[t] - Wanted[t]
  BY <1>1, <1>2, <1>3, ColumnsMove
<1> QED
  BY <1>4 DEF Columns

(* A poke ends, or one of the threads it asks for is woken or created.       *)
LEMMA Served_t ==
  ASSUME PoolType, NEW t \in Actors, at[t] \in {"signal", "create"}, NEW w \in Workers, w # t,
         at[w] \in {"asleep", "none"}, NEW l \in {"signal", "create"}, l = at[t],
         Served(t, w, l), pool' = pool
  PROVE  /\ PoolType' /\ t \notin Live' \ Live /\ t \notin Live \ Live'
         /\ Live' \ {w} = Live \ {w} /\ w \in Live'
         /\ \A u \in Actors \ {t} : Wanted'[u] = Wanted[u]
         /\ Wanted'[t] = IF l = "create" THEN Wanted[t] - 1 ELSE 0
<1> USE PoolFinite
<1>1. /\ want[t] \in 1..2 /\ after[t] \in Returns(t) /\ (l = "create" => want[t] =< PoolSize)
      /\ at[t] \in Poking /\ w \in Actors /\ at[w] \notin Poking
  BY DEF PoolType, Poking
<1>2. /\ at'[w] = "drain" /\ at'[t] = (IF want[t] = 1 THEN after[t] ELSE l)
      /\ DOMAIN at' = Actors /\ \A u \in Actors \ {t, w} : at'[u] = at[u]
  BY <1>1 DEF Served, PoolType
<1>3. /\ want'[t] = want[t] - 1 /\ DOMAIN want' = Actors
      /\ \A u \in Actors \ {t} : want'[u] = want[u]
  BY <1>1 DEF Served, PoolType
<1>4. /\ after'[t] = (IF want[t] = 1 THEN "idle" ELSE after[t]) /\ DOMAIN after' = Actors
      /\ \A u \in Actors \ {t} : after'[u] = after[u]
  BY <1>1 DEF Served, PoolType
<1>5. /\ "drain" \in Places(w) /\ "drain" \notin Poking \cup {"none"}
      /\ after[t] \in Places(t) \ Poking /\ l \in Places(t) \cap Poking
  BY <1>1 DEF Places, Returns, ProducerLabels, WorkerLabels, Poking
<1>6. PoolType'
  <2>1. \A u \in Actors : at'[u] \in Places(u)
    BY <1>2, <1>5 DEF PoolType
  <2>2. ASSUME NEW u \in Actors, at'[u] \in Poking
        PROVE  /\ want'[u] \in 1..2 /\ after'[u] \in Returns(u)
               /\ at'[u] = "create" => want'[u] =< PoolSize
    <3>1. CASE u = t
      BY <1>1, <1>2, <1>3, <1>4, <1>5, <2>2, <3>1
    <3>2. CASE u # t
      BY <1>2, <1>3, <1>4, <1>5, <2>2, <3>2 DEF PoolType
    <3> QED
      BY <3>1, <3>2
  <2>3. "create" \in Poking
    BY DEF Poking
  <2> QED
    BY <1>2, <1>3, <1>4, <2>1, <2>2, <2>3 DEF PoolType
<1>7. t \in Workers => (t \in Live <=> t \in Live')
  BY <1>1, <1>2, <1>4, <1>5 DEF Live, Poking
<1>8. Live' \ {w} = Live \ {w} /\ w \in Live'
  <2>1. \A u \in Workers \ {t, w} : u \in Live' <=> u \in Live
    BY <1>2, <1>4 DEF Live
  <2>2. w \in Live'
    BY <1>2, <1>5 DEF Live
  <2> QED
    BY <1>7, <2>1, <2>2 DEF Live
<1>9. \A u \in Actors \ {t} : Wanted'[u] = Wanted[u]
  BY <1>1, <1>2, <1>3, <1>5 DEF Wanted, Poking
<1>10. Wanted'[t] = IF l = "create" THEN Wanted[t] - 1 ELSE 0
  BY <1>1, <1>2, <1>3, <1>5 DEF Wanted, Poking
<1> QED
  BY <1>6, <1>7, <1>8, <1>9, <1>10 DEF Live

LEMMA ReturnKeeps ==
  ASSUME PoolInv, NEW t \in Actors, at[t] \in {"probe", "pool"}, Return(t), pool' = pool
  PROVE  PoolInv'
<1>1. at[t] \in Poking /\ after[t] \in Returns(t)
  BY DEF PoolInv, PoolType, Poking
<1>2. /\ at'[t] = after[t] /\ want'[t] = 0 /\ after'[t] = "idle"
      /\ DOMAIN at' = Actors /\ DOMAIN want' = Actors /\ DOMAIN after' = Actors
      /\ \A u \in Actors \ {t} : at'[u] = at[u] /\ want'[u] = want[u] /\ after'[u] = after[u]
  BY DEF Return, Go, PoolInv, PoolType
<1>3. after[t] \in Places(t) \ Poking
  BY <1>1 DEF Places, Returns, ProducerLabels, WorkerLabels, Poking
<1>4. PoolType'
  BY <1>2, <1>3 DEF PoolInv, PoolType, Poking
<1>5. Wanted' = Wanted
  BY <1>2, <1>3 DEF Wanted, Poking
<1>6. Live' = Live
  BY <1>1, <1>2, <1>3, PoolFinite DEF Live
<1> QED
  BY <1>4, <1>5, <1>6, PoolKeeps

LEMMA PokeKeeps ==
  ASSUME PoolInv, NEW t \in Actors, PokeStep(t)
  PROVE  PoolInv'
<1> USE PoolFinite DEF threads, poking
<1>1. CASE poke_probe(t)
  <2>1. CASE tail = Null
    BY <1>1, <2>1, ReturnKeeps DEF poke_probe
  <2>2. CASE tail # Null
    <3>1. at[t] = "probe" /\ at' = [at EXCEPT ![t] = "signal"] /\ UNCHANGED <<pool, want, after>>
      BY <1>1, <2>2 DEF poke_probe, Go
    <3>2. PoolType'
      BY <3>1 DEF PoolInv, PoolType, Poking, Places, ProducerLabels, WorkerLabels
    <3>3. Wanted' = Wanted /\ Live' = Live
      BY <3>1 DEF Wanted, Live, Poking, PoolInv, PoolType
    <3> QED
      BY <3>1, <3>2, <3>3, PoolKeeps
  <2> QED
    BY <2>1, <2>2
<1>2. CASE poke_signal(t)
  <2>1. CASE \E w \in Asleep : Served(t, w, "signal")
    <3>1. PICK w \in Workers : at[w] = "asleep" /\ Served(t, w, "signal")
      BY <2>1 DEF Asleep
    <3>2. at[t] = "signal" /\ pool' = pool /\ w # t
      BY <1>2, <3>1 DEF poke_signal
    <3>3. PoolType
      BY DEF PoolInv
    <3>4. /\ PoolType' /\ Live' \ {w} = Live \ {w} /\ w \in Live'
          /\ \A u \in Actors \ {t} : Wanted'[u] = Wanted[u]
          /\ Wanted'[t] = 0
      BY <3>1, <3>2, <3>3, Served_t
    <3>5. Wanted[t] = 0 /\ w \in Live
      BY <3>1, <3>2 DEF Wanted, Live, Poking
    <3>6. Live' = Live
      BY <3>4, <3>5
    <3>7. Wanted' = Wanted
      BY <3>4, <3>5 DEF Wanted
    <3> QED
      BY <3>2, <3>4, <3>6, <3>7, PoolKeeps
  <2>2. CASE Go(t, "pool") /\ UNCHANGED poking
    <3>1. at[t] = "signal" /\ at' = [at EXCEPT ![t] = "pool"] /\ UNCHANGED <<pool, want, after>>
      BY <1>2, <2>2 DEF poke_signal, Go
    <3>2. PoolType'
      BY <3>1 DEF PoolInv, PoolType, Poking, Places, ProducerLabels, WorkerLabels
    <3>3. Wanted' = Wanted /\ Live' = Live
      BY <3>1 DEF Wanted, Live, Poking, PoolInv, PoolType
    <3> QED
      BY <3>1, <3>2, <3>3, PoolKeeps
  <2> QED
    BY <1>2, <2>1, <2>2 DEF poke_signal
<1>3. CASE poke_pool(t)
  <2>1. CASE pool = 0
    BY <1>3, <2>1, ReturnKeeps DEF poke_pool
  <2>2. CASE pool # 0
    <3>1. PICK g \in Nat : g = Granted(t)
      BY <1>3 DEF poke_pool, Granted, PoolInv, PoolType, Poking
    <3>2. /\ at[t] = "pool" /\ pool' = pool - g /\ UNCHANGED after
          /\ at' = [at EXCEPT ![t] = "create"] /\ want' = [want EXCEPT ![t] = g]
      BY <1>3, <2>2, <3>1 DEF poke_pool, Go
    <3>3. PoolType /\ pool \in Nat /\ want[t] \in 1..2 /\ Cardinality(Columns(Wanted)) \in Nat
      <4>1. PoolType
        BY DEF PoolInv
      <4>2. Wanted \in [Actors -> 0..PoolSize]
        BY <4>1 DEF Wanted, PoolType, Poking
      <4>3. Cardinality(Columns(Wanted)) \in Nat
        BY <4>2, ColumnsBound DEF Columns
      <4> QED
        BY <3>2, <4>1, <4>3 DEF PoolType, Poking
    <3>4. g \in 1..2 /\ g =< pool /\ g =< PoolSize
      BY <2>2, <3>1, <3>3 DEF Granted, PoolInv
    <3>5. PoolType'
      BY <3>2, <3>3, <3>4 DEF PoolType, Poking, Places, ProducerLabels, WorkerLabels
    <3>6. Wanted[t] = 0 /\ Wanted'[t] = g /\ \A u \in Actors \ {t} : Wanted'[u] = Wanted[u]
      BY <3>2, <3>3 DEF Wanted, PoolType
    <3>7. Cardinality(Columns(Wanted))' = Cardinality(Columns(Wanted)) + g
      BY <3>3, <3>4, <3>5, <3>6, WantedMoves
    <3>8. Live' = Live
      BY <3>2, <3>3 DEF Live, Poking, PoolType
    <3> QED
      BY <3>2, <3>3, <3>4, <3>5, <3>7, <3>8 DEF PoolInv
  <2> QED
    BY <2>1, <2>2
<1>4. CASE poke_create(t)
  <2>1. NewThread \in Workers /\ at[NewThread] = "none"
    BY <1>4 DEF poke_create, NewThread
  <2>2. PICK w \in Workers : w = NewThread
    BY <2>1
  <2>3. at[w] = "none" /\ at[t] = "create" /\ Served(t, w, "create") /\ pool' = pool /\ w # t
    BY <1>4, <2>1, <2>2 DEF poke_create
  <2>4. PoolType
    BY DEF PoolInv
  <2>5. /\ PoolType' /\ Live' \ {w} = Live \ {w} /\ w \in Live'
        /\ \A u \in Actors \ {t} : Wanted'[u] = Wanted[u]
        /\ Wanted'[t] = Wanted[t] - 1
    BY <2>3, <2>4, Served_t
  <2>6. Wanted[t] \in Nat
    BY <2>4 DEF Wanted, PoolType, Poking
  <2>7. /\ Cardinality(Columns(Wanted)) \in Nat
        /\ Cardinality(Columns(Wanted))' = Cardinality(Columns(Wanted)) - 1
    BY <2>4, <2>5, <2>6, WantedMoves
  <2>8. w \notin Live
    BY <2>3 DEF Live
  <2>9. Cardinality(Live') = Cardinality(Live) + 1 /\ Cardinality(Live) \in Nat
    BY <2>5, <2>8, CountMoves
  <2> QED
    BY <2>3, <2>4, <2>5, <2>7, <2>9 DEF PoolInv, PoolType
<1> QED
  BY <1>1, <1>2, <1>3, <1>4 DEF PokeStep

LEMMA ExitKeeps ==
  ASSUME PoolInv, NEW w \in Workers, worker_exit(w)
  PROVE  PoolInv'
<1>1. /\ at[w] = "exit" /\ pool' = pool + 1 /\ w \in Actors /\ w \notin Producers
      /\ at'[w] = "probe" /\ want'[w] = 1 /\ after'[w] = "none"
      /\ DOMAIN at' = Actors /\ DOMAIN want' = Actors /\ DOMAIN after' = Actors
      /\ \A u \in Actors \ {w} : at'[u] = at[u] /\ want'[u] = want[u] /\ after'[u] = after[u]
  BY PoolFinite DEF worker_exit, ExitPokes, Poke, Go, PoolInv, PoolType
<1>2. PoolType /\ pool \in Nat
  BY DEF PoolInv, PoolType
<1>3. PoolType'
  BY <1>1, <1>2 DEF PoolType, Poking, Places, WorkerLabels, Returns
<1>4. Wanted' = Wanted
  BY <1>1 DEF Wanted
<1>5. Live' \ {w} = Live \ {w} /\ w \in Live /\ w \notin Live'
  BY <1>1, PoolFinite DEF Live, Poking
<1>6. Cardinality(Live') = Cardinality(Live) - 1 /\ Cardinality(Live) \in Nat
  BY <1>5, CountMoves, PoolFinite
<1>7. Columns(Wanted)' = Columns(Wanted)
  BY <1>4 DEF Columns
<1>8. Cardinality(Columns(Wanted)) \in Nat
  <2>1. Wanted \in [Actors -> 0..PoolSize]
    BY <1>2, PoolFinite DEF Wanted, PoolType, Poking
  <2> QED
    BY <2>1, ColumnsBound, PoolFinite DEF Columns
<1> QED
  BY <1>1, <1>2, <1>3, <1>6, <1>7, <1>8, PoolFinite DEF PoolInv

LEMMA PoolStep ==
  ASSUME PoolInv, RootNext, \A p \in Producers : at[p] = "head" => Len(chain[p]) \in 1..2
  PROVE  PoolInv'
<1>1. ASSUME NEW p \in Producers, push_start(p) \/ PushStep(p) PROVE PoolInv'
  BY <1>1, ProducerLocal, LocalKeeps, PoolFinite DEF PoolInv
<1>2. ASSUME NEW w \in Workers, DrainStep(w) \/ worker_timeout(w) PROVE PoolInv'
  <2>1. CASE worker_exit(w)
    BY <2>1, ExitKeeps
  <2>2. CASE ~worker_exit(w)
    BY <1>2, <2>2, WorkerLocal, LocalKeeps, PoolFinite DEF PoolInv
  <2> QED
    BY <2>1, <2>2
<1>3. ASSUME NEW t \in Actors, PokeStep(t) PROVE PoolInv'
  BY <1>3, PokeKeeps
<1> QED
  BY <1>1, <1>2, <1>3, PoolFinite DEF RootNext

LEMMA PoolBegins == RootInit => PoolInv
<1> SUFFICES ASSUME RootInit PROVE PoolInv
  OBVIOUS
<1> USE PoolFinite DEF RootInit
<1>1. PoolType
  BY DEF PoolType, Poking, Places, ProducerLabels, WorkerLabels
<1>2. Live = {}
  BY DEF Live
<1>3. Columns(Wanted) = {}
  BY DEF Columns, Wanted
<1> QED
  BY <1>1, <1>2, <1>3, FS_EmptySet DEF PoolInv
-----------------------------------------------------------------------------
(* The list of a root queue.  A worker that took the head holds the list until it
   has found the item that follows, or that there is none: the line s is the item
   it holds, if there is one, and the items that were not taken.             *)
Owned == {"next", "clear", "cas", "wait_next", "restore"}
Holders == {w \in Workers : at[w] \in Owned}
RootAt(l) == {p \in Producers : at[p] = l}

RootShape(s) ==
  /\ SharedType /\ s \in Seq(Node) /\ cur \in [Workers -> Item] /\ pushed \in Nat
  /\ Linked(s, 0, RootAt("link"), next, prev, chain)
  /\ Loose(RootAt("xchg"), s, next, chain)
  /\ tail = IF s = <<>> THEN Null ELSE s[Len(s)]
  /\ \A p \in Producers : at[p] \in {"link", "head"} => Len(chain[p]) \in 1..2

RootHeld(s) ==
  /\ Holders = {} => s = fifo
  /\ \A w \in Holders : s # <<>> /\ cur[w] = s[1] /\ fifo = Tail(s)
  /\ \A v, w \in Holders : v = w
  /\ \A w \in Holders : at[w] = "restore" => next[cur[w]] # Null

(* Nobody writes the head but a worker that gives the list back, and a producer that
   found it empty.                                                           *)
RootHead ==
  /\ \A p \in RootAt("head") : Holders = {} /\ head \notin Node /\ fifo # <<>> /\ chain[p][1] = fifo[1]
  /\ \A p, q \in RootAt("head") : p = q
  /\ head \in Node => Holders = {} /\ fifo # <<>> /\ head = fifo[1]

(* Items are pushed in turn.                                                 *)
RootFresh(s) ==
  /\ \A n \in Node : n > pushed => next[n] = Null
  /\ \A i \in 1..Len(s) : s[i] =< pushed
  /\ \A p \in RootAt("xchg") : \A i \in 1..Len(chain[p]) : chain[p][i] =< pushed

RootStart(s) == RootShape(s) /\ RootHeld(s) /\ RootHead /\ RootFresh(s)
RootInv == \E s \in Seq(Node) : RootStart(s)

(* Threads that are about the list neither before a step nor after it.       *)
Touching == {"xchg", "link", "head"} \cup Owned

LEMMA RootQuiet ==
  ASSUME \A u \in Actors : at'[u] = at[u] \/ (at[u] \notin Touching /\ at'[u] \notin Touching)
  PROVE  /\ RootAt("xchg")' = RootAt("xchg") /\ RootAt("link")' = RootAt("link")
         /\ RootAt("head")' = RootAt("head") /\ Holders' = Holders
         /\ \A u \in Actors : at[u] \in Touching => at'[u] = at[u]
BY DEF RootAt, Holders, Touching, Owned, Actors

(* A step that leaves the list and those who are about it alone; the head may be
   taken, or be reset.                                                       *)
LEMMA RootStays ==
  ASSUME NEW s, RootStart(s), UNCHANGED <<tail, next, chain, prev, fifo, pushed>>,
         head' = head \/ head' \in {Null, Mediator},
         RootAt("xchg")' = RootAt("xchg"), RootAt("link")' = RootAt("link"),
         RootAt("head")' = RootAt("head"), Holders' = Holders,
         cur' \in [Workers -> Item], \A w \in Holders : cur'[w] = cur[w],
         \A w \in Holders : at'[w] = "restore" => next[cur[w]] # Null
  PROVE  RootStart(s)'
<1> USE Names
<1>1. Linked(s, 0, RootAt("link"), next, prev, chain)' /\ Loose(RootAt("xchg"), s, next, chain)'
  <2>1. /\ Linked(s, 0, RootAt("link"), next, prev, chain)
        /\ Loose(RootAt("xchg"), s, next, chain)
    BY DEF RootStart, RootShape
  <2> QED
    BY <2>1 DEF Linked, Loose, Fresh
<1>2. SharedType'
  BY DEF RootStart, RootShape, SharedType
<1>3. (\A p \in Producers : at[p] \in {"link", "head"} => Len(chain[p]) \in 1..2)'
  BY DEF RootStart, RootShape, RootAt
<1>4. RootShape(s)'
  BY <1>1, <1>2, <1>3 DEF RootStart, RootShape
<1>5. RootHeld(s)'
  BY DEF RootStart, RootHeld
<1>6. RootHead'
  BY DEF RootStart, RootHead
<1>7. RootFresh(s)'
  BY DEF RootStart, RootFresh
<1> QED
  BY <1>4, <1>5, <1>6, <1>7 DEF RootStart

(* What is known of a holder and of the item it holds.                       *)
LEMMA HolderHas ==
  ASSUME NEW s, RootStart(s), NEW w \in Holders
  PROVE  /\ Len(s) \in Nat \ {0} /\ \A i \in 1..Len(s) : s[i] \in Node
         /\ s \in Seq(Node) /\ s # <<>> /\ cur[w] = s[1] /\ cur[w] \in Node /\ fifo = Tail(s)
         /\ tail = s[Len(s)] /\ Holders = {w} /\ RootAt("head") = {} /\ head \notin Node
         /\ next[cur[w]] # Null => Len(s) > 1 /\ next[cur[w]] = s[2]
         /\ \A i, j \in 1..Len(s) : s[i] = s[j] => i = j
<1>1. /\ s \in Seq(Node) /\ s # <<>> /\ cur[w] = s[1] /\ fifo = Tail(s)
      /\ Linked(s, 0, RootAt("link"), next, prev, chain)
      /\ tail = s[Len(s)] /\ Holders = {w} /\ RootAt("head") = {} /\ head \notin Node
  BY DEF RootStart, RootShape, RootHeld, RootHead
<1>2. PICK n \in Nat : n = Len(s) /\ n # 0
  BY <1>1
<1>3. \A i \in 1..n : s[i] \in Node
  BY <1>1, <1>2
<1>4. 1 \in 1..n
  BY <1>2
<1>5. ASSUME next[cur[w]] # Null PROVE n > 1 /\ next[cur[w]] = s[2]
  <2>1. n # 1
    BY <1>1, <1>2, <1>4, <1>5 DEF Linked
  <2>2. 1 \in 1..(n - 1)
    BY <1>2, <2>1
  <2>3. next[s[1]] = s[1 + 1]
    BY <1>1, <1>2, <1>5, <2>2 DEF Linked
  <2> QED
    BY <1>1, <2>2, <2>3
<1>6. \A i, j \in 1..n : s[i] = s[j] => i = j
  BY <1>1, <1>2 DEF Linked
<1>7. s[1] \in Node
  BY <1>3, <1>4
<1> QED
  BY <1>1, <1>2, <1>3, <1>5, <1>6, <1>7

(* The poke of another thread does not matter to the list.                   *)
LEMMA RootPokes ==
  ASSUME NEW s, RootStart(s), PoolType, NEW t \in Actors, PokeStep(t)
  PROVE  RootStart(s)' /\ UNCHANGED fifo
<1>1. /\ UNCHANGED <<head, tail, next, cur, chain, prev, fifo, pushed>>
      /\ \/ \E l \in Poking : Go(t, l)
         \/ Return(t)
         \/ \E w \in Workers, l \in Poking : at[w] \in {"asleep", "none"} /\ Served(t, w, l)
      /\ at[t] \in Poking
  <2> USE DEF list, threads, local, history, Poking
  <2>1. CASE poke_probe(t)
    BY <2>1 DEF poke_probe
  <2>2. CASE poke_signal(t)
    BY <2>2 DEF poke_signal, Asleep
  <2>3. CASE poke_pool(t)
    BY <2>3 DEF poke_pool
  <2>4. CASE poke_create(t)
    <3>1. NewThread \in Workers /\ at[NewThread] = "none"
      BY <2>4 DEF poke_create, NewThread
    <3> QED
      BY <2>4, <3>1 DEF poke_create
  <2> QED
    BY <2>1, <2>2, <2>3, <2>4 DEF PokeStep
<1>2. after[t] \in Returns(t) /\ at[t] \notin Touching /\ DOMAIN at = Actors
  BY <1>1 DEF PoolType, Poking, Touching, Owned
<1>3. Returns(t) \cap Touching = {} /\ Poking \cap Touching = {}
      /\ {"asleep", "none", "drain"} \cap Touching = {}
  BY DEF Returns, Poking, Touching, Owned
<1>4. \A u \in Actors : at'[u] = at[u] \/ (at[u] \notin Touching /\ at'[u] \notin Touching)
  <2>1. CASE \E l \in Poking : Go(t, l)
    BY <1>2, <1>3, <2>1 DEF Go
  <2>2. CASE Return(t)
    BY <1>2, <1>3, <2>2 DEF Go, Return
  <2>3. CASE \E w \in Workers, l \in Poking : at[w] \in {"asleep", "none"} /\ Served(t, w, l)
    BY <1>2, <1>3, <2>3 DEF Served
  <2> QED
    BY <1>1, <2>1, <2>2, <2>3
<1>5. \A w \in Holders : at'[w] = at[w]
  BY <1>4, RootQuiet DEF Holders, Touching, Actors
<1> QED
  BY <1>1, <1>4, <1>5, RootQuiet, RootStays DEF RootStart, RootShape, RootHeld

(* Steps of a worker that leave the list as it is.                           *)
LEMMA RootReads ==
  ASSUME NEW s, RootStart(s), PoolType, NEW w \in Workers,
         \/ drain_xchg(w) /\ head \notin Node
         \/ drain_undo(w) \/ drain_checkTail(w) \/ drain_one2(w) \/ drain_one2_tail(w)
         \/ drain_one_slow(w) \/ drain_next(w) \/ drain_clear(w) \/ drain_waitNext(w)
         \/ run_item(w) \/ worker_wait(w) \/ worker_timeout(w) \/ worker_exit(w)
         \/ drain_cas(w) /\ tail # cur[w]
  PROVE  RootStart(s)' /\ UNCHANGED fifo
<1> USE Names, PoolFinite DEF list, threads, local, history
<1>1. /\ UNCHANGED <<tail, next, chain, prev, fifo, pushed>>
      /\ head' = head \/ head' \in {Null, Mediator}
      /\ \E l \in WorkerLabels : at' = [at EXCEPT ![w] = l]
      /\ at[w] \in WorkerLabels \ (Poking \cup {"none"}) /\ at[w] # "restore"
      /\ at'[w] \in Owned <=> at[w] \in Owned
      /\ at'[w] = "restore" => next[cur[w]] # Null
      /\ cur' = cur \/ (at[w] = "run" /\ cur' = [cur EXCEPT ![w] = Null])
  <2> USE DEF Go, Poke, WorkerLabels, Poking, Owned, PoolType
  <2>0. DOMAIN at = Actors /\ w \in Actors
    OBVIOUS
  <2>1. CASE drain_xchg(w) /\ head \notin Node
    BY <2>1 DEF drain_xchg
  <2>2. CASE drain_undo(w)
    BY <2>2 DEF drain_undo
  <2>3. CASE drain_checkTail(w)
    BY <2>3 DEF drain_checkTail
  <2>4. CASE drain_one2(w)
    BY <2>4 DEF drain_one2
  <2>5. CASE drain_one2_tail(w)
    BY <2>5 DEF drain_one2_tail
  <2>6. CASE drain_one_slow(w)
    BY <2>6 DEF drain_one_slow
  <2>7. CASE drain_next(w)
    BY <2>7 DEF drain_next
  <2>8. CASE drain_clear(w)
    BY <2>8 DEF drain_clear
  <2>9. CASE drain_waitNext(w)
    BY <2>9 DEF drain_waitNext, NextReady
  <2>10. CASE run_item(w)
    BY <2>10 DEF run_item
  <2>11. CASE worker_wait(w)
    BY <2>11 DEF worker_wait
  <2>12. CASE worker_timeout(w)
    BY <2>12 DEF worker_timeout
  <2>13. CASE worker_exit(w)
    BY <2>13 DEF worker_exit, ExitPokes
  <2>14. CASE drain_cas(w) /\ tail # cur[w]
    BY <2>14 DEF drain_cas
  <2> QED
    BY <2>1, <2>2, <2>3, <2>4, <2>5, <2>6, <2>7, <2>8, <2>9, <2>10, <2>11, <2>12, <2>13, <2>14
<1>2. \A u \in Actors \ {w} : at'[u] = at[u]
  BY <1>1 DEF PoolType
<1>3. /\ RootAt("xchg")' = RootAt("xchg") /\ RootAt("link")' = RootAt("link")
      /\ RootAt("head")' = RootAt("head")
  BY <1>2 DEF RootAt
<1>4. Holders' = Holders
  BY <1>1, <1>2 DEF Holders
<1>5. /\ cur' \in [Workers -> Item] /\ \A v \in Holders : cur'[v] = cur[v]
  BY <1>1 DEF RootStart, RootShape, Item, Holders, Owned
<1>6. \A v \in Holders : at'[v] = "restore" => next[cur[v]] # Null
  BY <1>1, <1>2 DEF RootStart, RootHeld, Holders
<1> QED
  BY SMTT(60), <1>1, <1>3, <1>4, <1>5, <1>6, RootStays

(* A worker takes the first item.                                            *)
LEMMA RootTakes ==
  ASSUME NEW s, RootStart(s), PoolType, NEW w \in Workers, drain_xchg(w), head \in Node
  PROVE  RootStart(s)' /\ fifo # <<>> /\ fifo' = Tail(fifo)
<1> USE Names, PoolFinite DEF threads
<1>1. /\ Holders = {} /\ s = fifo /\ fifo # <<>> /\ head = fifo[1] /\ RootAt("head") = {}
      /\ s \in Seq(Node) /\ Linked(s, 0, RootAt("link"), next, prev, chain)
      /\ Loose(RootAt("xchg"), s, next, chain) /\ cur \in [Workers -> Item]
  BY DEF RootStart, RootShape, RootHeld, RootHead
<1>2. /\ UNCHANGED <<tail, next, chain, prev, pushed>> /\ head' = Mediator
      /\ cur' = [cur EXCEPT ![w] = head] /\ fifo' = Without(fifo, head)
      /\ at' = [at EXCEPT ![w] = "next"]
  BY DEF drain_xchg, Go
<1>3. /\ at'[w] = "next" /\ \A u \in Actors \ {w} : at'[u] = at[u]
      /\ cur'[w] = s[1] /\ cur' \in [Workers -> Item]
  BY <1>1, <1>2 DEF PoolType, Item
<1>4. fifo' = Tail(fifo) /\ fifo' \in Seq(Node)
  <2>1. \A i, j \in 1..Len(fifo) : fifo[i] = fifo[j] => i = j
    BY <1>1 DEF Linked
  <2>2. Tail(fifo) \in Seq(Node)
    BY <1>1, HeadTailProperties
  <2>3. Without(fifo, fifo[1]) = Tail(fifo)
    BY <1>1, <2>1, WithoutFirst
  <2> QED
    BY <1>1, <1>2, <2>2, <2>3
<1>5. Holders' = {w}
  BY <1>1, <1>3 DEF Holders, Owned
<1>6. /\ RootAt("xchg")' = RootAt("xchg") /\ RootAt("link")' = RootAt("link")
      /\ RootAt("head")' = {}
  BY <1>1, <1>3 DEF RootAt
<1>7. Linked(s, 0, RootAt("link"), next, prev, chain)' /\ Loose(RootAt("xchg"), s, next, chain)'
  BY <1>1, <1>2, <1>6 DEF Linked, Loose, Fresh
<1>8. SharedType'
  BY <1>2, <1>4 DEF RootStart, RootShape, SharedType
<1>9. (\A p \in Producers : at[p] \in {"link", "head"} => Len(chain[p]) \in 1..2)'
  BY <1>2, <1>3 DEF RootStart, RootShape
<1>10. RootShape(s)'
  BY <1>2, <1>3, <1>7, <1>8, <1>9 DEF RootStart, RootShape
<1>11. RootHeld(s)'
  BY <1>1, <1>3, <1>4, <1>5 DEF RootHeld
<1>12. RootHead'
  BY <1>2, <1>6 DEF RootHead
<1>13. RootFresh(s)'
  BY <1>2, <1>6 DEF RootStart, RootFresh
<1> QED
  BY <1>1, <1>4, <1>10, <1>11, <1>12, <1>13 DEF RootStart

(* A worker gives the list back: empty, or from the item that follows on.     *)
LEMMA RootLeaves ==
  ASSUME NEW s, RootStart(s), PoolType, NEW w \in Workers,
         drain_restore(w) \/ (drain_cas(w) /\ tail = cur[w])
  PROVE  RootStart(fifo)' /\ UNCHANGED fifo
<1> USE Names, PoolFinite DEF threads, local, history
<1>1. at[w] \in Owned /\ w \in Holders
  BY DEF drain_restore, drain_cas, Owned, Holders
<1>2. PICK n \in Nat : n = Len(s)
  BY <1>1, HolderHas
<1>3. /\ n # 0 /\ \A i \in 1..n : s[i] \in Node
      /\ s \in Seq(Node) /\ s # <<>> /\ cur[w] = s[1] /\ cur[w] \in Node /\ fifo = Tail(s)
      /\ tail = s[n] /\ Holders = {w} /\ RootAt("head") = {} /\ head \notin Node
      /\ next[cur[w]] # Null => n > 1 /\ next[cur[w]] = s[2]
      /\ \A i, j \in 1..n : s[i] = s[j] => i = j
  BY SMTT(60), <1>1, <1>2, HolderHas
<1>4. /\ UNCHANGED <<next, cur, chain, prev, fifo, pushed>>
      /\ \E l \in {"run", "probe"} : at' = [at EXCEPT ![w] = l]
  BY DEF drain_restore, drain_cas, Go, Poke
<1>5. \/ n > 1 /\ next[s[1]] # Null /\ head' = s[2] /\ tail' = tail
      \/ n = 1 /\ head' = head /\ tail' = Null
  <2>1. CASE drain_restore(w)
    <3>1. next[cur[w]] # Null
      BY <1>1, <2>1 DEF drain_restore, RootStart, RootHeld
    <3> QED
      BY <1>3, <2>1, <3>1 DEF drain_restore
  <2>2. CASE drain_cas(w) /\ tail = cur[w]
    <3>1. n \in 1..n /\ 1 \in 1..n
      BY <1>3
    <3>2. n = 1
      BY <1>3, <2>2, <3>1
    <3> QED
      BY <2>2, <3>2 DEF drain_cas
  <2> QED
    BY <2>1, <2>2
<1>6. /\ Linked(s, 0, RootAt("link"), next, prev, chain) /\ Loose(RootAt("xchg"), s, next, chain)
      /\ cur \in [Workers -> Item] /\ pushed \in Nat /\ SharedType
  BY DEF RootStart, RootShape
<1>7. /\ Linked(fifo, 0, RootAt("link"), next, prev, chain)
      /\ fifo \in Seq(Node) /\ Len(fifo) = n - 1
      /\ \A i \in 1..(n - 1) : fifo[i] = s[i + 1]
  <2>1. Len(s) = 1 \/ next[s[1]] # Null
    BY <1>2, <1>5
  <2>2. 0 \in 0..Len(s)
    BY <1>2
  <2> QED
    BY <1>2, <1>3, <1>6, <2>1, <2>2, LinkTake
<1>8. Loose(RootAt("xchg"), fifo, next, chain)
  <2>1. ASSUME NEW q \in RootAt("xchg"), NEW i \in 1..Len(chain[q]), NEW j \in 1..Len(fifo)
        PROVE  chain[q][i] # fifo[j]
    <3>1. fifo[j] = s[j + 1] /\ j + 1 \in 1..n
      BY <1>7
    <3> QED
      BY SMTT(60), <1>2, <1>6, <3>1 DEF Loose, Fresh
  <2> QED
    BY <1>6, <2>1, LooseKeeps
<1>9. /\ at'[w] \notin Touching /\ \A u \in Actors \ {w} : at'[u] = at[u]
  BY <1>4 DEF PoolType, Touching, Owned
<1>10. /\ RootAt("xchg")' = RootAt("xchg") /\ RootAt("link")' = RootAt("link")
       /\ RootAt("head")' = {} /\ Holders' = {}
  <2>1. at[w] \notin {"xchg", "link", "head"} /\ at'[w] \notin {"xchg", "link", "head"} \cup Owned
    BY <1>1, <1>9 DEF Touching, Owned
  <2>2. \A u \in Producers \cup Workers : u # w => at'[u] = at[u]
    BY <1>9 DEF Actors
  <2>3. \A l \in {"xchg", "link", "head"} : \A u \in Producers : at'[u] = l <=> at[u] = l
    BY <2>1, <2>2
  <2>4. \A l \in {"xchg", "link", "head"} : RootAt(l)' = RootAt(l)
    BY Zenon, <2>3 DEF RootAt
  <2>5. Holders = {w} /\ RootAt("head") = {}
    BY <1>3
  <2>6. \A u \in Workers : at'[u] \notin Owned
    <3>1. \A u \in Workers : at[u] \in Owned => u = w
      BY <2>5 DEF Holders
    <3> QED
      BY <2>1, <2>2, <3>1
  <2>7. Holders' = {}
    BY <2>6 DEF Holders
  <2> QED
    BY <2>4, <2>5, <2>7
<1>11. fifo = <<>> <=> n = 1
  BY <1>7
<1>12. tail' = (IF fifo = <<>> THEN Null ELSE fifo[Len(fifo)]) /\ tail' \in Item
  <2>1. n # 1 => n - 1 \in 1..(n - 1) /\ n - 1 + 1 = n
    BY <1>3
  <2>2. n # 1 => fifo[n - 1] = s[n]
    BY <1>7, <2>1
  <2>3. tail \in Item
    BY <1>6 DEF SharedType
  <2> QED
    BY <1>3, <1>5, <1>7, <1>11, <2>2, <2>3 DEF Item
<1>13. head' \in Node => fifo # <<>> /\ head' = fifo[1]
  <2>1. n > 1 => 1 \in 1..(n - 1)
    OBVIOUS
  <2>2. n > 1 => fifo[1] = s[2]
    BY <1>7, <2>1
  <2> QED
    BY <1>3, <1>5, <1>11, <2>2
<1>14. head' \in Node \cup {Null, Mediator}
  <2>1. n > 1 => 2 \in 1..n
    OBVIOUS
  <2> QED
    BY <1>3, <1>5, <1>6, <2>1 DEF SharedType
<1>15. RootShape(fifo)'
  <2>1. Linked(fifo, 0, RootAt("link"), next, prev, chain)'
    BY <1>4, <1>7, <1>10 DEF Linked
  <2>2. Loose(RootAt("xchg"), fifo, next, chain)'
    BY <1>4, <1>8, <1>10 DEF Loose, Fresh
  <2>3. SharedType'
    BY <1>4, <1>6, <1>12, <1>14 DEF SharedType
  <2>4. (\A p \in Producers : at[p] \in {"link", "head"} => Len(chain[p]) \in 1..2)'
    BY <1>4, <1>9 DEF RootStart, RootShape
  <2> QED
    BY <1>4, <1>6, <1>7, <1>12, <2>1, <2>2, <2>3, <2>4 DEF RootShape
<1>16. RootHeld(fifo)' /\ RootHead'
  BY <1>4, <1>10, <1>13 DEF RootHeld, RootHead
<1>17. RootFresh(fifo)'
  <2>1. ASSUME NEW i \in 1..Len(fifo) PROVE fifo[i] =< pushed
    <3>1. fifo[i] = s[i + 1] /\ i + 1 \in 1..n
      BY <1>7
    <3> QED
      BY <1>2, <3>1 DEF RootStart, RootFresh
  <2> QED
    BY <1>4, <1>10, <2>1 DEF RootStart, RootFresh
<1> QED
  BY <1>4, <1>15, <1>16, <1>17 DEF RootStart

LEMMA Numbers == \A z \in Node : z \in Nat /\ z # Null
<1>1. PICK k \in Nat : Node = 1..k
  BY NodeAssumption, FS_CardinalityType
<1> QED
  BY <1>1, NodeAssumption

(* A producer begins, with the items that come next.                         *)
LEMMA RootStarts ==
  ASSUME NEW s, RootStart(s), PoolType, NEW p \in Producers, push_start(p)
  PROVE  RootStart(s)' /\ UNCHANGED fifo
<1> USE PoolFinite DEF threads, poking
<1>1. PICK n \in 1..2 :
        /\ pushed + n \in Node
        /\ chain' = [chain EXCEPT ![p] = [i \in 1..n |-> pushed + i]]
        /\ next' = IF n = 1 THEN next ELSE [next EXCEPT ![pushed + 1] = pushed + 2]
        /\ pushed' = pushed + n
  BY DEF push_start
<1>2. /\ UNCHANGED <<head, tail, prev, cur, fifo>>
      /\ at[p] = "idle" /\ at' = [at EXCEPT ![p] = "xchg"]
  BY DEF push_start, Go
<1>3. PICK m \in Nat : m = Len(s)
  BY DEF RootStart, RootShape
<1>0. \A z \in Node : z \in Nat /\ z # Null
  BY Numbers
<1>4. /\ SharedType /\ s \in Seq(Node) /\ cur \in [Workers -> Item] /\ pushed \in Nat
      /\ Linked(s, 0, RootAt("link"), next, prev, chain)
      /\ Loose(RootAt("xchg"), s, next, chain) /\ 0 \in 0..m
      /\ tail = IF s = <<>> THEN Null ELSE s[Len(s)]
      /\ next \in [Node -> Item] /\ chain \in [Producers -> Seq(Node)]
      /\ \A z \in Node : z \in Nat
      /\ \A z \in Node : z > pushed => next[z] = Null
      /\ \A i \in 1..m : s[i] =< pushed /\ s[i] \in Node
      /\ \A q \in RootAt("xchg") : \A i \in 1..Len(chain[q]) : chain[q][i] =< pushed
  BY <1>0, <1>3 DEF RootStart, RootShape, RootFresh, SharedType
<1>5. \A i \in 1..n : pushed + i \in Node
  <2>1. PICK k \in Nat : Node = 1..k
    BY NodeAssumption, FS_CardinalityType
  <2> QED
    BY <1>1, <1>4, <2>1
<1>6. PICK c : c \in Seq(Node) /\ c = [i \in 1..n |-> pushed + i] /\ Len(c) = n
  <2> DEFINE d == [i \in 1..n |-> pushed + i]
  <2>1. d \in [1..n -> Node]
    BY <1>5
  <2> HIDE DEF d
  <2>2. d \in Seq(Node) /\ Len(d) = n
    BY <2>1
  <2> QED
    BY <2>2 DEF d
<1>7. /\ next' \in [Node -> Item] /\ \A z \in Node : z =< pushed \/ z > pushed + 1 => next'[z] = next[z]
      /\ n = 2 => next'[pushed + 1] = pushed + 2
      /\ n = 1 => next' = next
  <2>1. CASE n = 1
    BY <1>1, <1>4, <2>1
  <2>2. CASE n = 2
    <3>1. pushed + 1 \in Node /\ pushed + 2 \in Node
      BY <1>5, <2>2
    <3>2. next' = [next EXCEPT ![pushed + 1] = pushed + 2]
      BY <1>1, <2>2
    <3> QED
      BY <1>4, <2>2, <3>1, <3>2 DEF Item
  <2> QED
    BY <2>1, <2>2
<1>8. /\ chain' \in [Producers -> Seq(Node)] /\ chain'[p] = c
      /\ \A q \in Producers \ {p} : chain'[q] = chain[q]
  BY <1>1, <1>4, <1>6
<1>9. /\ RootAt("link")' = RootAt("link") /\ RootAt("head")' = RootAt("head")
      /\ RootAt("xchg")' = RootAt("xchg") \cup {p} /\ Holders' = Holders
      /\ p \notin RootAt("link") \cup RootAt("head") \cup RootAt("xchg")
      /\ \A w \in Workers : at'[w] = at[w]
  BY <1>2 DEF RootAt, Holders, PoolType
<1>10. Linked(s, 0, RootAt("link"), next', prev, chain')
  <2>1. \A q \in RootAt("link") : chain'[q] = chain[q]
    BY <1>8, <1>9 DEF RootAt
  <2>2. \A i \in 1..Len(s) : next'[s[i]] = next[s[i]]
    BY <1>3, <1>4, <1>7
  <2>3. s \in Seq(Node) /\ 0 \in 0..Len(s) /\ Linked(s, 0, RootAt("link"), next, prev, chain)
    BY <1>3, <1>4
  <2> QED
    BY <2>1, <2>2, <2>3, LinkKeeps
<1>11. Loose(RootAt("xchg") \cup {p}, s, next', chain')
  <2>1. \A q \in RootAt("xchg") : chain'[q] = chain[q]
    BY <1>8, <1>9 DEF RootAt
  <2>2. \A i \in 1..n : c[i] = pushed + i
    BY <1>6
  <2>3. next'[c[n]] = Null
    <3>1. CASE n = 1
      BY <1>4, <1>5, <1>7, <2>2, <3>1
    <3>2. CASE n = 2
      <4>1. c[n] = pushed + 2 /\ pushed + 2 \in Node
        BY <1>5, <2>2, <3>2
      <4>2. pushed + 2 > pushed + 1 /\ pushed + 2 > pushed
        BY <1>4
      <4>3. next'[pushed + 2] = next[pushed + 2] /\ next[pushed + 2] = Null
        BY <1>4, <1>7, <4>1, <4>2
      <4> QED
        BY <4>1, <4>3
    <3> QED
      BY <3>1, <3>2
  <2>4. n = 2 => c[1] # c[2] /\ next'[c[1]] = c[2]
    BY <1>4, <1>7, <2>2
  <2>5. \A i \in 1..n, j \in 1..m : c[i] # s[j]
    BY <1>4, <2>2
  <2>6. Fresh(chain'[p], s, next')
    BY <1>3, <1>6, <1>8, <2>3, <2>4, <2>5 DEF Fresh
  <2>7. ASSUME NEW q \in RootAt("xchg"), NEW i \in 1..Len(chain[q])
        PROVE  /\ next'[chain[q][i]] = next[chain[q][i]]
               /\ \A j \in 1..Len(chain'[p]) : chain[q][i] # chain'[p][j]
    <3>1. Fresh(chain[q], s, next)
      BY <1>4 DEF Loose
    <3>2. chain[q][i] \in Node /\ chain[q][i] =< pushed
      BY <1>4, <3>1 DEF Fresh
    <3> QED
      BY SMTT(60), <1>4, <1>6, <1>7, <1>8, <2>2, <3>2
  <2>8. Loose(RootAt("xchg"), s, next, chain) /\ p \notin RootAt("xchg")
    BY <1>4, <1>9
  <2> QED
    BY <2>1, <2>6, <2>7, <2>8, LooseStart
<1>12. RootShape(s)'
  <2>1. Linked(s, 0, RootAt("link"), next, prev, chain)' /\ Loose(RootAt("xchg"), s, next, chain)'
    BY <1>2, <1>9, <1>10, <1>11 DEF Linked, Loose, Fresh
  <2>2. SharedType'
    BY <1>2, <1>4, <1>7, <1>8 DEF SharedType
  <2>3. (\A q \in Producers : at[q] \in {"link", "head"} => Len(chain[q]) \in 1..2)'
    BY <1>2, <1>8 DEF RootStart, RootShape, PoolType
  <2> QED
    BY <1>1, <1>2, <1>4, <2>1, <2>2, <2>3 DEF RootShape
<1>13. RootHeld(s)'
  <2>1. \A w \in Holders : next'[cur[w]] = next[cur[w]]
    <3> TAKE w \in Holders
    <3>1. cur[w] = s[1] /\ Len(s) \in Nat \ {0}
      BY HolderHas
    <3>2. 1 \in 1..m
      BY <1>3, <3>1
    <3> QED
      BY <1>4, <1>7, <3>1, <3>2
  <2> QED
    BY <1>2, <1>9, <2>1 DEF RootStart, RootHeld, Holders
<1>14. RootHead'
  <2>1. \A q \in RootAt("head") : chain'[q] = chain[q]
    BY <1>8, <1>9 DEF RootAt
  <2> QED
    BY <1>2, <1>9, <2>1 DEF RootStart, RootHead
<1>15. RootFresh(s)'
  <2>1. ASSUME NEW z \in Node, z > pushed + n PROVE next'[z] = Null
    <3>1. z > pushed /\ z > pushed + 1
      BY <1>0, <1>4, <2>1
    <3> QED
      BY <1>4, <1>7, <3>1
  <2>2. \A i \in 1..Len(s) : s[i] =< pushed + n
    BY <1>3, <1>4
  <2>3. ASSUME NEW q \in RootAt("xchg") \cup {p}, NEW i \in 1..Len(chain'[q])
        PROVE  chain'[q][i] =< pushed + n
    <3>1. CASE q = p
      BY <1>4, <1>6, <1>8, <3>1
    <3>2. CASE q # p
      <4>1. q \in RootAt("xchg") /\ chain'[q] = chain[q] /\ Fresh(chain[q], s, next)
        BY <1>4, <1>8, <3>2 DEF RootAt, Loose
      <4>2. chain[q][i] \in Node /\ chain[q][i] =< pushed
        BY <1>4, <4>1 DEF Fresh
      <4> QED
        BY SMTT(60), <1>4, <4>1, <4>2
    <3> QED
      BY <3>1, <3>2
  <2> QED
    BY ZenonT(60), <1>1, <1>9, <2>1, <2>2, <2>3 DEF RootFresh
<1> QED
  BY <1>2, <1>12, <1>13, <1>14, <1>15 DEF RootStart

(* A producer exchanges the tail.                                            *)
LEMMA RootAppends ==
  ASSUME NEW s, RootStart(s), PoolType, NEW p \in Producers, push_xchg(p)
  PROVE  RootStart(s \o chain[p])' /\ fifo' = fifo \o chain[p] /\ Fresh(chain[p], fifo, next)
<1> USE PoolFinite DEF threads, poking
<1>0. \A z \in Node : z \in Nat /\ z # Null
  BY Numbers
<1>1. PICK c \in Seq(Node) : c = chain[p]
  BY DEF RootStart, RootShape, SharedType
<1>2. PICK n \in Nat : n = Len(s)
  BY DEF RootStart, RootShape
<1>3. /\ UNCHANGED <<head, next, chain, cur, pushed>>
      /\ at[p] = "xchg" /\ prev' = [prev EXCEPT ![p] = tail]
      /\ tail' = c[Len(c)] /\ fifo' = fifo \o c
      /\ at' = [at EXCEPT ![p] = IF tail = Null THEN "head" ELSE "link"]
  BY <1>1 DEF push_xchg, Go
<1>4. /\ SharedType /\ s \in Seq(Node) /\ cur \in [Workers -> Item] /\ pushed \in Nat
      /\ Linked(s, 0, RootAt("link"), next, prev, chain)
      /\ Loose(RootAt("xchg"), s, next, chain) /\ 0 \in 0..n
      /\ tail = IF n = 0 THEN Null ELSE s[n]
      /\ prev \in [Producers -> Item] /\ fifo \in Seq(Node) /\ tail \in Item
      /\ \A i \in 1..n : s[i] \in Node
  BY <1>0, <1>2 DEF RootStart, RootShape, SharedType
<1>5. p \in RootAt("xchg") /\ p \notin RootAt("link") /\ p \notin RootAt("head")
  BY <1>3 DEF RootAt
<1>6. Fresh(c, s, next)
  BY <1>1, <1>4, <1>5 DEF Loose
<1>7. PICK m \in {1, 2} : m = Len(c)
  BY <1>6 DEF Fresh
<1>8. PICK r \in Seq(Node) :
        /\ r = s \o c /\ Len(r) = n + m
        /\ \A i \in 1..n : r[i] = s[i]
        /\ \A i \in 1..m : r[n + i] = c[i] /\ c[i] \in Node
  <2>1. /\ s \o c \in Seq(Node) /\ Len(s \o c) = n + m
        /\ \A i \in 1..n : (s \o c)[i] = s[i]
        /\ \A i \in 1..m : (s \o c)[n + i] = c[i] /\ c[i] \in Node
    BY <1>2, <1>4, <1>7, Joined
  <2> QED
    BY <2>1
<1>9. tail = Null <=> n = 0
  <2>1. n # 0 => n \in 1..n
    OBVIOUS
  <2> QED
    BY <1>0, <1>4, <2>1
<1>10. /\ RootAt("link")' = (IF n = 0 THEN RootAt("link") ELSE RootAt("link") \cup {p})
       /\ RootAt("head")' = (IF n = 0 THEN RootAt("head") \cup {p} ELSE RootAt("head"))
       /\ RootAt("xchg")' = RootAt("xchg") \ {p}
       /\ Holders' = Holders /\ \A w \in Workers : at'[w] = at[w]
  BY <1>3, <1>9 DEF RootAt, Holders, PoolType
<1>11. Linked(r, 0, RootAt("link")', next, prev', chain)
  <2>1. \A q \in RootAt("link") : prev'[q] = prev[q]
    BY <1>3, <1>4, <1>5 DEF RootAt
  <2>2. 0 # Len(s) => prev'[p] = s[Len(s)]
    BY <1>2, <1>3, <1>4
  <2>3. Linked(s \o chain[p], 0, IF 0 = Len(s) THEN RootAt("link") ELSE RootAt("link") \cup {p},
               next, prev', chain)
    BY <1>1, <1>2, <1>4, <1>5, <1>6, <2>1, <2>2, LinkAppend
  <2> QED
    BY <1>1, <1>2, <1>8, <1>10, <2>3
<1>12. Loose(RootAt("xchg") \ {p}, r, next, chain)
  BY <1>1, <1>4, <1>5, <1>8, LooseAppend
<1>13. tail' = r[Len(r)] /\ r # <<>> /\ tail' \in Item
  <2>1. m \in 1..m /\ n + m # 0
    OBVIOUS
  <2> QED
    BY <1>3, <1>7, <1>8, <2>1 DEF Item
<1>14. \/ n = 0 /\ Holders = {} /\ fifo = <<>>
       \/ n # 0 /\ s # <<>>
  BY <1>2, <1>4 DEF RootStart, RootHeld
<1>15. s # <<>> => Tail(r) = Tail(s) \o c
  <2> SUFFICES ASSUME s # <<>> PROVE Tail(r) = Tail(s) \o c
    OBVIOUS
  <2>1. PICK k \in Nat : n = k + 1
    <3>1. n # 0
      BY <1>2, <1>4
    <3>2. n - 1 \in Nat /\ n = n - 1 + 1
      BY <3>1
    <3> QED
      BY <3>2
  <2>2. PICK u \in Seq(Node) : u = Tail(s) /\ Len(u) = k /\ \A i \in 1..k : u[i] = s[i + 1]
    <3>1. /\ Tail(s) \in Seq(Node) /\ Len(Tail(s)) = Len(s) - 1
          /\ \A i \in 1..Len(Tail(s)) : Tail(s)[i] = s[i + 1]
      BY <1>4, HeadTailProperties
    <3>2. Len(s) - 1 = k
      BY <1>2, <2>1
    <3> QED
      BY <3>1, <3>2
  <2>3. PICK v \in Seq(Node) :
          v = Tail(r) /\ Len(v) = k + m /\ \A i \in 1..(k + m) : v[i] = r[i + 1]
    <3>1. /\ Tail(r) \in Seq(Node) /\ Len(Tail(r)) = Len(r) - 1
          /\ \A i \in 1..Len(Tail(r)) : Tail(r)[i] = r[i + 1]
      BY <1>8, <1>13, HeadTailProperties
    <3>2. Len(r) - 1 = k + m
      BY <1>8, <2>1
    <3> QED
      BY <3>1, <3>2
  <2>4. /\ u \o c \in Seq(Node) /\ Len(u \o c) = k + m
        /\ \A i \in 1..k : (u \o c)[i] = u[i]
        /\ \A i \in 1..m : (u \o c)[k + i] = c[i]
    <3>1. /\ u \o c \in Seq(Node) /\ Len(u \o c) = Len(u) + Len(c)
          /\ \A i \in 1..Len(u) : (u \o c)[i] = u[i]
          /\ \A i \in 1..Len(c) : (u \o c)[Len(u) + i] = c[i]
      BY Joined
    <3>2. Len(u) = k /\ Len(c) = m
      BY <1>7, <2>2
    <3> QED
      BY <3>1, <3>2
  <2>5. ASSUME NEW i \in 1..(k + m) PROVE v[i] = (u \o c)[i]
    <3>3. i =< k \/ i > k
      OBVIOUS
    <3>1. CASE i =< k
      <4>1. i \in 1..k /\ i + 1 \in 1..n
        BY <2>1, <3>1
      <4> QED
        BY <1>8, <2>2, <2>3, <2>4, <4>1
    <3>2. CASE i > k
      <4>1. PICK j \in 1..m : i = k + j /\ i + 1 = n + j
        <5>1. i - k \in 1..m /\ i = k + (i - k) /\ i + 1 = n + (i - k)
          BY <2>1, <3>2
        <5> QED
          BY <5>1
      <4>2. v[i] = r[i + 1] /\ r[n + j] = c[j] /\ (u \o c)[k + j] = c[j]
        BY <1>8, <2>3, <2>4, <4>1
      <4> QED
        BY <4>1, <4>2
    <3> QED
      BY <3>1, <3>2, <3>3
  <2>6. v = u \o c
    BY <2>3, <2>4, <2>5, SeqEqual
  <2> QED
    BY <2>2, <2>3, <2>6
<1>16. /\ fifo' \in Seq(Node) /\ Len(fifo') = Len(fifo) + m /\ Len(fifo) \in Nat
       /\ \A i \in 1..Len(fifo) : fifo'[i] = fifo[i]
       /\ \A i \in 1..m : fifo'[Len(fifo) + i] = c[i]
  BY <1>3, <1>4, <1>7, Joined
<1>17. Fresh(c, fifo, next)
  <2>1. \A j \in 1..Len(fifo) : \E k \in 1..n : fifo[j] = s[k]
    <3>1. CASE Holders = {}
      BY <1>2, <3>1 DEF RootStart, RootHeld
    <3>2. CASE Holders # {}
      <4>1. s # <<>> /\ fifo = Tail(s)
        BY <3>2 DEF RootStart, RootHeld
      <4>2. Len(fifo) = n - 1 /\ \A i \in 1..(n - 1) : fifo[i] = s[i + 1]
        BY <1>2, <1>4, <4>1, HeadTailProperties
      <4>3. \A i \in 1..(n - 1) : i + 1 \in 1..n
        OBVIOUS
      <4> QED
        BY <4>2, <4>3
    <3> QED
      BY <3>1, <3>2
  <2> QED
    BY ZenonT(60), <1>2, <1>6, <2>1 DEF Fresh
<1>18. RootShape(r)'
  <2>1. chain' = chain /\ next' = next /\ RootAt("xchg")' = RootAt("xchg") \ {p}
    BY <1>3, <1>10
  <2>2. Linked(r, 0, RootAt("link"), next, prev, chain)' /\ Loose(RootAt("xchg"), r, next, chain)'
    BY <1>11, <1>12, <2>1 DEF Linked, Loose, Fresh
  <2>3. prev' \in [Producers -> Item]
    BY <1>3, <1>4
  <2>4. SharedType'
    BY <1>3, <1>4, <1>13, <1>16, <2>3 DEF SharedType
  <2>5. (\A q \in Producers : at[q] \in {"link", "head"} => Len(chain[q]) \in 1..2)'
    <3>1. Len(chain[p]) \in 1..2
      BY <1>1, <1>7
    <3>2. \A q \in Producers \ {p} : at'[q] = at[q]
      BY <1>3 DEF PoolType
    <3> QED
      BY <2>1, <3>1, <3>2 DEF RootStart, RootShape
  <2> QED
    BY <1>3, <1>4, <1>13, <2>2, <2>4, <2>5 DEF RootShape
<1>19. RootHeld(r)'
  <2>1. s # <<>> => r[1] = s[1]
    <3>1. s # <<>> => 1 \in 1..n
      BY <1>2, <1>4
    <3> QED
      BY <1>8, <3>1
  <2>2. Holders = {} => fifo' = r
    BY <1>3, <1>8 DEF RootStart, RootHeld
  <2>3. \A w \in Holders : r # <<>> /\ cur[w] = r[1] /\ fifo' = Tail(r)
    BY <1>3, <1>13, <1>15, <2>1 DEF RootStart, RootHeld
  <2> QED
    BY <1>3, <1>10, <2>2, <2>3 DEF RootStart, RootHeld, Holders
<1>20. RootHead'
  <2>1. fifo' # <<>>
    BY <1>16
  <2>2. fifo # <<>> => fifo'[1] = fifo[1]
    <3>1. fifo # <<>> => 1 \in 1..Len(fifo)
      BY <1>4
    <3> QED
      BY <1>16, <3>1
  <2>3. ASSUME fifo = <<>> PROVE fifo'[1] = c[1]
    <3>1. 1 \in 1..m
      OBVIOUS
    <3>2. fifo'[Len(fifo) + 1] = c[1]
      BY <1>16, <3>1
    <3>3. Len(fifo) + 1 = 1
      BY <2>3
    <3> QED
      BY <3>2, <3>3
  <2>4. CASE n = 0
    <3>1. Holders = {} /\ fifo = <<>> /\ RootAt("head") = {} /\ head \notin Node
      BY <1>14, <2>4 DEF RootStart, RootHead
    <3> QED
      BY <1>1, <1>3, <1>10, <2>1, <2>3, <2>4, <3>1 DEF RootHead
  <2>5. CASE n # 0
    BY <1>3, <1>10, <2>1, <2>2, <2>5 DEF RootStart, RootHead
  <2> QED
    BY <2>4, <2>5
<1>21. RootFresh(r)'
  <2>1. /\ \A i \in 1..n : s[i] =< pushed
        /\ \A i \in 1..m : c[i] =< pushed
    BY <1>1, <1>2, <1>5, <1>7 DEF RootStart, RootFresh
  <2>2. ASSUME NEW i \in 1..Len(r) PROVE r[i] =< pushed
    <3>1. CASE i =< n
      BY <1>8, <2>1, <3>1
    <3>2. CASE i > n
      <4>1. i - n \in 1..m /\ n + (i - n) = i
        BY <1>8, <3>2
      <4> QED
        BY ZenonT(60), <1>8, <2>1, <4>1
    <3> QED
      BY <1>8, <3>1, <3>2
  <2> QED
    BY <1>3, <1>10, <2>2 DEF RootStart, RootFresh
<1>22. RootStart(r)'
  BY <1>18, <1>19, <1>20, <1>21 DEF RootStart
<1>23. (s \o chain[p])' = r'
  BY <1>1, <1>3, <1>8
<1> QED
  BY <1>1, <1>3, <1>8, <1>17, <1>22

(* A producer writes the link it owes.                                       *)
LEMMA RootLinks ==
  ASSUME NEW s, RootStart(s), PoolType, NEW p \in Producers, push_link(p)
  PROVE  RootStart(s)' /\ UNCHANGED fifo
<1> USE PoolFinite DEF threads, poking, history
<1>1. /\ UNCHANGED <<head, tail, cur, fifo, pushed>>
      /\ at[p] = "link" /\ at' = [at EXCEPT ![p] = "idle"]
      /\ next' = [next EXCEPT ![prev[p]] = chain[p][1]]
      /\ prev' = [prev EXCEPT ![p] = Null] /\ chain' = [chain EXCEPT ![p] = <<>>]
  BY DEF push_link, Go
<1>2. /\ SharedType /\ s \in Seq(Node) /\ cur \in [Workers -> Item] /\ pushed \in Nat
      /\ Linked(s, 0, RootAt("link"), next, prev, chain)
      /\ Loose(RootAt("xchg"), s, next, chain) /\ 0 \in 0..Len(s)
      /\ next \in [Node -> Item] /\ DOMAIN next = Node
      /\ chain \in [Producers -> Seq(Node)] /\ prev \in [Producers -> Item]
  BY DEF RootStart, RootShape, SharedType
<1>3. p \in RootAt("link")
  BY <1>1 DEF RootAt
<1>4. /\ RootAt("link")' = RootAt("link") \ {p} /\ RootAt("head")' = RootAt("head")
      /\ RootAt("xchg")' = RootAt("xchg") /\ Holders' = Holders
      /\ \A w \in Workers : at'[w] = at[w]
  BY <1>1 DEF RootAt, Holders, PoolType
<1>5. PICK k \in 1..(Len(s) - 1) :
        prev[p] = s[k] /\ chain[p][1] = s[k + 1] /\ next[s[k]] = Null
  BY <1>2, <1>3 DEF Linked
<1>6. /\ k \in 1..Len(s) /\ k + 1 \in 1..Len(s)
      /\ prev[p] \in Node /\ chain[p][1] \in Node /\ prev[p] =< pushed
  <2>1. k \in 1..Len(s) /\ k + 1 \in 1..Len(s)
    BY <1>2
  <2> QED
    BY <1>2, <1>5, <2>1 DEF RootStart, RootFresh
<1>7. /\ \A q \in Producers \ {p} : prev'[q] = prev[q] /\ chain'[q] = chain[q]
      /\ prev' \in [Producers -> Item] /\ chain' \in [Producers -> Seq(Node)]
  <2>1. <<>> \in Seq(Node)
    OBVIOUS
  <2> QED
    BY <1>1, <1>2, <2>1 DEF Item
<1>8. Linked(s, 0, RootAt("link") \ {p}, next', prev', chain')
  <2>1. \A q \in RootAt("link") \ {p} : prev'[q] = prev[q] /\ chain'[q] = chain[q]
    BY <1>7 DEF RootAt
  <2>2. Linked(s, 0, RootAt("link") \ {p}, [next EXCEPT ![prev[p]] = chain[p][1]], prev', chain')
    BY <1>2, <1>3, <2>1, LinkWrite
  <2> QED
    BY <1>1, <2>2
<1>9. Loose(RootAt("xchg"), s, next', chain')
  <2>1. ASSUME NEW q \in RootAt("xchg"), NEW i \in 1..Len(chain[q])
        PROVE  /\ next'[chain[q][i]] = next[chain[q][i]]
               /\ \A j \in 1..Len(s) : chain[q][i] # s[j]
    <3>1. Fresh(chain[q], s, next)
      BY <1>2 DEF Loose
    <3>2. chain[q][i] \in Node /\ \A j \in 1..Len(s) : chain[q][i] # s[j]
      BY <3>1 DEF Fresh
    <3>3. chain[q][i] # prev[p]
      BY <1>5, <1>6, <3>2
    <3> QED
      BY <1>1, <1>2, <3>2, <3>3
  <2>2. \A q \in RootAt("xchg") : chain'[q] = chain[q]
    BY <1>1, <1>7 DEF RootAt
  <2> QED
    BY SMTT(60), <1>2, <2>1, <2>2, LooseKeeps
<1>10. next' \in [Node -> Item] /\ \A z \in Node : z # prev[p] => next'[z] = next[z]
  BY <1>1, <1>2, <1>6 DEF Item
<1>11. RootShape(s)'
  <2>1. Linked(s, 0, RootAt("link"), next, prev, chain)' /\ Loose(RootAt("xchg"), s, next, chain)'
    BY <1>4, <1>8, <1>9 DEF Linked, Loose, Fresh
  <2>2. SharedType'
    BY <1>1, <1>2, <1>7, <1>10 DEF SharedType
  <2>3. (\A q \in Producers : at[q] \in {"link", "head"} => Len(chain[q]) \in 1..2)'
    BY <1>1, <1>7 DEF RootStart, RootShape, PoolType
  <2> QED
    BY <1>1, <1>2, <2>1, <2>2, <2>3 DEF RootStart, RootShape
<1>12. RootHeld(s)'
  <2>1. \A w \in Holders : next[cur[w]] # Null => next'[cur[w]] = next[cur[w]]
    <3> TAKE w \in Holders
    <3>1. cur[w] \in Node
      BY HolderHas
    <3> QED
      BY <1>5, <1>10, <3>1
  <2> QED
    BY <1>1, <1>4, <2>1 DEF RootStart, RootHeld, Holders
<1>13. RootHead'
  <2>1. \A q \in RootAt("head") : chain'[q] = chain[q]
    BY <1>1, <1>7 DEF RootAt
  <2> QED
    BY <1>1, <1>4, <2>1 DEF RootStart, RootHead
<1>14. RootFresh(s)'
  <2>1. \A z \in Node : z > pushed => next'[z] = Null
    <3> TAKE z \in Node
    <3> HAVE z > pushed
    <3>1. z # prev[p]
      BY <1>2, <1>6, Numbers
    <3> QED
      BY <1>10, <3>1 DEF RootStart, RootFresh
  <2>2. \A q \in RootAt("xchg") : chain'[q] = chain[q]
    BY <1>1, <1>7 DEF RootAt
  <2> QED
    BY <1>1, <1>4, <2>1, <2>2 DEF RootStart, RootFresh
<1> QED
  BY <1>1, <1>11, <1>12, <1>13, <1>14 DEF RootStart

(* The producer that found the list empty writes the head.                   *)
LEMMA RootHeads ==
  ASSUME NEW s, RootStart(s), PoolType, NEW p \in Producers, push_head(p)
  PROVE  RootStart(s)' /\ UNCHANGED fifo
<1> USE PoolFinite DEF threads, history
<1>1. /\ UNCHANGED <<tail, next, prev, cur, fifo, pushed>>
      /\ at[p] = "head" /\ at' = [at EXCEPT ![p] = "probe"]
      /\ head' = chain[p][1] /\ chain' = [chain EXCEPT ![p] = <<>>]
  BY DEF push_head, Go, Poke
<1>2. /\ SharedType /\ s \in Seq(Node) /\ cur \in [Workers -> Item] /\ pushed \in Nat
      /\ Linked(s, 0, RootAt("link"), next, prev, chain)
      /\ Loose(RootAt("xchg"), s, next, chain) /\ 0 \in 0..Len(s)
      /\ chain \in [Producers -> Seq(Node)] /\ fifo \in Seq(Node)
  BY DEF RootStart, RootShape, SharedType
<1>3. p \in RootAt("head")
  BY <1>1 DEF RootAt
<1>4. /\ Holders = {} /\ fifo # <<>> /\ chain[p][1] = fifo[1] /\ RootAt("head") \ {p} = {}
  BY <1>3 DEF RootStart, RootHead
<1>5. /\ RootAt("link")' = RootAt("link") /\ RootAt("head")' = {}
      /\ RootAt("xchg")' = RootAt("xchg") /\ Holders' = Holders
  BY <1>1, <1>4 DEF RootAt, Holders, PoolType
<1>6. /\ \A q \in Producers \ {p} : chain'[q] = chain[q]
      /\ chain' \in [Producers -> Seq(Node)]
  <2>1. <<>> \in Seq(Node)
    OBVIOUS
  <2> QED
    BY <1>1, <1>2, <2>1
<1>7. head' \in Node
  <2>1. 1 \in 1..Len(fifo)
    BY <1>2, <1>4
  <2> QED
    BY <1>1, <1>2, <1>4, <2>1
<1>8. /\ \A q \in RootAt("link") \cup RootAt("xchg") : chain'[q] = chain[q]
  BY <1>1, <1>6 DEF RootAt
<1>9. Linked(s, 0, RootAt("link"), next, prev, chain')
  BY <1>2, <1>8, LinkKeeps
<1>10. Loose(RootAt("xchg"), s, next, chain')
  <2>1. \A q \in RootAt("xchg") : \A i \in 1..Len(chain[q]), j \in 1..Len(s) : chain[q][i] # s[j]
    BY <1>2 DEF Loose, Fresh
  <2>2. \A q \in RootAt("xchg") : chain'[q] = chain[q]
    BY <1>8
  <2>3. Loose(RootAt("xchg"), s, next, chain)
    BY <1>2
  <2> QED
    BY <2>1, <2>2, <2>3, LooseKeeps
<1>11. RootShape(s)'
  <2>1. Linked(s, 0, RootAt("link"), next, prev, chain)' /\ Loose(RootAt("xchg"), s, next, chain)'
    BY <1>1, <1>5, <1>9, <1>10 DEF Linked, Loose, Fresh
  <2>2. SharedType'
    BY <1>1, <1>2, <1>6, <1>7 DEF SharedType
  <2>3. (\A q \in Producers : at[q] \in {"link", "head"} => Len(chain[q]) \in 1..2)'
    BY <1>1, <1>6 DEF RootStart, RootShape, PoolType
  <2> QED
    BY <1>1, <1>2, <2>1, <2>2, <2>3 DEF RootStart, RootShape
<1>12. RootHeld(s)'
  BY <1>1, <1>4, <1>5 DEF RootStart, RootHeld
<1>13. RootHead'
  BY <1>1, <1>4, <1>5 DEF RootHead
<1>14. RootFresh(s)'
  BY <1>1, <1>5, <1>8 DEF RootStart, RootFresh
<1> QED
  BY <1>1, <1>11, <1>12, <1>13, <1>14 DEF RootStart

(* The list of a root queue, as one step of a thread leaves it.              *)
LEMMA RootStep ==
  ASSUME RootInv, PoolType, RootNext
  PROVE  RootInv' /\ (Abs!Next \/ UNCHANGED fifo)
<1>1. PICK s \in Seq(Node) : RootStart(s)
  BY DEF RootInv
<1>2. fifo \in Seq(Node)
  BY <1>1 DEF RootStart, RootShape, SharedType
<1>3. \A r : RootStart(r)' => RootInv'
  BY DEF RootInv, RootStart, RootShape
<1>4. ASSUME NEW p \in Producers, push_start(p) \/ PushStep(p)
      PROVE  RootInv' /\ (Abs!Next \/ UNCHANGED fifo)
  <2>1. CASE push_start(p)
    BY <1>1, <1>3, <2>1, RootStarts
  <2>2. CASE push_xchg(p)
    <3>1. RootStart(s \o chain[p])' /\ fifo' = fifo \o chain[p] /\ Fresh(chain[p], fifo, next)
      BY <1>1, <2>2, RootAppends
    <3>2. RootInv'
      <4>1. (RootStart(s \o chain[p]) => RootInv)'
        BY DEF RootInv, RootStart, RootShape
      <4> QED
        BY <3>1, <4>1
    <3>3. Abs!Next
      BY <1>2, <3>1, AbsSteps
    <3> QED
      BY <3>2, <3>3
  <2>3. CASE push_link(p)
    BY <1>1, <1>3, <2>3, RootLinks
  <2>4. CASE push_head(p)
    BY <1>1, <1>3, <2>4, RootHeads
  <2> QED
    BY <1>4, <2>1, <2>2, <2>3, <2>4 DEF PushStep
<1>5. ASSUME NEW w \in Workers, DrainStep(w) \/ worker_timeout(w)
      PROVE  RootInv' /\ (Abs!Next \/ UNCHANGED fifo)
  <2>1. CASE drain_xchg(w) /\ head \in Node
    <3>1. RootStart(s)' /\ fifo # <<>> /\ fifo' = Tail(fifo)
      BY <1>1, <2>1, RootTakes
    <3>2. Abs!Next
      BY <1>2, <3>1, AbsSteps
    <3> QED
      BY <1>3, <3>1, <3>2
  <2>2. CASE drain_restore(w) \/ (drain_cas(w) /\ tail = cur[w])
    <3>1. RootStart(fifo)' /\ UNCHANGED fifo
      BY <1>1, <2>2, RootLeaves
    <3>2. (RootStart(fifo) => RootInv)'
      BY DEF RootInv, RootStart, RootShape
    <3> QED
      BY <3>1, <3>2
  <2>3. CASE \/ drain_xchg(w) /\ head \notin Node
             \/ drain_undo(w) \/ drain_checkTail(w) \/ drain_one2(w) \/ drain_one2_tail(w)
             \/ drain_one_slow(w) \/ drain_next(w) \/ drain_clear(w) \/ drain_waitNext(w)
             \/ run_item(w) \/ worker_wait(w) \/ worker_timeout(w) \/ worker_exit(w)
             \/ drain_cas(w) /\ tail # cur[w]
    BY <1>1, <1>3, <2>3, RootReads
  <2> QED
    BY <1>5, <2>1, <2>2, <2>3, ZenonT(60) DEF DrainStep
<1>6. ASSUME NEW t \in Actors, PokeStep(t)
      PROVE  RootInv' /\ UNCHANGED fifo
  BY <1>1, <1>3, <1>6, RootPokes
<1> QED
  BY <1>4, <1>5, <1>6, PoolFinite DEF RootNext

LEMMA RootBegins == RootInit => RootInv
<1> SUFFICES ASSUME RootInit PROVE RootInv
  OBVIOUS
<1> USE Names, PoolFinite DEF RootInit
<1>1. /\ RootAt("link") = {} /\ RootAt("xchg") = {} /\ RootAt("head") = {} /\ Holders = {}
  BY DEF RootAt, Holders, Owned
<1>2. fifo = <<>> /\ Len(fifo) = 0 /\ <<>> \in Seq(Node)
  OBVIOUS
<1>3. SharedType
  BY DEF SharedType, Item
<1>4. Linked(fifo, 0, {}, next, prev, chain) /\ Loose({}, fifo, next, chain)
  BY <1>2 DEF Linked, Loose
<1>5. RootShape(fifo)
  BY <1>1, <1>2, <1>3, <1>4 DEF RootShape, Item
<1>6. RootHeld(fifo) /\ RootHead /\ RootFresh(fifo)
  BY <1>1, <1>2 DEF RootHeld, RootHead, RootFresh
<1> QED
  BY <1>2, <1>5, <1>6 DEF RootInv, RootStart
-----------------------------------------------------------------------------
(* A producer that still has to write a link writes it to an item of the line.  *)
LEMMA RootLinkLives == RootInv => NoDeadRootLink
<1> SUFFICES ASSUME RootInv, NEW p \in Producers, at[p] = "link"
             PROVE  \/ \E i \in DOMAIN fifo : fifo[i] = prev[p]
                    \/ \E w \in Workers : cur[w] = prev[p]
                                          /\ at[w] \in {"next", "clear", "cas", "wait_next"}
  BY DEF NoDeadRootLink
<1>1. PICK s \in Seq(Node) : RootStart(s)
  BY DEF RootInv
<1>2. PICK k \in 1..(Len(s) - 1) : prev[p] = s[k] /\ next[s[k]] = Null
  BY <1>1 DEF RootStart, RootShape, Linked, RootAt
<1>3. CASE Holders = {}
  <2>1. s = fifo /\ k \in DOMAIN s
    BY <1>1, <1>3 DEF RootStart, RootHeld
  <2> QED
    BY <1>2, <2>1
<1>4. CASE Holders # {}
  <2>1. PICK w \in Holders : TRUE
    BY <1>4
  <2>2. s # <<>> /\ cur[w] = s[1] /\ fifo = Tail(s)
    BY <1>1, <2>1, HolderHas
  <2>3. CASE k = 1
    <3>1. at[w] # "restore" /\ w \in Workers /\ at[w] \in Owned
      BY <1>1, <1>2, <2>1, <2>2, <2>3 DEF RootStart, RootHeld, Holders
    <3> QED
      BY <1>2, <2>2, <2>3, <3>1 DEF Owned
  <2>4. CASE k # 1
    <3>1. /\ Tail(s) \in Seq(Node) /\ Len(Tail(s)) = Len(s) - 1
          /\ \A i \in 1..Len(Tail(s)) : Tail(s)[i] = s[i + 1]
      BY <2>2, HeadTailProperties
    <3>2. k - 1 \in 1..(Len(s) - 1) /\ k - 1 + 1 = k
      BY <2>4
    <3>3. k - 1 \in DOMAIN fifo /\ fifo[k - 1] = s[k]
      BY <2>2, <3>1, <3>2
    <3> QED
      BY <1>2, <3>3
  <2> QED
    BY <2>3, <2>4
<1> QED
  BY <1>3, <1>4

LEMMA QueueLinkLives == QueueInv => Queue!NoDeadQueueLink
<1> SUFFICES ASSUME QueueInv, NEW p \in Producers, qpc[p] = "link"
             PROVE  prev[p] \in {fifo[i] : i \in DOMAIN fifo}
  BY DEF Queue!NoDeadQueueLink
<1>1. PICK b : Linked(fifo, b, QueueAt("link"), next, prev, chain) /\ fifo \in Seq(Node)
  BY DEF QueueInv, QueueType, SharedType, Split
<1>2. PICK k \in 1..(Len(fifo) - 1) : prev[p] = fifo[k]
  BY <1>1 DEF Linked, QueueAt
<1>3. k \in DOMAIN fifo
  BY <1>1
<1> QED
  BY <1>2, <1>3

(* Of the two lists a behaviour has one, and nothing happens to the other.   *)
WorkInv ==
  /\ PoolInv /\ kind \in {"root", "queue"}
  /\ kind = "root" => RootInv /\ \A p \in Producers : qpc[p] = "idle"
  /\ kind = "queue" => QueueInv /\ \A p \in Producers : at[p] = "idle"

LEMMA WorkBegins == ListInit => WorkInv
BY PoolBegins, RootBegins, QueueBegins, PoolFinite
DEF ListInit, RootInit, Queue!Init, WorkInv

LEMMA WorkStep ==
  ASSUME WorkInv, [ListNext]_listVars
  PROVE  WorkInv' /\ (Abs!Next \/ UNCHANGED fifo)
<1>1. CASE OfRoot(RootNext)
  <2>1. PoolInv /\ PoolType /\ RootInv /\ kind = "root" /\ UNCHANGED <<kind, qpc>> /\ RootNext
    BY <1>1 DEF WorkInv, OfRoot, PoolInv, queueVars
  <2>2. \A p \in Producers : at[p] = "head" => Len(chain[p]) \in 1..2
    BY <2>1 DEF RootInv, RootStart, RootShape
  <2>3. PoolInv'
    BY <2>1, <2>2, PoolStep
  <2>4. RootInv' /\ (Abs!Next \/ UNCHANGED fifo)
    BY <2>1, RootStep
  <2> QED
    BY <2>1, <2>3, <2>4 DEF WorkInv
<1>2. CASE OfQueue(Queue!Next)
  <2>1. /\ PoolInv /\ QueueInv /\ kind = "queue" /\ Queue!Next
        /\ UNCHANGED <<kind, pool, at, want, after>>
    BY <1>2 DEF WorkInv, OfQueue, rootVars
  <2>2. PoolInv'
    BY <2>1 DEF PoolInv, PoolType, Columns, Wanted, Live
  <2>3. QueueInv' /\ (Abs!Next \/ UNCHANGED fifo)
    BY <2>1, QueueStep
  <2> QED
    BY <2>1, <2>2, <2>3 DEF WorkInv
<1>3. CASE UNCHANGED listVars
  <2>1. /\ UNCHANGED <<head, tail, next, pool, sem, at, chain, prev, cur, want, after, fifo, pushed>>
        /\ UNCHANGED <<kind, qpc, cpc, qcur, nxt, last>>
    BY <1>3 DEF listVars, rqVars, queueVars
  <2>2. PoolInv'
    BY <2>1 DEF WorkInv, PoolInv, PoolType, Columns, Wanted, Live
  <2>3. RootInv' <=> RootInv
    BY <2>1 DEF RootInv, RootStart, RootShape, RootHeld, RootHead, RootFresh, SharedType, RootAt,
                Holders, Linked, Loose, Fresh
  <2>4. QueueInv' <=> QueueInv
    BY <2>1 DEF QueueInv, QueueType, SharedType, Cursor, Split, Private, Public, QueueAt,
                Linked, Loose, Fresh
  <2> QED
    BY <2>1, <2>2, <2>3, <2>4 DEF WorkInv
<1> QED
  BY <1>1, <1>2, <1>3 DEF ListNext

(* The links of both lists lead from each item to the one pushed after it, but for
   those that a producer still has to write, and the threads of the pool add up. *)
THEOREM WorkListsInvariant == ListSpec => []WorkInv
<1>1. WorkInv /\ [ListNext]_listVars => WorkInv'
  BY WorkStep
<1> QED
  BY WorkBegins, <1>1, PTL DEF ListSpec

(* Never more than PoolSize threads drain a root queue: those that live, are being
   created and may be created are PoolSize, of any size and with any producers.  *)
THEOREM WorkListsAccounting == ListSpec => []PoolAccounting
<1>1. WorkInv => PoolAccounting
  BY PoolCounts DEF WorkInv
<1> QED
  BY WorkListsInvariant, <1>1, PTL

(* The item to which a producer links its own was not taken and freed meanwhile.  *)
THEOREM WorkListsNoDeadLink == ListSpec => []NoDeadLink
<1>1. WorkInv => NoDeadLink
  <2> SUFFICES ASSUME WorkInv PROVE NoDeadRootLink /\ Queue!NoDeadQueueLink
    BY DEF NoDeadLink
  <2>1. CASE kind = "root"
    <3>1. NoDeadRootLink
      BY <2>1, RootLinkLives DEF WorkInv
    <3>2. Queue!NoDeadQueueLink
      BY <2>1 DEF WorkInv, Queue!NoDeadQueueLink
    <3> QED
      BY <3>1, <3>2
  <2>2. CASE kind = "queue"
    <3>1. Queue!NoDeadQueueLink
      BY <2>2, QueueLinkLives DEF WorkInv
    <3>2. NoDeadRootLink
      BY <2>2 DEF WorkInv, NoDeadRootLink
    <3> QED
      BY <3>1, <3>2
  <2> QED
    BY <2>1, <2>2 DEF WorkInv
<1> QED
  BY WorkListsInvariant, <1>1, PTL

(* Both lists are a FIFO: items are taken in the order of their pushes, each once,
   and none is lost, with any items, producers and workers.                  *)
THEOREM WorkListsOrder == ListSpec => Abs!Init /\ [][Abs!Next]_fifo
<1>1. ListInit => Abs!Init
  BY DEF ListInit, RootInit, Abs!Init
<1>2. WorkInv /\ [ListNext]_listVars => [Abs!Next]_fifo
  BY WorkStep
<1> QED
  BY WorkListsInvariant, <1>1, <1>2, PTL DEF ListSpec
=============================================================================
