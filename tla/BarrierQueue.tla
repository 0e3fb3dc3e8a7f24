---------------------------- MODULE BarrierQueue ----------------------------
(***************************************************************************)
(* What a dispatch queue promises to the threads that submit work to it,   *)
(* with no state word, no list and no drainer: every item runs once; an    *)
(* exclusive item (a barrier, or any item of a serial queue) runs alone;   *)
(* and an item and an exclusive item of the same submitter keep their      *)
(* order, unless the later one is of a kind that may overtake.             *)
(***************************************************************************)
EXTENDS Naturals

CONSTANTS Items,            \* every item that may be submitted: records with by and n
          Exclusive(_),     \* the items that run alone
          Overtakes(_)      \* the items that may run before earlier ones

VARIABLES count,            \* count[c]: how many calls submitter c has made
          outstanding,      \* submitted items that have not finished
          running           \* items in their callout

vars == <<count, outstanding, running>>

Init == /\ count \in [{i.by : i \in Items} -> {0}]
        /\ outstanding = {}
        /\ running = {}

Submit(i) ==
  /\ i.n = count[i.by] + 1
  /\ count' = [count EXCEPT ![i.by] = @ + 1]
  /\ outstanding' = outstanding \union {i}
  /\ UNCHANGED running

\* A call that submits nothing (suspend, resume).
Skip(c) ==
  /\ count' = [count EXCEPT ![c] = @ + 1]
  /\ UNCHANGED <<outstanding, running>>

Conflict(i, j) == Exclusive(i) \/ Exclusive(j)

Start(i) ==
  /\ i \in outstanding \ running
  /\ \A j \in running : ~Conflict(i, j)
  /\ \/ Overtakes(i)
     \/ \A j \in outstanding : j.by = i.by /\ j.n < i.n => ~Conflict(i, j)
  /\ running' = running \union {i}
  /\ UNCHANGED <<count, outstanding>>

Finish(i) ==
  /\ i \in running
  /\ running' = running \ {i}
  /\ outstanding' = outstanding \ {i}
  /\ UNCHANGED count

Next == \/ \E i \in outstanding : Start(i) \/ Finish(i)
        \/ \E i \in Items : Submit(i)
        \/ \E c \in DOMAIN count : Skip(c)

Spec == Init /\ [][Next]_vars
=============================================================================
