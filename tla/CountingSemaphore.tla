------------------------- MODULE CountingSemaphore -------------------------
(* What a counting semaphore promises its callers, with no implementation   *)
(* state: a pool of units, and the callers that asked for one and were not  *)
(* served at once. It is the abstract specification DispatchSemaphore.tla   *)
(* implements.                                                              *)
EXTENDS Integers, FiniteSets

CONSTANTS Threads,   \* the callers
          Units,     \* units in the pool at creation
          MaxUnits   \* the largest number of free units the pool can count

VARIABLES avail,     \* units signalled and not yet handed to a caller
          waiting,   \* callers blocked in a wait
          failed     \* the pool overflowed: nothing is promised any more

vars == <<avail, waiting, failed>>

Init == avail = Units /\ waiting = {} /\ failed = FALSE

\* A unit nobody is queued for is handed out at once; this is the only way to
\* overtake the queue, and it never takes a unit meant for a queued caller.
Acquire(t) == /\ t \notin waiting
              /\ avail > Cardinality(waiting)
              /\ avail' = avail - 1
              /\ UNCHANGED <<waiting, failed>>

Enqueue(t) == /\ t \notin waiting
              /\ avail =< Cardinality(waiting)
              /\ waiting' = waiting \cup {t}
              /\ UNCHANGED <<avail, failed>>

Grant(t) == /\ t \in waiting
            /\ avail > 0
            /\ avail' = avail - 1
            /\ waiting' = waiting \ {t}
            /\ UNCHANGED failed

\* A caller may give up only while there are fewer units than queued callers:
\* a unit signalled for it is never dropped.
GiveUp(t) == /\ t \in waiting
             /\ avail < Cardinality(waiting)
             /\ waiting' = waiting \ {t}
             /\ UNCHANGED <<avail, failed>>

Signal == /\ avail - Cardinality(waiting) < MaxUnits
          /\ avail' = avail + 1
          /\ UNCHANGED <<waiting, failed>>

Overflow == /\ avail - Cardinality(waiting) = MaxUnits
            /\ failed' = TRUE

Next == \/ ~failed /\ \/ Signal
                      \/ Overflow
                      \/ \E t \in Threads : \/ Acquire(t)
                                            \/ Enqueue(t)
                                            \/ Grant(t)
                                            \/ GiveUp(t)
        \/ failed /\ failed'

Spec == Init /\ [][Next]_vars
=============================================================================
