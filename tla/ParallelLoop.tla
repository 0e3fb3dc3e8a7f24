---------------------------- MODULE ParallelLoop ----------------------------
(* What dispatch_apply promises its caller: a for loop whose invocations may *)
(* overlap. Indices are started in increasing order and once each, and the   *)
(* call returns when every invocation has ended.                             *)
EXTENDS Naturals

VARIABLES iterations,  \* the length of the loop
          started,     \* indices 0 .. started-1 have been started
          ended,       \* the indices whose invocation has ended
          state        \* "idle", "looping" or "returned"

vars == <<iterations, started, ended, state>>

Init == iterations = 0 /\ started = 0 /\ ended = {} /\ state = "idle"

Call == /\ state = "idle"
        /\ iterations' \in Nat
        /\ state' = "looping"
        /\ UNCHANGED <<started, ended>>

Start == /\ state = "looping" /\ started < iterations
         /\ started' = started + 1
         /\ UNCHANGED <<iterations, ended, state>>

End == /\ state = "looping"
       /\ \E i \in 0 .. started - 1 : i \notin ended /\ ended' = ended \cup {i}
       /\ UNCHANGED <<iterations, started, state>>

Return == /\ state = "looping" /\ ended = 0 .. iterations - 1
          /\ state' = "returned"
          /\ UNCHANGED <<iterations, started, ended>>

Next == Call \/ Start \/ End \/ Return

Spec == Init /\ [][Next]_vars
=============================================================================
