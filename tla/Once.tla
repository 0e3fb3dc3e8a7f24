-------------------------------- MODULE Once --------------------------------
(* What dispatch_once promises: the block runs once, and a call returns only *)
(* after it has completed. DispatchOnce.tla and DispatchOnceGate.tla, the    *)
(* two implementations in libdispatch, are shown to implement it.            *)
CONSTANT Threads

VARIABLES block,    \* not_run, running, done
          calls     \* per thread: out, in, returned

vars == <<block, calls>>

Init == block = "not_run" /\ calls = [t \in Threads |-> "out"]

Move(t, from, to) == calls[t] = from /\ calls' = [calls EXCEPT ![t] = to]

Call(t) == Move(t, "out", "in") /\ UNCHANGED block
Start(t) == /\ calls[t] = "in" /\ block = "not_run"
            /\ block' = "running" /\ UNCHANGED calls
Finish == block = "running" /\ block' = "done" /\ UNCHANGED calls
Return(t) == block = "done" /\ Move(t, "in", "returned") /\ UNCHANGED block
Skip(t) == block = "done" /\ Move(t, "out", "returned") /\ UNCHANGED block

Next == Finish \/ \E t \in Threads : Call(t) \/ Start(t) \/ Return(t) \/ Skip(t)

Spec == Init /\ [][Next]_vars
=============================================================================
