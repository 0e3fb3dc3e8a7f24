---------------------------- MODULE NestedApply ----------------------------
(* Calls of dispatch_apply_f from inside the iterations of other calls, seen *)
(* by one thread: the stack of its thread contexts, and with each the number *)
(* of threads that may be at that place at once (apply.c).                   *)
EXTENDS ApplyWidth, Sequences

CONSTANTS MaxIterations, MaxDepth   \* bounds of the model

VARIABLE contexts  \* [nested : dtc_apply_nesting, threads : threads here at once]

Top == contexts[Len(contexts)]

Init == contexts = <<[nested |-> 0, threads |-> 1]>>

\* invoke2 pushes a context. The call uses k of the threads it may use: the
\* redirection gives back those it finds no width for.
ParallelCall(n, k) ==
    /\ Len(contexts) <= MaxDepth
    /\ k <= ThreadCount(Top.nested, n)
    /\ contexts' = Append(contexts, [nested |-> Nesting(Top.nested, n),
                                     threads |-> Top.threads * k])

\* _dispatch_apply_serial pushes none: the context around it stays in force.
SerialCall ==
    /\ Len(contexts) <= MaxDepth
    /\ contexts' = Append(contexts, Top)

Return ==
    /\ Len(contexts) > 1
    /\ contexts' = SubSeq(contexts, 1, Len(contexts) - 1)

Next == \/ \E n \in 1..MaxIterations : \E k \in 2..n : ParallelCall(n, k)
        \/ SerialCall
        \/ Return

Spec == Init /\ [][Next]_contexts

-----------------------------------------------------------------------------
(* However deep calls of dispatch_apply nest, and whichever of them run       *)
(* serially or on trimmed width, no more threads than there are processors    *)
(* are ever at work for them at once.                                        *)
NeverOversubscribed ==
    \A i \in 1..Len(contexts) : contexts[i].threads <= ActiveCpus

\* The nesting recorded in a context is never less than the threads inside it.
ContextInv(c) ==
    /\ c \in [nested : Nat, threads : Nat \ {0}]
    /\ c.threads <= ActiveCpus
    /\ c.nested = 0 => c.threads = 1
    /\ c.nested > 0 => c.threads <= c.nested

NestingInv ==
    /\ contexts \in Seq([nested : Nat, threads : Nat \ {0}])
    /\ Len(contexts) > 0
    /\ \A i \in 1..Len(contexts) : ContextInv(contexts[i])
=============================================================================
