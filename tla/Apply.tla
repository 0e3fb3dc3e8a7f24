-------------------------------- MODULE Apply --------------------------------
(* dispatch_apply_f from two sides, of which a behaviour shows one: one call *)
(* with its helpers and the width of its queues (DispatchApply), and, seen   *)
(* by one thread, calls from inside the iterations of others (NestedApply),  *)
(* which share the processors by the same ApplyWidth.                        *)
EXTENDS DispatchApply

CONSTANTS NestedCpus, NestedMax, NestedIterations, MaxDepth   \* of the nested calls

ASSUME NestedWidthAssumption == /\ NestedCpus \in Nat \ {0}
                                /\ NestedMax \in Nat
                                /\ NestedCpus <= NestedMax

VARIABLES side,      \* "call" or "nesting"
          contexts   \* the state of NestedApply

Nested == INSTANCE NestedApply WITH
            ActiveCpus <- NestedCpus, DISPATCH_APPLY_MAX <- NestedMax,
            MaxIterations <- NestedIterations

applyVars == <<vars, side, contexts>>

Calling(A) == side = "call" /\ A /\ UNCHANGED <<side, contexts>>
Within(A) == side = "nesting" /\ A /\ UNCHANGED <<side, vars>>

ApplyInit == Init /\ Nested!Init /\ side \in {"call", "nesting"}
ApplyNext == Calling(Next) \/ Within(Nested!Next)

ApplySpec ==
    /\ ApplyInit /\ [][ApplyNext]_applyVars
    /\ WF_applyVars(Calling(CallerStep))
    /\ \A w \in Workers : WF_applyVars(Calling(WorkerStep(w)))

-----------------------------------------------------------------------------
(* However deep calls of dispatch_apply nest, and whichever of them run      *)
(* serially or on trimmed width, no more threads than there are processors   *)
(* are ever at work for them at once.                                        *)
NeverOversubscribed == Nested!NestingInv /\ Nested!NeverOversubscribed
=============================================================================
