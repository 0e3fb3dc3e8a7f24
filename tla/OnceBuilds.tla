----------------------------- MODULE OnceBuilds -----------------------------
(* The two builds of dispatch_once_f of libdispatch_sourceCode/src/once.c:   *)
(* on a gate (DispatchOnceGate) and with a list of waiters (DispatchOnce).   *)
(* A behaviour is one of the two, chosen at compile time, that is in the     *)
(* initial state; the callers and their block are the same.                  *)
EXTENDS DispatchOnceGate

CONSTANT DONE         \* DISPATCH_ONCE_DONE of the list build
ASSUME DoneAssumption == DONE \notin Threads \cup {NoThread}

VARIABLES build,      \* "gate" or "list"
          vval, dow_next, dte_value, next, event   \* the state of DispatchOnce

List == INSTANCE DispatchOnce WITH NULL <- NoThread

gateVars  == <<dgo_once, tid_new, crashed>>
listVars  == <<vval, dow_next, dte_value, next, event>>
buildVars == <<vars, listVars, build>>

BuildInit == Init /\ List!Init /\ build \in {"gate", "list"}

GateBuild(A) == build = "gate" /\ A /\ UNCHANGED <<listVars, build>>
ListBuild(A) == build = "list" /\ A /\ UNCHANGED <<gateVars, build>>

BuildNext == GateBuild(Next) \/ ListBuild(List!Next)

\* Every thread inside the call is scheduled again, and the block ends.
BuildSpec ==
    /\ BuildInit /\ [][BuildNext]_buildVars
    /\ \A t \in Threads : /\ WF_buildVars(GateBuild(~crashed /\ Step(t)))
                         /\ WF_buildVars(ListBuild(List!Step(t)))

-----------------------------------------------------------------------------
(* No node of the list is read or written after the call that owns it has    *)
(* returned, since it lives on that call's stack: not by the runner walking  *)
(* and signalling the list, and not by a later waiter reading the thread of  *)
(* the node it pushed in front of. And every event is signalled exactly once *)
(* for its one wait, as _dispatch_thread_event_destroy asserts.              *)
NoDeadNode == build = "list" => List!NoDeadNode /\ List!EventsSettled

\* The inductive invariant: the one of the build that runs.
BuildInv == \/ build = "gate" /\ GateInv
            \/ build = "list" /\ List!ListInv
=============================================================================
