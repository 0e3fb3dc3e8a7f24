---------------------------- MODULE DispatchOnce ----------------------------
(* dispatch_once_f with the list of waiters (libdispatch_sourceCode/src/     *)
(* once.c, the build without DISPATCH_GATE_USE_FOR_DISPATCH_ONCE), and the   *)
(* thread events of shims/lock.h the waiters sleep on (ulock or futex        *)
(* build). The nodes of the list live on the stacks of the callers, so each  *)
(* node is named by its thread, and must not be read after that call ends.   *)
EXTENDS Integers, FiniteSets

CONSTANTS Threads,     \* the callers of one predicate
          NULL, DONE   \* 0 and DISPATCH_ONCE_DONE

VARIABLES vval,        \* the predicate: NULL, DONE, or the newest node
          dow_next,    \* the link of each node
          dte_value,   \* its event: 0, 1 signalled, -1 (UINT32_MAX) waited on
          pc,
          next,        \* the local `next'
          event,       \* the node the runner is about to signal
          runs,        \* how often the block was started
          completed    \* how often it ended

vars == <<vval, dow_next, dte_value, pc, next, event, runs, completed>>
nodes == <<dow_next, dte_value>>
block == <<runs, completed>>

Goto(t, l) == pc' = [pc EXCEPT ![t] = l]

Init == /\ vval = NULL
        /\ dow_next = [t \in Threads |-> NULL]
        /\ dte_value = [t \in Threads |-> 0]
        /\ pc = [t \in Threads |-> "idle"]
        /\ next = [t \in Threads |-> NULL]
        /\ event = [t \in Threads |-> NULL]
        /\ runs = 0 /\ completed = 0

-----------------------------------------------------------------------------
\* Plausible bug: the wait does not look at what was there before it.
WaitDone_always(v) == TRUE

-----------------------------------------------------------------------------
\* The inline _dispatch_once of dispatch/once.h tests the predicate first.
dispatch_once(t) ==
    /\ pc[t] = "idle"
    /\ Goto(t, IF vval = DONE THEN "done" ELSE "enter")
    /\ UNCHANGED <<vval, nodes, next, event, block>>

FirstCaller(t) == vval = NULL

once_enter(t) ==
    /\ pc[t] = "enter"
    /\ \/ FirstCaller(t) /\ vval' = t /\ runs' = runs + 1 /\ Goto(t, "run")
       \/ ~FirstCaller(t) /\ Goto(t, "init") /\ UNCHANGED <<vval, runs>>
    /\ UNCHANGED <<nodes, next, event, completed>>

\* _dispatch_client_callout returns.
once_callout(t) ==
    /\ pc[t] = "run"
    /\ completed' = completed + 1
    /\ Goto(t, "publish")
    /\ UNCHANGED <<vval, nodes, next, event, runs>>

\* while (next != tail): the list ends at the runner's own node.
WalkLabel(t, n) == IF n = t THEN "done" ELSE "walk"

once_publish(t) ==
    /\ pc[t] = "publish"
    /\ vval' = DONE
    /\ next' = [next EXCEPT ![t] = vval]
    /\ Goto(t, WalkLabel(t, vval))
    /\ UNCHANGED <<nodes, event, block>>

\* A bug: the link is read after the node was signalled.
once_walk_late(t) ==
    /\ pc[t] = "walk"
    /\ IF event[t] = next[t]
       THEN /\ dow_next[next[t]] # NULL
            /\ next' = [next EXCEPT ![t] = dow_next[next[t]]]
            /\ Goto(t, WalkLabel(t, dow_next[next[t]]))
            /\ event' = event
       ELSE /\ event' = [event EXCEPT ![t] = next[t]]
            /\ Goto(t, "signal")
            /\ next' = next
    /\ UNCHANGED <<vval, nodes, block>>

\* The link of a node is read, once its owner has set it, before the node is
\* signalled: its memory is gone as soon as its owner wakes.
once_walk(t) ==
    /\ pc[t] = "walk"
    /\ dow_next[next[t]] # NULL
    /\ event' = [event EXCEPT ![t] = next[t]]
    /\ next' = [next EXCEPT ![t] = dow_next[next[t]]]
    /\ Goto(t, "signal")
    /\ UNCHANGED <<vval, nodes, block>>

\* _dispatch_thread_event_signal: 0 -> 1 needs no wakeup.
NeedsWake(v) == v # 0

once_signal(t) ==
    /\ pc[t] = "signal"
    /\ dte_value' = [dte_value EXCEPT ![event[t]] = @ + 1]
    /\ Goto(t, IF NeedsWake(dte_value[event[t]]) THEN "wake" ELSE WalkLabel(t, next[t]))
    /\ UNCHANGED <<vval, dow_next, next, event, block>>

\* _dispatch_thread_event_signal_slow wakes by address; it reads no memory.
once_wake(t) ==
    /\ pc[t] = "wake"
    /\ pc' = [pc EXCEPT ![t] = WalkLabel(t, next[t]),
                        ![event[t]] = IF @ = "asleep" THEN "waitSlow" ELSE @]
    /\ UNCHANGED <<vval, nodes, next, event, block>>

-----------------------------------------------------------------------------
once_init(t) ==
    /\ pc[t] = "init"
    /\ dte_value' = [dte_value EXCEPT ![t] = 0]
    /\ next' = [next EXCEPT ![t] = vval]
    /\ Goto(t, "push")
    /\ UNCHANGED <<vval, dow_next, event, block>>

once_push(t) ==
    /\ pc[t] = "push"
    /\ \/ next[t] = DONE /\ Goto(t, "done") /\ UNCHANGED <<vval, next>>
       \/ next[t] # DONE /\ vval = next[t] /\ vval' = t /\ Goto(t, "read")
            /\ next' = next
       \/ next[t] # DONE /\ vval # next[t] /\ next' = [next EXCEPT ![t] = vval]
            /\ UNCHANGED <<vval, pc>>
    /\ UNCHANGED <<nodes, event, block>>

\* dow.dow_thread = next->dow_thread, for the priority override: a read of
\* another thread's node.
once_readThread(t) ==
    /\ pc[t] = "read"
    /\ Goto(t, "link")
    /\ UNCHANGED <<vval, nodes, next, event, block>>

once_link(t) ==
    /\ pc[t] = "link"
    /\ dow_next' = [dow_next EXCEPT ![t] = next[t]]
    /\ Goto(t, "wait")
    /\ UNCHANGED <<vval, dte_value, next, event, block>>

\* _dispatch_thread_event_wait and its slow path.
WaitDone(v) == v = 0

once_wait(t) ==
    /\ pc[t] = "wait"
    /\ dte_value' = [dte_value EXCEPT ![t] = @ - 1]
    /\ Goto(t, IF WaitDone(dte_value[t] - 1) THEN "done" ELSE "waitSlow")
    /\ UNCHANGED <<vval, dow_next, next, event, block>>

once_waitSlow(t) ==
    /\ pc[t] = "waitSlow"
    /\ Goto(t, IF dte_value[t] = 0 THEN "done"
               ELSE IF dte_value[t] = -1 THEN "ulock" ELSE "corrupt")
    /\ UNCHANGED <<vval, nodes, next, event, block>>

\* _dispatch_ulock_wait compares and blocks in one step of the kernel.
once_ulock(t) ==
    /\ pc[t] = "ulock"
    /\ Goto(t, IF dte_value[t] = -1 THEN "asleep" ELSE "waitSlow")
    /\ UNCHANGED <<vval, nodes, next, event, block>>

Step(t) == \/ once_enter(t) \/ once_callout(t) \/ once_publish(t)
           \/ once_walk(t) \/ once_signal(t) \/ once_wake(t)
           \/ once_init(t) \/ once_push(t) \/ once_readThread(t) \/ once_link(t)
           \/ once_wait(t) \/ once_waitSlow(t) \/ once_ulock(t)

Next == \E t \in Threads : dispatch_once(t) \/ Step(t)

\* Every thread inside the call is scheduled again, and the block ends.
Spec == Init /\ [][Next]_vars /\ \A t \in Threads : WF_vars(Step(t))

-----------------------------------------------------------------------------
InCall(t) == pc[t] \notin {"idle", "done"}

TypeOK ==
    /\ vval \in Threads \cup {NULL, DONE}
    /\ dow_next \in [Threads -> Threads \cup {NULL}]
    /\ dte_value \in [Threads -> -1..1]
    /\ pc \in [Threads -> {"idle", "enter", "run", "publish", "walk", "signal",
                 "wake", "init", "push", "read", "link", "wait", "waitSlow",
                 "ulock", "asleep", "done"}]
    /\ next \in [Threads -> Threads \cup {NULL, DONE}]
    /\ event \in [Threads -> Threads \cup {NULL}]
    /\ runs \in 0..1 /\ completed \in 0..1

(* No node is read or written after the call that owns it has returned: not  *)
(* by the runner walking and signalling the list, and not by a later waiter   *)
(* reading the thread of the node it pushed in front of.                     *)
NoDeadNode ==
    \A t \in Threads :
      /\ pc[t] = "walk" => InCall(next[t])
      /\ pc[t] = "signal" => InCall(event[t])
      /\ pc[t] = "read" => InCall(next[t])

(* Every event is signalled exactly once for its one wait: it is back to 0    *)
(* when the call ends, as _dispatch_thread_event_destroy asserts.            *)
EventsSettled == \A t \in Threads : pc[t] = "done" => dte_value[t] = 0

\* The inductive invariant. The runner leaves the labels of its own only after
\* the walk, and each stage of the block has its value of the predicate.
Runner(t) == pc[t] \in {"run", "publish", "walk", "signal", "wake"}
OneRunner ==
    /\ \A t, u \in Threads : Runner(t) /\ Runner(u) => t = u
    /\ vval = NULL <=> runs = 0
    /\ completed = 1 => runs = 1
    /\ vval \in Threads => \E t \in Threads : pc[t] \in {"run", "publish"}
    /\ vval = DONE => completed = 1
    /\ \A t \in Threads : /\ pc[t] \in {"run", "publish"} => vval \in Threads
                          /\ pc[t] \in {"walk", "signal", "wake", "done"} => vval = DONE
                          /\ pc[t] = "run" => completed = 0
                          /\ pc[t] = "publish" => completed = 1
                          /\ pc[t] \notin {"idle", "enter"} => runs = 1

\* A node is pushed before it is linked, and keeps what it was pushed in front
\* of in `next'. A signal raises its event by one.
Pushed(t) == pc[t] \in {"read", "link", "wait", "waitSlow", "ulock", "asleep"}
Slow(t) == pc[t] \in {"waitSlow", "ulock", "asleep"}
Signalled(t) == dte_value[t] = IF Slow(t) THEN 0 ELSE 1
InHand(u) == \E t \in Threads : pc[t] = "signal" /\ event[t] = u
Pending(u) == Pushed(u) /\ ~Signalled(u) /\ ~InHand(u)
Nodes ==
    \A t \in Threads :
      /\ pc[t] \in {"push", "read", "link", "wait", "waitSlow", "ulock", "asleep"} => next[t] # NULL
      /\ dow_next[t] = IF Pushed(t) /\ pc[t] \notin {"read", "link"} THEN next[t]
                       ELSE IF pc[t] = "done" THEN dow_next[t] ELSE NULL
      /\ dte_value[t] \in IF Slow(t) THEN {-1, 0} ELSE IF pc[t] = "wait" THEN {0, 1} ELSE {0}
      /\ Pushed(t) /\ Signalled(t) => vval = DONE
      /\ next[t] = DONE => vval = DONE

\* From the newest node, or the one the runner is about to take, the nodes that
\* are still to be signalled lead one by one to the runner's.
OnTheWay(n) == /\ n \in Threads /\ (Pending(n) \/ Runner(n))
               /\ \A u \in Threads : Pending(u) => next[u] # n
Chain ==
    /\ vval \in Threads => OnTheWay(vval)
    /\ \A t \in Threads : pc[t] \in {"walk", "signal", "wake"} =>
         OnTheWay(next[t]) /\ (pc[t] = "walk" => next[t] # t)
    /\ \A t \in Threads : pc[t] \in {"signal", "wake"} =>
         event[t] \in Threads /\ (Pushed(event[t]) \/ pc[event[t]] = "done")
    /\ \A t \in Threads : pc[t] = "signal" =>
         /\ Pushed(event[t]) /\ pc[event[t]] \notin {"read", "link"}
         /\ ~Signalled(event[t])
    /\ \A u \in Threads : Pending(u) => next[u] \in Threads /\ (Pending(next[u]) \/ Runner(next[u]))
    /\ \A u, w \in Threads : Pending(u) /\ Pending(w) /\ next[u] = next[w] => u = w
ListInv == TypeOK /\ OneRunner /\ Nodes /\ Chain

(* Every caller returns, the last and those pushed during the walk included. *)
EveryCallReturns == \A t \in Threads : (pc[t] # "idle") ~> (pc[t] = "done")

(* The block runs once, and a call returns only when it has completed.       *)
Abs == INSTANCE Once WITH
         block <- IF completed > 0 THEN "done"
                  ELSE IF runs > 0 THEN "running" ELSE "not_run",
         calls <- [t \in Threads |-> IF pc[t] = "idle" THEN "out"
                                     ELSE IF pc[t] = "done" THEN "returned" ELSE "in"]
AbsSpec == Abs!Spec
=============================================================================
