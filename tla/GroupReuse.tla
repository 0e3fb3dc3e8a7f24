----------------------------- MODULE GroupReuse -----------------------------
(* A dispatch group that is used again once it was empty, as the            *)
(* documentation allows, seen by one waiting thread and by notification     *)
(* blocks: a history variable records which of them have seen the group     *)
(* empty since their call began.                                            *)
EXTENDS DispatchGroup

VARIABLE sawEmpty   \* waiting threads and blocks since whose call it was empty
reuseVars == <<vars, sawEmpty>>

ReuseInit == Init /\ sawEmpty = {}

Began == {t \in Threads : At(t, "idle") /\ fr'[t].pc = "load"}
           \cup (notified' \ notified)
Pending == {t \in Threads : fr[t].pc # "idle"} \cup notified

ReuseNext == /\ Next
             /\ sawEmpty' = IF dg_value' = 0 THEN Pending \cup Began
                            ELSE (sawEmpty \cap Pending) \ Began

ReuseSpec == ReuseInit /\ [][ReuseNext]_reuseVars

-----------------------------------------------------------------------------
(* dispatch/group.h: dispatch_group_wait "returns after all blocks have       *)
(* completed": a wakeup ends a wait only if the group was empty at some       *)
(* moment since the wait was called.                                          *)
WaitSawEmpty ==
    [][\A t \in Threads : wait_slow_wakeup(t) => t \in sawEmpty]_reuseVars

(* dispatch/group.h: a notification block is submitted "once all blocks       *)
(* associated with the dispatch group have completed": only if the group was  *)
(* empty at some moment since dispatch_group_notify was called.               *)
NotifySawEmpty ==
    [][\A c \in Conts : submitted'[c] # submitted[c] => c \in sawEmpty]_reuseVars
=============================================================================
