------------------------- MODULE DispatchSemaphore -------------------------
(* dispatch_semaphore_t of libdispatch, libdispatch_sourceCode/src/         *)
(* semaphore.c, in the USE_MACH_SEM build. One atomic operation or one      *)
(* kernel call of the C code is one step, so every interleaving of signal,  *)
(* wait, timeout and lazy port creation is explored. The kernel calls that  *)
(* are only retried (KERN_ABORTED, a failed semaphore_create) are stutters. *)
EXTENDS Integers, FiniteSets

CONSTANTS Threads,           \* the threads that may call the semaphore
          Orig,              \* dsema_orig: the value given at creation
          LongMax,           \* LONG_MAX: the width of dsema_value
          Timeouts,          \* the timeouts callers pass
          NoPort, DeadPort   \* MACH_PORT_NULL and MACH_PORT_DEAD

ASSUME ThreadsAssumption == /\ IsFiniteSet(Threads)
                            /\ Cardinality(Threads) =< LongMax
ASSUME WidthAssumption   == LongMax \in Nat \ {0}
\* dispatch_semaphore_create refuses a negative value.
ASSUME OrigAssumption    == Orig \in 0..LongMax
ASSUME TimeoutAssumption == Timeouts \subseteq {"now", "finite", "forever"}
ASSUME PortAssumption    == /\ NoPort \notin Threads
                            /\ DeadPort \notin Threads
                            /\ NoPort # DeadPort

VARIABLES dsema_value,   \* the counter
          dsema_port,    \* the kernel semaphore, named by the thread creating it
          ports,         \* kernel semaphores that exist
          tokens,        \* posted and not consumed wakeups of each of them
          op,            \* the slow path each thread is in: none, signal or wait
          pc,            \* where in it
          timeout,       \* the timeout argument of its wait
          orig,          \* the local `orig' of _dispatch_semaphore_wait_slow
          life,          \* alive, disposed, or how the process died
          held           \* history: units granted minus units signalled

vars == <<dsema_value, dsema_port, ports, tokens, op, pc, timeout, orig, life,
          held>>
locals == <<timeout, orig>>
kernel == <<dsema_port, ports, tokens>>

LongMin == -LongMax - 1
Long    == LongMin..LongMax


\* os_atomic_inc2o and os_atomic_dec2o wrap around.
Inc(v) == IF v = LongMax THEN LongMin ELSE v + 1
Dec(v) == IF v = LongMin THEN LongMax ELSE v - 1

Waiters == {t \in Threads : op[t] = "wait"}
Posting == {t \in Threads : op[t] = "signal"}
Publishing == {t \in Threads : pc[t] = "publish"}

Goto(t, l) == pc' = [pc EXCEPT ![t] = l]
\* Leaving a slow path; the dead locals are forgotten.
Return(t)  == /\ op' = [op EXCEPT ![t] = "none"]
              /\ timeout' = [timeout EXCEPT ![t] = "forever"]
              /\ orig' = [orig EXCEPT ![t] = 0]
              /\ Goto(t, "idle")

Init == /\ dsema_value = Orig
        /\ dsema_port = NoPort
        /\ ports = {}
        /\ tokens = [p \in Threads |-> 0]
        /\ op = [t \in Threads |-> "none"]
        /\ pc = [t \in Threads |-> "idle"]
        /\ timeout = [t \in Threads |-> "forever"]
        /\ orig = [t \in Threads |-> 0]
        /\ life = "alive"
        /\ held = 0

-----------------------------------------------------------------------------
\* Plausible bugs of the steps below.
SignalIsFast_strict(v) == v >= 0
WaitIsFast_loose(v) == v >= -1
UndoCAS_forgets(t) ==
    /\ pc[t] = "undoCAS"
    /\ dsema_value = orig[t] /\ Return(t) /\ UNCHANGED dsema_value
InUse_offbyone == dsema_value =< Orig

-----------------------------------------------------------------------------
\* _dispatch_semaphore_create_port, called by both slow paths: look, create a
\* port, publish it unless somebody else did and destroy it then.
AfterPort(t) == IF op[t] = "signal" THEN "post"
                ELSE IF timeout[t] = "now" THEN "undoLoad"
                ELSE IF timeout[t] = "finite" THEN "timedwait"
                ELSE "drain"

create_port_check(t) ==
    /\ pc[t] = "port"
    /\ Goto(t, IF dsema_port = NoPort THEN "create" ELSE AfterPort(t))
    /\ UNCHANGED <<dsema_value, kernel, op, locals, life, held>>

create_port_create(t) ==
    /\ pc[t] = "create"
    /\ ports' = ports \cup {t}
    /\ Goto(t, "publish")
    /\ UNCHANGED <<dsema_value, dsema_port, tokens, op, locals, life, held>>

PublishPort(t) ==
    /\ pc[t] = "publish"
    /\ IF dsema_port = NoPort THEN dsema_port' = t /\ ports' = ports
       ELSE dsema_port' = dsema_port /\ ports' = ports \ {t}

create_port_publish(t) ==
    /\ PublishPort(t)
    /\ Goto(t, AfterPort(t))
    /\ UNCHANGED <<dsema_value, tokens, op, locals, life, held>>

-----------------------------------------------------------------------------
SignalIsFast(v) == v > 0

\* The trap "Unbalanced call to dispatch_semaphore_signal()" is part of the
\* step: no memory is touched between the increment and it.
dispatch_semaphore_signal(t) ==
    /\ pc[t] = "idle" /\ life = "alive"
    /\ LET value == Inc(dsema_value) IN
       /\ dsema_value' = value
       /\ \/ SignalIsFast(value) /\ UNCHANGED <<op, pc, life>>
          \/ /\ ~SignalIsFast(value) /\ value = LongMin
             /\ life' = "overflow"
             /\ UNCHANGED <<op, pc>>
          \/ /\ ~SignalIsFast(value) /\ value # LongMin
             /\ op' = [op EXCEPT ![t] = "signal"]
             /\ Goto(t, "port")
             /\ life' = life
    /\ held' = held - 1
    /\ UNCHANGED <<kernel, locals>>

\* semaphore_signal(dsema->dsema_port) of _dispatch_semaphore_signal_slow.
signal_slow_post(t) ==
    /\ pc[t] = "post"
    /\ tokens' = [tokens EXCEPT ![dsema_port] = @ + 1]
    /\ Return(t)
    /\ UNCHANGED <<dsema_value, dsema_port, ports, life, held>>

-----------------------------------------------------------------------------
WaitIsFast(v) == v >= 0

dispatch_semaphore_wait(t, when) ==
    /\ pc[t] = "idle" /\ life = "alive"
    /\ LET value == Dec(dsema_value) IN
       /\ dsema_value' = value
       /\ \/ /\ WaitIsFast(value)
             /\ held' = held + 1
             /\ UNCHANGED <<op, pc, timeout>>
          \/ /\ ~WaitIsFast(value)
             /\ op' = [op EXCEPT ![t] = "wait"]
             /\ Goto(t, "port")
             /\ timeout' = [timeout EXCEPT ![t] = when]
             /\ held' = held
    /\ UNCHANGED <<kernel, orig, life>>

\* semaphore_timedwait and semaphore_wait return when they consume a wakeup.
\* SYNC_POLICY_FIFO orders the threads blocked in the kernel; the model lets any
\* of them win, which covers every order in which they may have got there.
TakeToken(t) ==
    /\ tokens[dsema_port] > 0
    /\ tokens' = [tokens EXCEPT ![dsema_port] = @ - 1]
    /\ held' = held + 1
    /\ Return(t)
    /\ UNCHANGED <<dsema_value, dsema_port, ports, life>>

wait_slow_timedwait(t) == pc[t] = "timedwait" /\ TakeToken(t)

wait_slow_drain(t) == pc[t] = "drain" /\ TakeToken(t)

\* KERN_OPERATION_TIMED_OUT: undo what the fast path did to dsema_value.
wait_slow_timeout(t) ==
    /\ pc[t] = "timedwait"
    /\ Goto(t, "undoLoad")
    /\ UNCHANGED <<dsema_value, kernel, op, locals, life, held>>

\* while (orig < 0); otherwise another thread called semaphore_signal().
UndoLabel(v) == IF v < 0 THEN "undoCAS" ELSE "drain"

wait_slow_undoLoad(t) ==
    /\ pc[t] = "undoLoad"
    /\ orig' = [orig EXCEPT ![t] = dsema_value]
    /\ Goto(t, UndoLabel(dsema_value))
    /\ UNCHANGED <<dsema_value, kernel, op, timeout, life, held>>

\* os_atomic_cmpxchgvw2o: it stores and the wait returns timed out, or it
\* reloads `orig' (a spurious failure of the weak form is a stutter).
UndoCAS(t) ==
    /\ pc[t] = "undoCAS"
    /\ \/ /\ dsema_value = orig[t]
          /\ dsema_value' = orig[t] + 1
          /\ Return(t)
       \/ /\ dsema_value # orig[t]
          /\ orig' = [orig EXCEPT ![t] = dsema_value]
          /\ Goto(t, UndoLabel(dsema_value))
          /\ UNCHANGED <<dsema_value, op, timeout>>

wait_slow_undoCAS(t) ==
    /\ UndoCAS(t)
    /\ UNCHANGED <<kernel, life, held>>

-----------------------------------------------------------------------------
\* The last reference may go as soon as no wait is in progress: a caller keeps
\* its reference while it waits, but a signaller may rely on the waiter's.
CanDispose(t) == op[t] = "none" /\ Waiters = {}

\* "Semaphore object deallocated while in use".
InUse == dsema_value < Orig

\* _dispatch_semaphore_dispose and _dispatch_semaphore_class_dispose.
semaphore_dispose(t) ==
    /\ pc[t] = "idle" /\ life = "alive" /\ CanDispose(t)
    /\ \/ InUse /\ life' = "crash" /\ UNCHANGED <<dsema_port, ports>>
       \/ /\ ~InUse
          /\ life' = "disposed"
          /\ ports' = ports \ {dsema_port}
          /\ dsema_port' = DeadPort
    /\ UNCHANGED <<dsema_value, tokens, op, pc, locals, held>>

-----------------------------------------------------------------------------
\* The steps inside a call, and all steps of a thread.
Inside(t) == \/ create_port_check(t)
             \/ create_port_create(t)
             \/ create_port_publish(t)
             \/ signal_slow_post(t)
             \/ wait_slow_timedwait(t)
             \/ wait_slow_drain(t)
             \/ wait_slow_timeout(t)
             \/ wait_slow_undoLoad(t)
             \/ wait_slow_undoCAS(t)

Step(t) == \/ Inside(t)
           \/ dispatch_semaphore_signal(t)
           \/ \E when \in Timeouts : dispatch_semaphore_wait(t, when)
           \/ semaphore_dispose(t)

Next == life \notin {"crash", "overflow"} /\ \E t \in Threads : Step(t)

Spec == Init /\ [][Next]_vars

(* A thread inside a call is scheduled again (weak fairness). A thread       *)
(* blocked in the kernel while wakeups keep coming gets one, because the     *)
(* port is created with SYNC_POLICY_FIFO, and a compare-and-swap loop does   *)
(* not lose every race (strong fairness).                                    *)
Fairness(t) == /\ WF_vars(Inside(t))
               /\ SF_vars(wait_slow_timedwait(t) \/ wait_slow_drain(t))
               /\ SF_vars(wait_slow_undoCAS(t) /\ op'[t] = "none")

FairSpec == Spec /\ \A t \in Threads : Fairness(t)

-----------------------------------------------------------------------------
\* Types, and the local state that goes with each label.
TypeOK ==
    /\ dsema_value \in Long
    /\ dsema_port \in Threads \cup {NoPort, DeadPort}
    /\ ports \in SUBSET Threads
    /\ tokens \in [Threads -> Nat]
    /\ op \in [Threads -> {"none", "signal", "wait"}]
    /\ pc \in [Threads -> {"idle", "port", "create", "publish", "post",
                           "timedwait", "undoLoad", "undoCAS", "drain"}]
    /\ timeout \in [Threads -> {"now", "finite", "forever"}]
    /\ orig \in [Threads -> Long]
    /\ life \in {"alive", "disposed", "crash", "overflow"}
    /\ held \in Int

Max0(i) == IF i > 0 THEN i ELSE 0
Tokens  == IF dsema_port \in Threads THEN tokens[dsema_port] ELSE 0

(* The comment of dispatch_semaphore_create says that a negative value is    *)
(* the number of waiting threads. Exactly: a thread inside the slow path of  *)
(* wait is counted by the negative value, or by a signaller that has         *)
(* incremented and not yet posted, or by a wakeup posted and not consumed.   *)
(* So no wakeup is lost, none is left over for a later wait, and a signaller *)
(* in its slow path always has a waiter to wake.                             *)
WakeupAccounting ==
    life # "overflow" =>
      Cardinality(Waiters) = Tokens + Cardinality(Posting) + Max0(-dsema_value)

(* The counter and the units agree: what the semaphore started with, less    *)
(* what callers hold, less one for every thread in the slow path of wait,    *)
(* including those that already timed out and have not yet undone it.        *)
UnitAccounting ==
    life # "overflow" => dsema_value = Orig - held - Cardinality(Waiters)

(* Callers never hold more units than the semaphore was created with plus    *)
(* those that were signalled, whatever mixture of fast path, slow path,      *)
(* timeout and undo handed them out.                                         *)
NeverOverGranted == life # "overflow" => held =< Orig

(* Lazy creation never leaves wakeups on a port no waiter looks at, and      *)
(* leaks no port: besides the published one only ports still being published *)
(* exist, and none is left when the object has been disposed of.             *)
PortsSound ==
    /\ \A p \in Threads : tokens[p] > 0 => p = dsema_port
    /\ ports = Publishing \cup ({dsema_port} \cap Threads)
    /\ life = "disposed" => ports = {}

(* A thread inside a call never runs on a disposed semaphore, although a     *)
(* signaller holds no reference of its own after it has incremented.         *)
NoUseAfterDispose == life = "disposed" => Waiters \cup Posting = {}

-----------------------------------------------------------------------------
\* The inductive invariant the proofs use: the labels go with the slow path a
\* thread is in, the port is published before it is used, the undo loop holds a
\* negative value, and the accounting above.
Labels ==
    \A t \in Threads :
      /\ op[t] = "none" <=> pc[t] = "idle"
      /\ pc[t] = "post" => op[t] = "signal"
      /\ pc[t] \in {"timedwait", "undoLoad", "undoCAS", "drain"} => op[t] = "wait"
      /\ pc[t] \in {"post", "timedwait", "undoLoad", "undoCAS", "drain"}
           => dsema_port # NoPort
      /\ pc[t] = "undoCAS" => orig[t] < 0
      /\ pc[t] \in {"create", "publish"} => dsema_port # t
Lives == dsema_port = DeadPort <=> life = "disposed"

Inv == /\ TypeOK /\ Labels /\ Lives
       /\ WakeupAccounting /\ UnitAccounting /\ NeverOverGranted
       /\ PortsSound /\ NoUseAfterDispose

(* dispose traps exactly when callers still hold units: balanced clients     *)
(* never see "Semaphore object deallocated while in use".                    *)
DisposeTrapsIffUnbalanced ==
    [][(\E t \in Threads : semaphore_dispose(t))
         => (life' = "crash" <=> held > 0)]_vars

(* Once a port is published every later post and wait uses that one, until   *)
(* the object is disposed of.                                                *)
PortIsStable ==
    [][(dsema_port \in Threads) => (dsema_port' \in {dsema_port, DeadPort})]_vars

(* What dispatch/semaphore.h says of the timeout argument: a wait that need   *)
(* not wait forever returns, whether or not anybody signals again.           *)
TimedWaitReturns ==
    \A t \in Threads :
      (op[t] = "wait" /\ timeout[t] # "forever")
        ~> (op[t] = "none" \/ life # "alive")

(* The semaphore implements the abstract one: units signalled and not yet    *)
(* granted are in the value, in a signaller's hand, or posted.               *)
Abs == INSTANCE CountingSemaphore WITH
         Units <- Orig, MaxUnits <- LongMax,
         avail <- Max0(dsema_value) + Tokens + Cardinality(Posting),
         waiting <- Waiters,
         failed <- life = "overflow"
AbsSpec == Abs!Spec
=============================================================================
