------------------------------ MODULE WorkLists ------------------------------
(***************************************************************************)
(* The two lists that hold work in libdispatch, of which a behaviour has   *)
(* one: that of a root queue, with many consumers (RootQueue), and that of *)
(* a queue, with one (MpscQueue).  Producers push to both in the same way: *)
(* head, tail, the links and the history are shared.                       *)
(***************************************************************************)
EXTENDS RootQueue

VARIABLES kind,                          \* "root" or "queue"
          qpc, cpc, qcur, nxt, last      \* the state of MpscQueue that is its own

Queue == INSTANCE MpscQueue WITH pc <- qpc, cur <- qcur

rootVars == <<pool, sem, at, cur, want, after, pushed>>
queueVars == <<qpc, cpc, qcur, nxt, last>>
listVars == <<rqVars, kind, queueVars>>

OfRoot(A) == kind = "root" /\ A /\ UNCHANGED <<kind, queueVars>>
OfQueue(A) == kind = "queue" /\ A /\ UNCHANGED <<kind, rootVars>>

ListInit == RootInit /\ Queue!Init /\ kind \in {"root", "queue"}
ListNext == OfRoot(RootNext) \/ OfQueue(Queue!Next)

ListSpec ==
  /\ ListInit /\ [][ListNext]_listVars
  /\ \A p \in Producers : /\ WF_listVars(OfRoot(PushStep(p) \/ PokeStep(p)))
                          /\ WF_listVars(OfQueue(Queue!Push(p)))
  /\ \A w \in Workers : WF_listVars(OfRoot(DrainStep(w) \/ PokeStep(w)))
  /\ WF_listVars(OfQueue(Queue!Drain))
  /\ SF_listVars(OfQueue(Queue!take))
-----------------------------------------------------------------------------
(* A producer writes the link of the item it found at the tail after it has let go
   of the list.  That item has not been finished with, freed or pushed again
   meanwhile: a consumer that takes the last item waits for the link. *)
NoDeadLink == NoDeadRootLink /\ Queue!NoDeadQueueLink
=============================================================================
