------------------------------- MODULE MpscQueue -------------------------------
(***************************************************************************)
(* The list of a dispatch queue: os_mpsc_* of src/inline_internal.h, with  *)
(* many producers and one consumer (the holder of the drain lock).         *)
(*                                                                         *)
(* The consumer takes items as _dispatch_queue_drain does, takes the whole *)
(* list as _dispatch_main_queue_drain does, or puts an item back as mach   *)
(* channels do.  os_mpsc_prepend has no caller.  An item is free to be     *)
(* pushed again as soon as it was taken, as continuations are.             *)
(***************************************************************************)
EXTENDS Integers, Sequences, FiniteSets

CONSTANTS Node, Producers, Null

VARIABLES head,      \* dq_items_head
          tail,      \* dq_items_tail
          next,      \* do_next of each item
          pc,        \* where each producer is
          chain,     \* the items it pushes
          prev,      \* the tail it replaced
          cpc,       \* where the consumer is
          cur, nxt,  \* the item it takes, and the one that follows (dc, next_dc)
          last,      \* the end of a captured snapshot, or Null
          fifo       \* history: the items pushed and not taken

vars == <<head, tail, next, pc, chain, prev, cpc, cur, nxt, last, fifo>>
queue == <<head, tail, next>>
producer == <<pc, chain, prev>>
consumer == <<cpc, cur, nxt, last>>

First(s) == s[1]
Last(s) == s[Len(s)]
\* A sequence without one of its elements.
Without(s, n) ==
  IF \E i \in DOMAIN s : s[i] = n
  THEN LET k == CHOOSE i \in DOMAIN s : s[i] = n
       IN [i \in 1..(Len(s) - 1) |-> IF i < k THEN s[i] ELSE s[i + 1]]
  ELSE s
InUse == {fifo[i] : i \in DOMAIN fifo}
         \union UNION {{chain[p][i] : i \in DOMAIN chain[p]} : p \in {q \in Producers : pc[q] = "xchg"}}

Init == /\ head = Null /\ tail = Null
        /\ next = [n \in Node |-> Null]
        /\ pc = [p \in Producers |-> "idle"]
        /\ chain = [p \in Producers |-> <<>>]
        /\ prev = [p \in Producers |-> Null]
        /\ cpc = "idle" /\ cur = Null /\ nxt = Null /\ last = Null
        /\ fifo = <<>>
-----------------------------------------------------------------------------
(* os_mpsc_push_update_tail_list, and os_mpsc_push_update_head *)

push_start(p) ==
  /\ pc[p] = "idle"
  /\ \E a, b \in Node \ InUse :
       /\ chain' = [chain EXCEPT ![p] = IF a = b THEN <<a>> ELSE <<a, b>>]
       /\ next' = [next EXCEPT ![a] = IF a = b THEN Null ELSE b, ![b] = Null]
  /\ pc' = [pc EXCEPT ![p] = "xchg"]
  /\ UNCHANGED <<head, tail, prev, consumer, fifo>>

push_xchg(p) ==
  /\ pc[p] = "xchg"
  /\ prev' = [prev EXCEPT ![p] = tail]
  /\ tail' = Last(chain[p])
  /\ fifo' = fifo \o chain[p]
  /\ pc' = [pc EXCEPT ![p] = IF tail = Null THEN "head" ELSE "link"]
  /\ UNCHANGED <<head, next, chain, consumer>>

push_link(p) ==
  /\ pc[p] = "link"
  /\ next' = [next EXCEPT ![prev[p]] = First(chain[p])]
  /\ pc' = [pc EXCEPT ![p] = "idle"]
  /\ UNCHANGED <<head, tail, chain, prev, consumer, fifo>>

push_head(p) ==
  /\ pc[p] = "head"
  /\ head' = First(chain[p])
  /\ pc' = [pc EXCEPT ![p] = "idle"]
  /\ UNCHANGED <<tail, next, chain, prev, consumer, fifo>>
-----------------------------------------------------------------------------
(* os_mpsc_get_head and os_mpsc_pop_head *)

get_head ==
  /\ cpc = "idle" /\ tail # Null /\ head # Null
  /\ cur' = head /\ last' = Null
  /\ cpc' \in {"pop_read", "capture"}
  /\ UNCHANGED <<queue, producer, nxt, fifo>>

pop_read ==
  /\ cpc = "pop_read"
  /\ nxt' = next[cur]
  /\ cpc' = "pop_store"
  /\ UNCHANGED <<queue, producer, cur, last, fifo>>

\* Plausible bug: an item without a successor is taken for the last one, with no
\* look at the tail.
AfterStore_trusting == "popped"
AfterStore == IF nxt = Null THEN "pop_cas" ELSE "popped"
pop_store ==
  /\ cpc = "pop_store"
  /\ head' = nxt
  /\ cpc' = AfterStore
  /\ UNCHANGED <<tail, next, producer, cur, nxt, last, fifo>>

pop_cas ==
  /\ cpc = "pop_cas"
  /\ \/ tail = cur /\ tail' = Null /\ cpc' = "popped"
     \/ tail # cur /\ cpc' = "pop_wait" /\ UNCHANGED tail
  /\ UNCHANGED <<head, next, producer, cur, nxt, last, fifo>>

pop_wait ==
  /\ cpc = "pop_wait" /\ next[cur] # Null
  /\ nxt' = next[cur]
  /\ cpc' = "pop_store"
  /\ UNCHANGED <<queue, producer, cur, last, fifo>>

\* The item is invoked and freed; the drain goes on with the one that follows.
take ==
  /\ cpc = "popped"
  /\ fifo' = Without(fifo, cur)
  /\ cur' = nxt
  /\ cpc' = IF nxt = Null THEN "idle" ELSE IF last = Null THEN "pop_read" ELSE "snapshot"
  /\ UNCHANGED <<queue, producer, nxt, last>>
-----------------------------------------------------------------------------
(* os_mpsc_undo_pop_head *)

undo_pop ==
  /\ cpc = "popped" /\ last = Null
  /\ \/ nxt # Null /\ cpc' = "undo_store" /\ UNCHANGED tail
     \/ nxt = Null /\ tail = Null /\ tail' = cur /\ cpc' = "undo_store"
     \/ nxt = Null /\ tail # Null /\ cpc' = "undo_wait" /\ UNCHANGED tail
  /\ UNCHANGED <<head, next, producer, cur, nxt, last, fifo>>

undo_wait ==
  /\ cpc = "undo_wait" /\ head # Null
  /\ next' = [next EXCEPT ![cur] = head]
  /\ cpc' = "undo_store"
  /\ UNCHANGED <<head, tail, producer, cur, nxt, last, fifo>>

undo_store ==
  /\ cpc = "undo_store"
  /\ head' = cur
  /\ cpc' = "idle"
  /\ UNCHANGED <<tail, next, producer, cur, nxt, last, fifo>>
-----------------------------------------------------------------------------
(* os_mpsc_capture_snapshot and os_mpsc_pop_snapshot_head *)

capture ==
  /\ cpc = "capture"
  /\ head' = Null
  /\ cpc' = "capture_tail"
  /\ UNCHANGED <<tail, next, producer, cur, nxt, last, fifo>>

capture_tail ==
  /\ cpc = "capture_tail"
  /\ last' = tail /\ tail' = Null
  /\ cpc' = "snapshot"
  /\ UNCHANGED <<head, next, producer, cur, nxt, fifo>>

SnapshotReady == cur = last \/ next[cur] # Null
SnapshotNext == IF cur = last THEN Null ELSE next[cur]

pop_snapshot_head ==
  /\ cpc = "snapshot" /\ SnapshotReady
  /\ nxt' = SnapshotNext
  /\ cpc' = "popped"
  /\ UNCHANGED <<queue, producer, cur, last, fifo>>
-----------------------------------------------------------------------------
Push(p) == push_xchg(p) \/ push_link(p) \/ push_head(p)
Drain == \/ get_head \/ pop_read \/ pop_store \/ pop_cas \/ pop_wait
         \/ undo_wait \/ undo_store \/ capture \/ capture_tail \/ pop_snapshot_head

Next == (\E p \in Producers : push_start(p) \/ Push(p)) \/ Drain \/ take \/ undo_pop

(* Producers and the consumer go on; an item that is put back again and again is
   taken in the end. *)
Fairness == /\ \A p \in Producers : WF_vars(Push(p))
            /\ WF_vars(Drain)
            /\ SF_vars(take)

Spec == Init /\ [][Next]_vars /\ Fairness
-----------------------------------------------------------------------------
(* A producer writes the link of the item it found at the tail after it has let go
   of the list: that item has not been taken, freed or pushed again meanwhile. *)
NoDeadQueueLink == \A p \in Producers : pc[p] = "link" => prev[p] \in {fifo[i] : i \in DOMAIN fifo}

(* The list is a FIFO: what the consumer takes is always the oldest item, nothing is
   lost, taken twice or out of order, and every item is taken. *)
Abs == INSTANCE Fifo WITH list <- fifo
AbsSpec == Abs!Spec
=============================================================================
