--------------------------------- MODULE Fifo ---------------------------------
(***************************************************************************)
(* What the lock-free lists of libdispatch promise: a first-in first-out   *)
(* list to which items are appended, alone or as a chain, and from which   *)
(* they are taken one by one, at the front only, until none is left.       *)
(***************************************************************************)
EXTENDS Sequences, Integers

CONSTANTS Node      \* the items

VARIABLE list       \* the items that were pushed and not taken

\* A chain of items, none of which is in the list.
Chains == {s \in UNION {[1..n -> Node] : n \in 1..2} :
             /\ \A i, j \in DOMAIN s : s[i] = s[j] => i = j
             /\ \A i \in DOMAIN s, j \in DOMAIN list : s[i] # list[j]}

Init == list = <<>>
Push == \E s \in Chains : list' = list \o s
Take == list # <<>> /\ list' = Tail(list)

Next == Push \/ Take
Spec == Init /\ [][Next]_list /\ WF_list(Take)
=============================================================================
