----------------------------- MODULE EventList ------------------------------
(* What the operations on the kernel's lists (freeRtos/Source/list.c) do to *)
(* the order of the items: a list is the sequence of its items from the     *)
(* first to the last, as List shows the linked rings to be.                 *)
EXTENDS Integers, Sequences, FiniteSets, SequencesExt

(* vListInsert: in front of the first item that belongs behind the new one. *)
InsertBefore(q, e, behind) ==
    LET places == {k \in DOMAIN q : q[k] \in behind}
        at == IF places = {} THEN Len(q) + 1
              ELSE CHOOSE k \in places : \A j \in places : k <= j
    IN  InsertAt(q, at, e)

(* uxListRemove, for each item in S: the others keep their order.           *)
Without(q, S) ==
    LET stay == {k \in DOMAIN q : q[k] \notin S}
        rank(k) == Cardinality({j \in stay : j <= k})
    IN  [n \in 1..Cardinality(stay) |-> q[CHOOSE k \in stay : rank(k) = n]]
=============================================================================
