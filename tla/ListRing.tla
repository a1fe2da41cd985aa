------------------------------ MODULE ListRing ------------------------------
(***************************************************************************)
(* What a kernel list promises its callers (tasks.c, queue.c, timers.c,    *)
(* event_groups.c), without pointers: a ring of the list's end marker and  *)
(* its items, written as the sequence in which a round-robin walk will     *)
(* next visit them, so that the node the walk is on is always the last.    *)
(***************************************************************************)
EXTENDS Naturals, Sequences, SequencesExt

CONSTANTS Items, Lists, MaxDelay

VARIABLES
    ring,       \* [Lists -> Seq(Items \cup Lists)]
    value       \* [Items -> 0..MaxDelay]

vars == <<ring, value>>

Free(i) == \A l \in Lists : i \notin Range(ring[l])

(* The items of ring r of list l in list order, the marker first. *)
FromMarker(r, l) ==
    LET m == CHOOSE k \in DOMAIN r : r[k] = l
    IN  SubSeq(r, m, Len(r)) \o SubSeq(r, 1, m - 1)

Rotate(r) == Tail(r) \o <<Head(r)>>

Init ==
    /\ ring = [l \in Lists |-> <<l>>]
    /\ value \in [Items -> 0..MaxDelay]

(* A new item is visited after every other node but the current one. *)
InsertEnd(l, i) ==
    /\ Free(i)
    /\ ring' = [ring EXCEPT ![l] = InsertAt(@, Len(@), i)]
    /\ UNCHANGED value

(* In list order the new item comes after the items with values up to its  *)
(* own that precede the first larger one: first come, first served among   *)
(* equals.                                                                 *)
Insert(l, i) ==
    LET order == FromMarker(ring[l], l)
        larger == {k \in 2..Len(order) : value[order[k]] > value[i]}
        at == IF value[i] = MaxDelay \/ larger = {} THEN Len(order)
              ELSE (CHOOSE k \in larger : \A j \in larger : k <= j) - 1
        pred == CHOOSE k \in DOMAIN ring[l] : ring[l][k] = order[at]
    IN  /\ Free(i)
        /\ ring' = [ring EXCEPT ![l] =
                       IF pred = Len(@) THEN <<i>> \o @
                       ELSE InsertAt(@, pred + 1, i)]
        /\ UNCHANGED value

RemoveItem(i) ==
    /\ \E l \in Lists : i \in Range(ring[l])
    /\ ring' = [l \in Lists |-> SelectSeq(ring[l], LAMBDA n : n # i)]
    /\ UNCHANGED value

NextEntry(l) ==
    /\ Len(ring[l]) > 1
    /\ ring' = [ring EXCEPT ![l] =
                   IF Head(@) = l THEN Rotate(Rotate(@)) ELSE Rotate(@)]
    /\ UNCHANGED value

SetValue(i, v) ==
    /\ value' = [value EXCEPT ![i] = v]
    /\ UNCHANGED ring

Next ==
    \/ \E l \in Lists, i \in Items : InsertEnd(l, i) \/ Insert(l, i)
    \/ \E i \in Items : RemoveItem(i)
    \/ \E l \in Lists : NextEntry(l)
    \/ \E i \in Items, v \in 0..MaxDelay : SetValue(i, v)

Spec == Init /\ [][Next]_vars
=============================================================================
