-------------------------------- MODULE List --------------------------------
(***************************************************************************)
(* The kernel's doubly linked lists, pointer by pointer                    *)
(* (freeRtos/Source/list.c and the access macros of include/list.h).       *)
(*                                                                         *)
(* A node is a list item or the end marker xListEnd embedded in a list; a  *)
(* list stands for its own end marker, as the C code does when it casts    *)
(* &( pxList->xListEnd ) to a ListItem_t pointer.  Every operation of      *)
(* list.c runs with interrupts disabled or with the scheduler suspended,   *)
(* so each one is a single action.                                         *)
(***************************************************************************)
EXTENDS Naturals, FiniteSets

CONSTANTS
    Items,      \* the ListItem_t objects
    Lists,      \* the List_t objects, each standing for its own xListEnd
    MaxDelay,   \* portMAX_DELAY, the value of every end marker
    NULL        \* the C null pointer

ASSUME ItemsAssumption == IsFiniteSet(Items)
ASSUME MaxDelayAssumption == MaxDelay \in Nat
ASSUME NodesAssumption ==
    Items \cap Lists = {} /\ NULL \notin Items \cup Lists

Nodes == Items \cup Lists

VARIABLES
    pxNext,             \* [Nodes -> Nodes or NULL]
    pxPrevious,         \* [Nodes -> Nodes or NULL]
    xItemValue,         \* [Nodes -> 0..MaxDelay], what a list is sorted by
    pvContainer,        \* [Items -> Lists or NULL]
    pxIndex,            \* [Lists -> Nodes], where the round-robin walk is
    uxNumberOfItems     \* [Lists -> Nat]

(* The nodes of list l: its marker and the items whose container it is. *)
Linked(l) == {l} \cup {i \in Items : pvContainer[i] = l}

vars == <<pxNext, pxPrevious, xItemValue, pvContainer, pxIndex,
          uxNumberOfItems>>

(* vListInitialise on every list, vListInitialiseItem on every item. *)
Init ==
    /\ pxNext = [n \in Nodes |-> IF n \in Lists THEN n ELSE NULL]
    /\ pxPrevious = pxNext
    /\ xItemValue \in [Nodes -> 0..MaxDelay]
    /\ \A l \in Lists : xItemValue[l] = MaxDelay
    /\ pvContainer = [i \in Items |-> NULL]
    /\ pxIndex = [l \in Lists |-> l]
    /\ uxNumberOfItems = [l \in Lists |-> 0]

(* The four pointer assignments that put item i between node n and n's     *)
(* successor, and the bookkeeping both insertions end with.                *)
LinkAfter(n, i, l) ==
    /\ pxNext' = [pxNext EXCEPT ![i] = pxNext[n], ![n] = i]
    /\ pxPrevious' = [pxPrevious EXCEPT ![i] = n, ![pxNext[n]] = i]
    /\ pvContainer' = [pvContainer EXCEPT ![i] = l]
    /\ uxNumberOfItems' = [uxNumberOfItems EXCEPT ![l] = @ + 1]

(* Slip: the new item goes just after pxIndex and jumps the whole queue. *)
InsertEndAfterIndex(l, i) ==
    /\ pvContainer[i] = NULL
    /\ LinkAfter(pxIndex[l], i, l)
    /\ UNCHANGED <<xItemValue, pxIndex>>

(* The item goes just before pxIndex: it is the last that repeated calls   *)
(* of listGET_OWNER_OF_NEXT_ENTRY reach.                                   *)
vListInsertEnd(l, i) ==
    /\ pvContainer[i] = NULL
    /\ LinkAfter(pxPrevious[pxIndex[l]], i, l)
    /\ UNCHANGED <<xItemValue, pxIndex>>

(* Slip: a strict comparison, so equal values are served last come first. *)
InsertionPointStrict(l, v) ==
    LET walk[n \in Nodes] ==
            IF xItemValue[pxNext[n]] < v THEN walk[pxNext[n]] ELSE n
    IN  IF v = MaxDelay THEN pxPrevious[l] ELSE walk[l]

(* Where the for loop of vListInsert stops when it starts at node n: the   *)
(* first node whose successor holds a larger value.  The walk visits at    *)
(* most every node once because the marker holds MaxDelay.                 *)
InsertionPoint(l, v) ==
    LET walk[n \in Nodes] ==
            IF xItemValue[pxNext[n]] <= v THEN walk[pxNext[n]] ELSE n
    IN  IF v = MaxDelay THEN pxPrevious[l] ELSE walk[l]

vListInsert(l, i) ==
    /\ pvContainer[i] = NULL
    /\ \E n \in Linked(l) :
          n = InsertionPoint(l, xItemValue[i]) /\ LinkAfter(n, i, l)
    /\ UNCHANGED <<xItemValue, pxIndex>>

(* Slip: the walk index is left on the removed item. *)
RemoveKeepsIndex(i) ==
    LET l == pvContainer[i] IN
    /\ l # NULL
    /\ pxNext' = [pxNext EXCEPT ![pxPrevious[i]] = pxNext[i]]
    /\ pxPrevious' = [pxPrevious EXCEPT ![pxNext[i]] = pxPrevious[i]]
    /\ pvContainer' = [pvContainer EXCEPT ![i] = NULL]
    /\ uxNumberOfItems' = [uxNumberOfItems EXCEPT ![l] = @ - 1]
    /\ UNCHANGED <<xItemValue, pxIndex>>

(* The removed item keeps its stale pxNext and pxPrevious. *)
uxListRemove(i) ==
    LET l == pvContainer[i] IN
    /\ l # NULL
    /\ pxNext' = [pxNext EXCEPT ![pxPrevious[i]] = pxNext[i]]
    /\ pxPrevious' = [pxPrevious EXCEPT ![pxNext[i]] = pxPrevious[i]]
    /\ pxIndex' = [pxIndex EXCEPT ![l] = IF @ = i THEN pxPrevious[i] ELSE @]
    /\ pvContainer' = [pvContainer EXCEPT ![i] = NULL]
    /\ uxNumberOfItems' = [uxNumberOfItems EXCEPT ![l] = @ - 1]
    /\ UNCHANGED xItemValue

(* listGET_OWNER_OF_NEXT_ENTRY: advance pxIndex, stepping over the marker. *)
NextEntry(l) ==
    LET n == pxNext[pxIndex[l]] IN IF n = l THEN pxNext[l] ELSE n

listGET_OWNER_OF_NEXT_ENTRY(l) ==
    /\ uxNumberOfItems[l] > 0
    /\ pxIndex' = [pxIndex EXCEPT ![l] = NextEntry(l)]
    /\ UNCHANGED <<pxNext, pxPrevious, xItemValue, pvContainer,
                   uxNumberOfItems>>

(* listSET_LIST_ITEM_VALUE.  tasks.c also writes the value of an item that *)
(* is in an event list, without moving it.                                 *)
listSET_LIST_ITEM_VALUE(i, v) ==
    /\ xItemValue' = [xItemValue EXCEPT ![i] = v]
    /\ UNCHANGED <<pxNext, pxPrevious, pvContainer, pxIndex, uxNumberOfItems>>

Next ==
    \/ \E l \in Lists, i \in Items : vListInsertEnd(l, i) \/ vListInsert(l, i)
    \/ \E i \in Items : uxListRemove(i)
    \/ \E l \in Lists : listGET_OWNER_OF_NEXT_ENTRY(l)
    \/ \E i \in Items, v \in 0..MaxDelay : listSET_LIST_ITEM_VALUE(i, v)

Spec == Init /\ [][Next]_vars

-----------------------------------------------------------------------------
TypeOK ==
    /\ pxNext \in [Nodes -> Nodes \cup {NULL}]
    /\ pxPrevious \in [Nodes -> Nodes \cup {NULL}]
    /\ xItemValue \in [Nodes -> 0..MaxDelay]
    /\ pvContainer \in [Items -> Lists \cup {NULL}]
    /\ pxIndex \in [Lists -> Nodes]
    /\ uxNumberOfItems \in [Lists -> Nat]

(* The two pointer chains of a list mirror each other and stay inside it,  *)
(* and the walk index is one of its nodes.  Violated if an insertion or a  *)
(* removal misses one of its pointer writes, or if uxListRemove leaves     *)
(* pxIndex on the removed item (list.c:183).                               *)
WellLinked ==
    \A l \in Lists :
        /\ pxIndex[l] \in Linked(l)
        /\ xItemValue[l] = MaxDelay
        /\ \A n \in Linked(l) :
               /\ pxNext[n] \in Linked(l) /\ pxPrevious[pxNext[n]] = n
               /\ pxPrevious[n] \in Linked(l) /\ pxNext[pxPrevious[n]] = n

(* uxNumberOfItems, which uxListRemove returns and tasks.c trusts to clear *)
(* a ready-priority bit or to find a list empty, is the number of items    *)
(* whose container is the list.                                            *)
CountIsRight ==
    \A l \in Lists :
        uxNumberOfItems[l] = Cardinality({i \in Items : pvContainer[i] = l})
=============================================================================
