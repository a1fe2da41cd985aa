----------------------------- MODULE MCObjects ------------------------------
(* Model checking of the kernel objects that share no state: lists, queue  *)
(* storage and the heap, each with the abstract object it implements.  In  *)
(* a behaviour one of them moves, chosen at the start; the others rest in  *)
(* an initial state.                                                       *)
EXTENDS List, QueueStorage, Heap4

VARIABLE which      \* the object that moves

objectVars == <<vars, storageVars, heapVars, which>>

Objects == {"lists", "storage", "heap"}

ObjectsInit ==
    /\ which \in Objects
    /\ Init /\ StorageInit /\ HeapInit
    /\ which # "lists" => \A n \in Nodes : xItemValue[n] = MaxDelay
    /\ which # "storage" => /\ \A n \in Lengths : uxLength <= n
                            /\ \A p \in DOMAIN storage : storage[p] = CHOOSE v \in Values : TRUE

ObjectsNext ==
    /\ UNCHANGED which
    /\ \/ which = "lists" /\ Next
          /\ UNCHANGED <<storageVars, heapVars>>
       \/ which = "storage" /\ StorageNext
          /\ UNCHANGED <<vars, heapVars>>
       \/ which = "heap" /\ HeapNext
          /\ UNCHANGED <<vars, storageVars>>

ObjectsSpec == ObjectsInit /\ [][ObjectsNext]_objectVars

-----------------------------------------------------------------------------
(* The nodes of l in the order the round-robin walk will visit them. *)
Visits(l) ==
    LET n == uxNumberOfItems[l] + 1
        walk[k \in 0..n] == IF k = 0 THEN pxIndex[l] ELSE pxNext[walk[k - 1]]
    IN  [k \in 1..n |-> walk[k]]

(* The pointer implementation behaves as the ring of nodes its callers     *)
(* reason about: insertion position, removal under the walk index, order   *)
(* among equal values and the step over the marker included (list.c).      *)
Ring == INSTANCE ListRing WITH
            ring <- [l \in Lists |-> Visits(l)],
            value <- [i \in Items |-> xItemValue[i]]

ImplementsRing == Ring!Spec

(* A ready task's turn never slips: whatever is removed or appended        *)
(* (vListInsertEnd), the number of nodes the walk visits before it reaches *)
(* an item does not grow, except for the item it stands on.  This is what  *)
(* time slicing of equal priorities rests on (tasks.c:162).                *)
Position(l, i) == CHOOSE k \in DOMAIN Visits(l) : Visits(l)[k] = i

TurnNeverSlips ==
    [][\A l \in Lists, i \in Items :
          (/\ pvContainer[i] = l /\ pvContainer'[i] = l
           /\ pxIndex[l] # i
           /\ ~ \E j \in Items : vListInsert(l, j))
          => \/ pxIndex'[l] = i
             \/ Position(l, i)' <= Position(l, i)]_vars
=============================================================================
