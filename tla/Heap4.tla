------------------------------- MODULE Heap4 --------------------------------
(***************************************************************************)
(* The kernel's heap (freeRtos/Source/portable/MemMang/heap_4.c).          *)
(*                                                                         *)
(* Addresses count units of the byte alignment from pucAlignedHeap; sizes  *)
(* are in those units, as the code rounds them.  A header is modelled      *)
(* while it means something: one that was merged away is plain memory.     *)
(* The list is used with the scheduler suspended; vPortFree clears the     *)
(* allocated bit before it suspends the scheduler.                         *)
(***************************************************************************)
EXTENDS Integers, FiniteSetsExt, Functions

CONSTANTS
    HeapUnits,      \* configTOTAL_HEAP_SIZE
    xHeapStructSize,
    WantedSizes     \* the sizes callers ask for

ASSUME HeapAssumption ==
    /\ xHeapStructSize \in Nat \ {0}
    /\ HeapUnits \in Nat /\ HeapUnits > 2 * xHeapStructSize
    /\ WantedSizes \subseteq Nat

heapMINIMUM_BLOCK_SIZE == 2 * xHeapStructSize
pxEnd == HeapUnits - xHeapStructSize
xStart == -1                    \* not in the heap, never next to a block
NoBlock == -2                   \* the null pointer

VARIABLES
    link,           \* the headers: [size, next, taken] by address
    releasing,      \* blocks whose bit is cleared and that are not yet listed
    xFreeBytesRemaining,
    xMinimumEverFreeBytesRemaining

heapVars == <<link, releasing, xFreeBytesRemaining,
              xMinimumEverFreeBytesRemaining>>

Link(next, size, taken) == [next |-> next, size |-> size, taken |-> taken]

HeapInit ==
    /\ link = <<>>              \* pxEnd is NULL before the first call
    /\ releasing = {}
    /\ xFreeBytesRemaining = 0
    /\ xMinimumEverFreeBytesRemaining = 0

Initialised == DOMAIN link # {}

prvHeapInit ==
    [a \in {xStart, 0, pxEnd} |->
        CASE a = xStart -> Link(0, 0, FALSE)
          [] a = 0 -> Link(pxEnd, pxEnd, FALSE)
          [] a = pxEnd -> Link(NoBlock, 0, FALSE)]

(* Where the walk from xStart stops: before the first block behind b. *)
InsertAfter(l, b) ==
    LET walk[p \in DOMAIN l] == IF l[p].next < b THEN walk[l[p].next] ELSE p
    IN  walk[xStart]

(* Slip: merges with the block in front only. *)
InsertMergingFront(l, b) ==
    LET p == InsertAfter(l, b)
    IN  IF p + l[p].size = b
        THEN Restrict([l EXCEPT ![p].size = @ + l[b].size], DOMAIN l \ {b})
        ELSE [l EXCEPT ![b].next = l[p].next, ![p].next = b]

(* Merges block b with the free block in front of it and the one behind.   *)
prvInsertBlockIntoFreeList(l, b) ==
    LET p == InsertAfter(l, b)
        n == l[p].next
        front == p + l[p].size = b
        at == IF front THEN p ELSE b
        size == IF front THEN l[p].size + l[b].size ELSE l[b].size
        back == at + size = n /\ n # pxEnd
        joined == [l EXCEPT ![p].next = IF front THEN @ ELSE b,
                            ![at].size = IF back THEN size + l[n].size ELSE size,
                            ![at].next = IF back THEN l[n].next ELSE n]
    IN  Restrict(joined, DOMAIN l \ ((IF front THEN {b} ELSE {})
                                     \cup (IF back THEN {n} ELSE {})))

(* The block in front of the first one that is large enough, or of pxEnd. *)
FirstFit(l, n) ==
    LET walk[p \in DOMAIN l] ==
            LET q == l[p].next
            IN  IF l[q].size < n /\ l[q].next # NoBlock THEN walk[q] ELSE p
    IN  walk[xStart]

Split(l, b, n) ==
    prvInsertBlockIntoFreeList(
        [a \in DOMAIN l \cup {b + n} |->
            CASE a = b -> [l[b] EXCEPT !.size = n]
              [] a = b + n -> Link(NoBlock, l[b].size - n, FALSE)
              [] OTHER -> l[a]], b + n)

(* What is larger than wanted by more than the minimum is split off. *)
SplitOff(l, b, n) ==
    IF l[b].size - n > heapMINIMUM_BLOCK_SIZE THEN Split(l, b, n) ELSE l

pvPortMalloc(xWantedSize) ==
    LET first == ~ Initialised
        l == IF first THEN prvHeapInit ELSE link
        free == IF first THEN pxEnd ELSE xFreeBytesRemaining
        least == IF first THEN pxEnd ELSE xMinimumEverFreeBytesRemaining
        n == IF xWantedSize > 0 THEN xWantedSize + xHeapStructSize ELSE 0
        p == FirstFit(l, n)
        b == l[p].next
        split == SplitOff([l EXCEPT ![p].next = l[b].next], b, n)
        left == free - split[b].size
    IN  IF n > 0 /\ n <= free /\ b # pxEnd
        THEN /\ link' = [split EXCEPT ![b].taken = TRUE, ![b].next = NoBlock]
             /\ xFreeBytesRemaining' = left
             /\ xMinimumEverFreeBytesRemaining' = IF left < least THEN left ELSE least
             /\ UNCHANGED releasing
        ELSE /\ link' = l
             /\ xFreeBytesRemaining' = free
             /\ xMinimumEverFreeBytesRemaining' = least
             /\ UNCHANGED releasing

(* vPortFree up to the suspension of the scheduler.  A block that is not   *)
(* allocated fails a configASSERT: callers free what they own.             *)
vPortFree(b) ==
    /\ link[b].taken
    /\ link' = [link EXCEPT ![b].taken = FALSE]
    /\ releasing' = releasing \cup {b}
    /\ UNCHANGED <<xFreeBytesRemaining, xMinimumEverFreeBytesRemaining>>

vPortFreeEnds(b) ==
    /\ xFreeBytesRemaining' = xFreeBytesRemaining + link[b].size
    /\ link' = prvInsertBlockIntoFreeList(link, b)
    /\ releasing' = releasing \ {b}
    /\ UNCHANGED xMinimumEverFreeBytesRemaining

HeapNext ==
    \/ \E n \in WantedSizes : pvPortMalloc(n)
    \/ \E b \in DOMAIN link : vPortFree(b)
    \/ \E b \in releasing : vPortFreeEnds(b)

HeapSpec == HeapInit /\ [][HeapNext]_heapVars

-----------------------------------------------------------------------------
HeapTypeOK ==
    /\ DOMAIN link \subseteq -1..pxEnd
    /\ \A a \in DOMAIN link :
          link[a] \in [next : {NoBlock} \cup 0..pxEnd, size : 0..pxEnd,
                       taken : BOOLEAN]
    /\ releasing \subseteq DOMAIN link
    /\ xFreeBytesRemaining \in 0..pxEnd
    /\ xMinimumEverFreeBytesRemaining \in 0..xFreeBytesRemaining

Owned == {b \in DOMAIN link : link[b].taken \/ b \in releasing}

(* Whatever the order of allocations and releases, and whatever happens    *)
(* between the two halves of a release, blocks never overlap, free         *)
(* neighbours are always joined and the free counter is exact: the heap    *)
(* behaves as its live blocks alone (heap_4.c:376-436).                    *)
Blocks == INSTANCE Memory WITH
              Size <- pxEnd,
              Header <- xHeapStructSize,
              Requests <- WantedSizes,
              live <- {<<b, link[b].size>> : b \in Owned},
              freeUnits <- xFreeBytesRemaining
ImplementsMemory == Blocks!MemorySpec
=============================================================================
