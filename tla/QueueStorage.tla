---------------------------- MODULE QueueStorage ----------------------------
(***************************************************************************)
(* The storage of a queue (freeRtos/Source/queue.c): a circular buffer     *)
(* that prvCopyDataToQueue writes and prvCopyDataFromQueue reads.          *)
(*                                                                         *)
(* The pointers are measured in items from pcHead, so pcHead is 0, pcTail  *)
(* is uxLength, and both pointers run from 0 to uxLength - 1.  pcReadFrom  *)
(* points at the item read last: it moves before a read, and after a write *)
(* to the front.  Callers hold a critical section and have checked that    *)
(* there is room, or an item.                                              *)
(***************************************************************************)
EXTENDS Naturals, Sequences

CONSTANTS
    Lengths,        \* the capacities queues are created with
    Values,         \* what an item can be
    None            \* the caller's buffer before any read

ASSUME StorageAssumption == Lengths \subseteq Nat \ {0}

VARIABLES
    uxLength,           \* the capacity, fixed when the queue is created
    storage,            \* the bytes from pcHead to pcTail, by item
    pcWriteTo,          \* where the next item is written to the back
    pcReadFrom,         \* the item that was read last
    uxMessagesWaiting,
    pvBuffer            \* the caller's buffer

storageVars == <<uxLength, storage, pcWriteTo, pcReadFrom, uxMessagesWaiting, pvBuffer>>

(* Storage from the heap holds whatever was there before. *)
StorageInit ==
    /\ uxLength \in Lengths
    /\ storage \in [0..(uxLength - 1) -> Values]
    /\ pcWriteTo = 0
    /\ pcReadFrom = uxLength - 1
    /\ uxMessagesWaiting = 0
    /\ pvBuffer = None

Up(p) == IF p + 1 >= uxLength THEN 0 ELSE p + 1
Down(p) == IF p = 0 THEN uxLength - 1 ELSE p - 1

CopyToBack(v) ==
    /\ uxMessagesWaiting < uxLength
    /\ storage' = [storage EXCEPT ![pcWriteTo] = v]
    /\ pcWriteTo' = Up(pcWriteTo)
    /\ uxMessagesWaiting' = uxMessagesWaiting + 1
    /\ UNCHANGED <<pcReadFrom, pvBuffer>>

CopyToFront(v) ==
    /\ uxMessagesWaiting < uxLength
    /\ storage' = [storage EXCEPT ![pcReadFrom] = v]
    /\ pcReadFrom' = Down(pcReadFrom)
    /\ uxMessagesWaiting' = uxMessagesWaiting + 1
    /\ UNCHANGED <<pcWriteTo, pvBuffer>>

(* queueOVERWRITE goes through the front; the count does not grow twice.   *)
(* The API asserts that the queue has length one.                          *)
Overwrite(v) ==
    /\ uxLength = 1
    /\ storage' = [storage EXCEPT ![pcReadFrom] = v]
    /\ pcReadFrom' = Down(pcReadFrom)
    /\ uxMessagesWaiting' = IF uxMessagesWaiting > 0 THEN uxMessagesWaiting
                            ELSE uxMessagesWaiting + 1
    /\ UNCHANGED <<pcWriteTo, pvBuffer>>

prvCopyDataToQueue(v) == CopyToBack(v) \/ CopyToFront(v) \/ Overwrite(v)

(* Slip: the item is copied before the pointer moves to it. *)
CopyThenMove ==
    /\ pcReadFrom' = Up(pcReadFrom)
    /\ pvBuffer' = storage[pcReadFrom]

prvCopyDataFromQueue ==
    /\ pcReadFrom' = Up(pcReadFrom)
    /\ pvBuffer' = storage[Up(pcReadFrom)]

Receive ==
    /\ uxMessagesWaiting > 0
    /\ prvCopyDataFromQueue
    /\ uxMessagesWaiting' = uxMessagesWaiting - 1
    /\ UNCHANGED <<storage, pcWriteTo>>

(* xQueuePeek puts pcReadFrom back where it was. *)
Peek ==
    /\ uxMessagesWaiting > 0
    /\ pvBuffer' = storage[Up(pcReadFrom)]
    /\ UNCHANGED <<storage, pcWriteTo, pcReadFrom, uxMessagesWaiting>>

(* Slip: the reset forgets the read pointer. *)
ResetKeepsReadFrom ==
    /\ pcWriteTo' = 0
    /\ uxMessagesWaiting' = 0
    /\ UNCHANGED <<storage, pcReadFrom, pvBuffer>>

(* xQueueGenericReset leaves the old items in the storage. *)
Reset ==
    /\ pcWriteTo' = 0
    /\ pcReadFrom' = uxLength - 1
    /\ uxMessagesWaiting' = 0
    /\ UNCHANGED <<storage, pvBuffer>>

StorageNext ==
    /\ UNCHANGED uxLength
    /\ \/ \E v \in Values : prvCopyDataToQueue(v)
       \/ Receive \/ Peek \/ Reset

StorageSpec == StorageInit /\ [][StorageNext]_storageVars

-----------------------------------------------------------------------------
StorageTypeOK ==
    /\ uxLength \in Lengths
    /\ storage \in [0..(uxLength - 1) -> Values]
    /\ pcWriteTo \in 0..(uxLength - 1)
    /\ pcReadFrom \in 0..(uxLength - 1)
    /\ uxMessagesWaiting \in 0..uxLength
    /\ pvBuffer \in Values \cup {None}

(* The slot k places after the last read, for k up to uxLength. *)
Slot(k) == IF pcReadFrom + k < uxLength THEN pcReadFrom + k
           ELSE pcReadFrom + k - uxLength

(* The two pointers and the count agree: the next write to the back goes   *)
(* just behind the newest item (queue.c:2066-2111).                        *)
PointersAgree ==
    pcWriteTo = IF uxMessagesWaiting = uxLength THEN Slot(1)
                ELSE Slot(uxMessagesWaiting + 1)

Contents == [k \in 1..uxMessagesWaiting |-> storage[Slot(k)]]

(* Whatever the order of reads and writes at both ends, the circular       *)
(* buffer behaves as the bounded sequence queue.c's callers expect.        *)
Deque == INSTANCE BoundedDeque WITH contents <- Contents, buffer <- pvBuffer
ImplementsDeque == Deque!Spec
=============================================================================
