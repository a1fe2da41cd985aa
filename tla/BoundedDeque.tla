---------------------------- MODULE BoundedDeque ----------------------------
(***************************************************************************)
(* What a queue's storage promises: a bounded sequence of items, written   *)
(* at the back (xQueueSendToBack), at the front (xQueueSendToFront) or     *)
(* over the only item (xQueueOverwrite), and read from the front.          *)
(***************************************************************************)
EXTENDS Naturals, Sequences

CONSTANTS Lengths, Values, None

VARIABLES
    uxLength,       \* the capacity
    contents,       \* the items, oldest first
    buffer          \* what the last reader got

vars == <<uxLength, contents, buffer>>

Init == uxLength \in Lengths /\ contents = <<>> /\ buffer = None

SendToBack(v) ==
    /\ Len(contents) < uxLength
    /\ contents' = Append(contents, v)
    /\ UNCHANGED buffer

SendToFront(v) ==
    /\ Len(contents) < uxLength
    /\ contents' = <<v>> \o contents
    /\ UNCHANGED buffer

Overwrite(v) ==
    /\ uxLength = 1
    /\ contents' = <<v>>
    /\ UNCHANGED buffer

Receive ==
    /\ contents # <<>>
    /\ buffer' = Head(contents)
    /\ contents' = Tail(contents)

Peek ==
    /\ contents # <<>>
    /\ buffer' = Head(contents)
    /\ UNCHANGED contents

Reset == contents' = <<>> /\ UNCHANGED buffer

Next ==
    /\ UNCHANGED uxLength
    /\ \/ \E v \in Values : SendToBack(v) \/ SendToFront(v) \/ Overwrite(v)
       \/ Receive \/ Peek \/ Reset

Spec == Init /\ [][Next]_vars
=============================================================================
