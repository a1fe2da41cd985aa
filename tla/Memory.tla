------------------------------- MODULE Memory -------------------------------
(***************************************************************************)
(* What the callers of pvPortMalloc and vPortFree may count on: the heap   *)
(* is its live blocks and nothing else.  What is free is what lies between *)
(* them, so no sequence of calls leaves the heap more fragmented than the  *)
(* live blocks make it, and the counter of free units is exact.            *)
(***************************************************************************)
EXTENDS Integers, FiniteSetsExt

CONSTANTS
    Size,           \* the units between the start of the heap and its end
    Header,         \* the units in front of every block
    Requests        \* the units callers ask for

VARIABLES
    live,           \* the blocks callers own: <<first unit, units>>
    freeUnits       \* what xPortGetFreeHeapSize reports

Covered(u) == \E b \in live : b[1] <= u /\ u < b[1] + b[2]

(* The largest free stretches. *)
Gaps ==
    {g \in (0..(Size - 1)) \X (1..Size) :
        /\ g[1] + g[2] <= Size
        /\ \A u \in g[1]..(g[1] + g[2] - 1) : ~ Covered(u)
        /\ g[1] = 0 \/ Covered(g[1] - 1)
        /\ g[1] + g[2] = Size \/ Covered(g[1] + g[2])}

MemoryInit == live = {} /\ freeUnits = 0

Exact == Size - MapThenSumSet(LAMBDA b : b[2], live)

(* The lowest gap that fits, none for a request of nothing; a remainder    *)
(* too small for a block stays in.                                         *)
Malloc(n) ==
    LET fits == {g \in Gaps : n > 0 /\ g[2] >= n + Header}
        gap == CHOOSE g \in fits : \A h \in fits : g[1] <= h[1]
        units == IF gap[2] - (n + Header) > 2 * Header THEN n + Header ELSE gap[2]
    IN  /\ live' = IF fits = {} THEN live ELSE live \cup {<<gap[1], units>>}
        /\ freeUnits' = Exact'

Free(b) == live' = live \ {b} /\ freeUnits' = Exact'

(* A request that is refused changes nothing. *)
MemoryNext ==
    /\ <<live, freeUnits>>' # <<live, freeUnits>>
    /\ (\E n \in Requests : Malloc(n)) \/ (\E b \in live : Free(b))

MemorySpec == MemoryInit /\ [][MemoryNext]_<<live, freeUnits>>
=============================================================================
