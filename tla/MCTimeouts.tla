----------------------------- MODULE MCTimeouts -----------------------------
(* A small instance of Timeouts: two cyclic timers, and the TCP timer.     *)
EXTENDS Timeouts

Intervals == [a |-> 2, b |-> 4, tcp |-> 1]
=============================================================================
