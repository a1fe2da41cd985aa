------------------------------ MODULE MCTimers ------------------------------
(* Small instances of Timers: two timers and a counter that wraps soon.     *)
EXTENDS Timers

CONSTANTS timer1, timer2

Periods(x, y) == [t \in Timers |-> IF t = timer1 THEN x ELSE y]
Program(autoReload, period, calls, periods) ==
    [autoReload |-> autoReload, period |-> period, calls |-> calls, periods |-> periods]

\* Two periodic timers, the shorter of which soon falls behind.
Periodic == Program({timer1, timer2}, Periods(1, 3), {"start", "stop"}, {})
\* A periodic and a one-shot timer, and periods that change.
Changing == Program({timer1}, Periods(2, 3), {"period", "function"}, {1})
\* One-shot timers that are deleted and created again.
Deleted == Program({}, Periods(2, 3), {"start", "delete"}, {})

MCPrograms == {Periodic, Changing, Deleted}
PeriodicPrograms == {Periodic}
=============================================================================
