------------------------------ MODULE MCSignals ------------------------------
(* Model checking of the ways two sides tell each other something besides  *)
(* queues: the timers, task notifications and event groups of the kernel,  *)
(* and a TCP connection.  They share no state; in a behaviour one of them  *)
(* moves, chosen at the start, the others rest.                            *)
EXTENDS MCTimers, Notify, EventGroup, Tcp, TLC

(* A connection that may be closed at any time and one whose SYN arrives   *)
(* again when it is over, one whose window fills up before the reader      *)
(* takes anything, and one whose segments overlap and overtake each other. *)
MCConnections ==
    LET Connection(n, hasty, flight, faultsAllowed, listens) ==
            [units |-> [client |-> n, server |-> 0], hasty |-> hasty, flight |-> flight,
             faults |-> faultsAllowed, opens |-> listens]
    IN  {Connection(1, TRUE, 2, 1, 1), Connection(1, TRUE, 1, 2, 2),
         Connection(5, FALSE, 1, 1, 1), Connection(2, FALSE, 2, 0, 1)}

VARIABLE which

signalsVars == <<timerVars, notifyVars, groupVars, tcpVars, which>>

Signals == {"timers", "notification", "event group", "TCP"}

SignalsInit ==
    /\ which \in Signals
    /\ TimersInit /\ NotifyInit /\ GroupInit /\ TcpInit
    /\ which # "timers" => program = Periodic /\ xTimerQueue = <<>>
    /\ which # "TCP" => connection.units["client"] = 5

SignalsNext ==
    /\ UNCHANGED which
    /\ \/ which = "timers" /\ TimersNext
          /\ UNCHANGED <<notifyVars, groupVars, tcpVars>>
       \/ which = "notification" /\ NotifyNext
          /\ UNCHANGED <<timerVars, groupVars, tcpVars>>
       \/ which = "event group" /\ GroupNext
          /\ UNCHANGED <<timerVars, notifyVars, tcpVars>>
       \/ which = "TCP" /\ TcpNext
          /\ UNCHANGED <<timerVars, notifyVars, groupVars>>

SignalsSpec == SignalsInit /\ [][SignalsNext]_signalsVars

(* The tasks of a kind, and the flags, of the event group are alike. *)
Symmetry ==
    Permutations(SyncTasks) \cup Permutations(WaitTasks) \cup Permutations(FlagBits)
=============================================================================
