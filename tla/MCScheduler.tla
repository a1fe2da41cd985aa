---------------------------- MODULE MCScheduler -----------------------------
(* Model checking of the scheduler and of the port it runs on: the idle    *)
(* task and two others, and two or three threads.  The scheduler takes the *)
(* port's ticks and switches as single steps, the port takes any ready     *)
(* task for the one the scheduler picks: in a behaviour one of them moves, *)
(* chosen at the start, the other rests.                                   *)
EXTENDS Scheduler, PosixPort

MCTasks == {"idle", "one", "other"}
Peers == [t \in MCTasks |-> IF t = "idle" THEN 0 ELSE 1]
Levels == [t \in MCTasks |-> CASE t = "idle" -> 0
                               [] t = "one" -> 1
                               [] t = "other" -> 2]

Program(ops, priority) == [ops |-> ops, priority |-> priority]

\* A periodic task among others that delay.
Periodic == Program({"delayUntil", "delay", "suspendAll"}, Levels)
\* One whose delays are cut short, so that it runs ahead of its schedule.
CutShort == Program({"delayUntil", "abort", "suspend", "resume"}, Levels)
\* Everything that readies a waiting or a suspended task.
Signalled == Program({"wait", "signal", "suspend", "resume", "resumeISR"}, Levels)
Aborted == Program({"wait", "abort"}, Levels)
\* Priorities that change, of tasks that are delayed, and of suspended ones.
Ranked == Program({"priority", "delay"}, Peers)
RankedAndSuspended == Program({"priority", "suspend", "resume", "suspendAll"}, Peers)

MCPrograms == {Periodic, CutShort, Signalled, Aborted, Ranked, RankedAndSuspended}

Cast(first, all, nesting, creators, deleters, ending) ==
    [first |-> first, all |-> all, nesting |-> nesting,
     creators |-> creators, deleters |-> deleters, ending |-> ending]

\* One that creates a third and all switch, two that nest critical sections, one
\* that may delete the other, and one that ends itself.
MCCasts == {Cast(2, 3, 1, {1}, {}, {}), Cast(2, 2, 2, {}, {}, {}),
            Cast(2, 2, 1, {}, {1}, {}), Cast(2, 2, 1, {}, {}, {1})}

VARIABLE which

MCVars == <<vars, portVars, which>>

MCInit ==
    /\ which \in {"scheduler", "port"}
    /\ Init /\ PortInit
    /\ which # "scheduler" => program = Periodic
    /\ which # "port" => cast = Cast(2, 2, 2, {}, {}, {})

MCNext ==
    /\ UNCHANGED which
    /\ \/ which = "scheduler" /\ Next /\ UNCHANGED portVars
       \/ which = "port" /\ PortNext /\ UNCHANGED vars

MCSpec == MCInit /\ [][MCNext]_MCVars
=============================================================================
