------------------------------- MODULE MCLive -------------------------------
(* Liveness of the two ways a task of the kernel sleeps, in Queue and in   *)
(* Scheduler, and of the DHCP client.  They share no state here: in a      *)
(* behaviour one of them moves, and the fairness assumed is that of the    *)
(* one that moves.                                                         *)
EXTENDS MCQueue, Dhcp

(* Leases that renew, that end at once, and that never end. *)
SomeLeases == {[t0 |-> 4, t1 |-> 2, t2 |-> 3], [t0 |-> 2, t1 |-> 1, t2 |-> 2],
               [t0 |-> 1, t1 |-> 1, t2 |-> 1], NoLease}

CONSTANT End        \* the end marker of a ready list

VARIABLES
    which,          \* the module that moves
    \* The variables of Scheduler, those that Queue has too in lower case.
    application, position, arg, subject, pended, pendingReady,
    xTickCount, xNextTaskUnblockTime, uxSchedulerSuspended, xYieldPending,
    pxCurrentTCB, uxPriority, uxTopReadyPriority, pxReadyTasksLists,
    pxDelayedTaskList, pxOverflowDelayedTaskList, xItemValue, xSuspendedTaskList,
    xEventList, pxPreviousWakeTime, due, lag, excused

\* Two tasks of one priority that delay, and share the processor by time slices.
DelayingPrograms ==
    {[ops |-> {"delay", "yield", "suspendAll"},
      priority |-> [t \in {"idle", "one", "other"} |-> IF t = "idle" THEN 0 ELSE 1]]}

S == INSTANCE Scheduler WITH
        Tasks <- {"idle", "one", "other"}, Idle <- "idle", TopPriority <- 2,
        Programs <- DelayingPrograms, Delays <- {1, 3}, Increment <- 2, TickMod <- 4,
        MaxPended <- 2, MaxNesting <- 1,
        program <- application, pc <- position, target <- subject,
        uxPendedTicks <- pended, xPendingReadyList <- pendingReady

schedulerVars ==
    <<application, position, arg, subject, pended, pendingReady, xTickCount,
      xNextTaskUnblockTime, uxSchedulerSuspended, xYieldPending, pxCurrentTCB,
      uxPriority, uxTopReadyPriority, pxReadyTasksLists, pxDelayedTaskList,
      pxOverflowDelayedTaskList, xItemValue, xSuspendedTaskList, xEventList,
      pxPreviousWakeTime, due, lag, excused>>
liveVars == <<which, vars, schedulerVars, dhcpVars>>

LiveInit ==
    /\ which \in {"queue", "scheduler", "DHCP"}
    /\ Init
    /\ S!Init
    /\ IF which = "DHCP" THEN DhcpInit
       ELSE dhcp = NoClient /\ lease_left = Unlimited /\ silent = FALSE
    /\ which # "scheduler" => pxCurrentTCB = "one"

LiveNext ==
    /\ UNCHANGED which
    /\ \/ which = "queue" /\ Next /\ UNCHANGED <<schedulerVars, dhcpVars>>
       \/ which = "scheduler" /\ S!Next /\ UNCHANGED <<vars, dhcpVars>>
       \/ which = "DHCP" /\ DhcpNext /\ UNCHANGED <<vars, schedulerVars>>

(* Tasks of equal priority share the processor by time slices; a tick that *)
(* comes while the scheduler is suspended slices when it resumes.  So a    *)
(* task that can run again and again does run, and ticks keep being        *)
(* counted.                                                                *)
QueueFairness ==
    /\ \A t \in Tasks : SF_vars(which = "queue" /\ TaskStep(t))
    /\ SF_vars(which = "queue" /\ suspender = Nobody /\ Tick)

LiveSpec ==
    /\ LiveInit /\ [][LiveNext]_liveVars
    /\ QueueFairness
    /\ which = "scheduler" => S!Fairness
    /\ DhcpFairness        \* of a client that is off: nothing

-----------------------------------------------------------------------------
(* Tasks of equal priority take turns (S!PeersTakeTurns).                  *)
PeersTakeTurns == which = "scheduler" => S!PeersTakeTurns

(* A delayed task becomes ready again (S!DelaysEnd).                       *)
DelaysEnd == which = "scheduler" => S!DelaysEnd
=============================================================================
