----------------------------- MODULE Scheduler ------------------------------
(***************************************************************************)
(* The scheduler (freeRtos/Source/tasks.c): the ready lists and the round  *)
(* robin among equal priorities, the two delayed lists and the wrap of the *)
(* tick counter, suspension of the scheduler with pended ticks and the     *)
(* pending-ready list, and the calls that move a task between the lists.   *)
(*                                                                         *)
(* One step is a critical section, or a stretch run with the scheduler     *)
(* suspended.  Only pxCurrentTCB takes task steps; the tick and the        *)
(* interrupt handlers come between any two of them.  A yield is part of    *)
(* the step that asks for it, as in the port's vPortYield, and an          *)
(* interrupt handler asks for the switch that the call it made returns.    *)
(* Mutexes are left out, so a task's priority is its base priority and its *)
(* event list item always holds it.                                        *)
(***************************************************************************)
EXTENDS EventList

CONSTANTS
    Tasks, Idle,    \* the tasks, the idle task among them
    TopPriority,    \* configMAX_PRIORITIES - 1
    Programs,       \* what the application may be: the calls its tasks make
                    \* and the priorities they are created with
    Delays,         \* the values of xTicksToWait they pass
    Increment,      \* the xTimeIncrement they pass to vTaskDelayUntil
    TickMod,        \* 2^w for a tick counter of w bits
    End,            \* the end marker of a ready list
    MaxPended,      \* bound: ticks pended during one suspension
    MaxNesting      \* bound: nested calls of vTaskSuspendAll

portMAX_DELAY == TickMod - 1

AllOps == {"delay", "delayUntil", "yield", "suspendAll", "wait", "signal",
           "abort", "suspend", "resume", "resumeISR", "priority"}

ASSUME TicksAssumption == TickMod \in Nat /\ TickMod > 1
ASSUME DelaysAssumption == Delays \subseteq 1..portMAX_DELAY
ASSUME IncrementAssumption == Increment \in 1..portMAX_DELAY
ASSUME TasksAssumption == IsFiniteSet(Tasks) /\ Idle \in Tasks /\ End \notin Tasks
ASSUME PriorityAssumption ==
    /\ TopPriority \in Nat
    /\ Programs \subseteq [ops : SUBSET AllOps,
                           priority : [Tasks -> 0..TopPriority]]
    /\ \A p \in Programs : p.priority[Idle] = 0
ASSUME BoundsAssumption == MaxPended \in Nat /\ MaxNesting \in Nat \ {0}

VARIABLES
    program,                \* the program that runs; it never changes
    xTickCount, xNextTaskUnblockTime,
    uxPendedTicks,          \* ticks to count when the scheduler resumes
    uxSchedulerSuspended,   \* how often vTaskSuspendAll is nested
    xYieldPending,
    pxCurrentTCB,
    uxPriority,
    uxTopReadyPriority,     \* no ready task has a higher one
    pxReadyTasksLists,      \* per priority a ring of tasks and End, in the
                            \* order of the round robin; pxIndex is the last
    pxDelayedTaskList, pxOverflowDelayedTaskList,
    xItemValue,             \* the wake time in the state list item
    xSuspendedTaskList,
    xPendingReadyList,      \* readied while the scheduler was suspended
    xEventList,             \* the tasks that wait for one event
    pc, arg, target,        \* where each task is in a call; its arguments
    pxPreviousWakeTime,     \* the variable passed to vTaskDelayUntil
    due,                    \* ghost: counted ticks until the delay is over
    lag,                    \* ghost: counted ticks since pxPreviousWakeTime
    excused                 \* ghost: tasks whose delay was cut short, until
                            \* they have caught up with their schedule

timeVars == <<xTickCount, xNextTaskUnblockTime, uxPendedTicks>>
switchVars == <<pxCurrentTCB, uxTopReadyPriority, pxReadyTasksLists,
                xYieldPending>>
waitVars == <<pxDelayedTaskList, pxOverflowDelayedTaskList,
              xSuspendedTaskList, xItemValue, due>>
eventVars == <<xPendingReadyList, xEventList>>
callVars == <<pc, arg, target>>
periodVars == <<pxPreviousWakeTime, lag, excused>>
vars == <<program, timeVars, uxSchedulerSuspended, switchVars, uxPriority, waitVars,
          eventVars, callVars, periodVars>>

-----------------------------------------------------------------------------
(* The rings (list.c): new items go in front of pxIndex, one after another, *)
(* the turn passes to the next item, and a removed item hands pxIndex to    *)
(* the one before it.                                                       *)
InsertEnd(r, q) == Front(r) \o q \o <<Last(r)>>

Rotated(r) == Tail(r) \o <<Head(r)>>

(* Slip: the turn goes to the head of the list, not to the next item. *)
HeadEntry(r) ==
    LET end == CHOOSE k \in DOMAIN r : r[k] = End
        head == (end % Len(r)) + 1
    IN  SubSeq(r, head + 1, Len(r)) \o SubSeq(r, 1, head)

NextEntry(r) == IF Head(r) = End THEN Rotated(Rotated(r)) ELSE Rotated(r)

(* The ready lists when the tasks of q become ready in that order.          *)
AddReady(lists, prio, q) ==
    [p \in 0..TopPriority |->
        InsertEnd(lists[p], Without(q, {t \in Tasks : prio[t] # p}))]

RemoveReady(lists, t) == [p \in 0..TopPriority |-> Without(lists[p], {t})]

(* Slip: a task of a higher priority does not raise the bound. *)
RecordNothing(top, prio, q) == top

(* prvAddTaskToReadyList keeps uxTopReadyPriority an upper bound.           *)
RecordReady(top, prio, q) ==
    LET seen == {top} \cup {prio[t] : t \in Range(q)}
    IN  CHOOSE p \in seen : \A s \in seen : s <= p

(* taskSELECT_HIGHEST_PRIORITY_TASK counts down from uxTopReadyPriority.    *)
HighestReady(lists, top) ==
    CHOOSE p \in 0..top : /\ lists[p] # <<End>>
                          /\ \A s \in (p + 1)..top : lists[s] = <<End>>

(* The ready lists become "lists" and, if a yield is asked for, the next    *)
(* task is switched in; with the scheduler suspended by then, the yield is  *)
(* left pending (vTaskSwitchContext).                                       *)
Dispatch(lists, top, yield, suspended) ==
    IF yield /\ suspended = 0
    THEN LET p == HighestReady(lists, top)
             r == NextEntry(lists[p])
         IN  /\ pxReadyTasksLists' = [lists EXCEPT ![p] = r]
             /\ pxCurrentTCB' = Last(r)
             /\ uxTopReadyPriority' = p
             /\ xYieldPending' = FALSE
    ELSE /\ pxReadyTasksLists' = lists
         /\ uxTopReadyPriority' = top
         /\ xYieldPending' = (xYieldPending \/ yield)
         /\ UNCHANGED pxCurrentTCB

(* vListInsert into a delayed list: behind the tasks due earlier or at the  *)
(* same time.                                                               *)
InsertByTime(q, t, time) ==
    InsertBefore(q, t, {u \in Tasks : xItemValue[u] > time})

(* vListInsert into an event list, whose item values fall with priority.    *)
InsertByPriority(q, t) ==
    InsertBefore(q, t, {u \in Tasks : uxPriority[u] < uxPriority[t]})

HeadTime(q) == IF q = <<>> THEN portMAX_DELAY ELSE xItemValue[Head(q)]

Delayed == Range(pxDelayedTaskList) \cup Range(pxOverflowDelayedTaskList)

-----------------------------------------------------------------------------
(* The tasks have been created, and vTaskStartScheduler has run: the task   *)
(* created last among those of the highest priority runs first.             *)
Init ==
    /\ xTickCount = 0 /\ xNextTaskUnblockTime = portMAX_DELAY
    /\ uxPendedTicks = 0 /\ uxSchedulerSuspended = 0
    /\ xYieldPending = FALSE
    /\ program \in Programs
    /\ uxPriority = program.priority
    /\ \E created \in SetToSeqs(Tasks) :
        /\ pxReadyTasksLists =
              [p \in 0..TopPriority |->
                  Without(created, {t \in Tasks : uxPriority[t] # p}) \o <<End>>]
    /\ LET p == HighestReady(pxReadyTasksLists, TopPriority)
       IN  /\ uxTopReadyPriority = p
           /\ pxCurrentTCB = Last(Front(pxReadyTasksLists[p]))
    /\ pxDelayedTaskList = <<>> /\ pxOverflowDelayedTaskList = <<>>
    /\ xItemValue = [t \in Tasks |-> 0]
    /\ xSuspendedTaskList = {}
    /\ xPendingReadyList = <<>> /\ xEventList = <<>>
    /\ pc = [t \in Tasks |-> "run"] /\ arg = 0 /\ target = Idle
    /\ pxPreviousWakeTime = [t \in Tasks |-> 0]
    /\ due = [t \in Tasks |-> 0]
    /\ lag = [t \in Tasks |-> 0]
    /\ excused = {}

-----------------------------------------------------------------------------
Self == pxCurrentTCB
Goto(l) == pc' = [pc EXCEPT ![Self] = l]
MayCall(op) == op \in program.ops /\ Self # Idle /\ pc[Self] = "run"
MayBlock(op) == MayCall(op) /\ uxSchedulerSuspended = 0

(* taskYIELD, and vTaskDelay(0).  The idle task yields when it shares its   *)
(* priority (configIDLE_SHOULD_YIELD).                                      *)
Yield ==
    /\ pc[Self] = "run"
    /\ IF Self = Idle THEN Len(pxReadyTasksLists[0]) > 2 ELSE "yield" \in program.ops
    /\ Dispatch(pxReadyTasksLists, uxTopReadyPriority, TRUE,
                uxSchedulerSuspended)
    /\ UNCHANGED <<timeVars, uxSchedulerSuspended, uxPriority, waitVars,
                   eventVars, callVars, periodVars>>

(* vTaskSuspendAll, called by the application or at the start of a call. *)
Suspending ==
    /\ uxSchedulerSuspended' = uxSchedulerSuspended + 1
    /\ UNCHANGED <<timeVars, switchVars, uxPriority, waitVars, eventVars>>

vTaskSuspendAll ==
    /\ MayCall("suspendAll") /\ uxSchedulerSuspended < MaxNesting
    /\ Suspending
    /\ UNCHANGED <<callVars, periodVars>>

BeginDelay(n) ==
    /\ MayBlock("delay") /\ n \in Delays
    /\ Suspending /\ Goto("delay") /\ arg' = n
    /\ UNCHANGED <<target, periodVars>>

(* The calls must come less than a full range of the counter apart, and a   *)
(* task whose delays were cut short is no further than that ahead.          *)
BeginDelayUntil ==
    /\ MayBlock("delayUntil") /\ lag[Self] \in Increment - TickMod..TickMod - 1
    /\ Suspending /\ Goto("delayUntil")
    /\ UNCHANGED <<arg, target, periodVars>>

BeginWait(n) ==
    /\ MayBlock("wait") /\ n \in Delays
    /\ Suspending /\ Goto("wait") /\ arg' = n
    /\ UNCHANGED <<target, periodVars>>

BeginAbort(t) ==
    /\ MayCall("abort") /\ t # Self /\ uxSchedulerSuspended < MaxNesting
    /\ Suspending /\ Goto("abort") /\ target' = t
    /\ UNCHANGED <<arg, periodVars>>

(* prvAddCurrentTaskToDelayedList.  A wake time past the end of the counter *)
(* belongs to its next round.                                               *)
AddCurrentTaskToDelayedList(n, canBlockIndefinitely) ==
    LET time == (xTickCount + n) % TickMod IN
    /\ pxReadyTasksLists' = RemoveReady(pxReadyTasksLists, Self)
    /\ IF n = portMAX_DELAY /\ canBlockIndefinitely
       THEN /\ xSuspendedTaskList' = xSuspendedTaskList \cup {Self}
            /\ UNCHANGED <<xItemValue, pxDelayedTaskList, due,
                           pxOverflowDelayedTaskList, xNextTaskUnblockTime>>
       ELSE /\ xItemValue' = [xItemValue EXCEPT ![Self] = time]
            /\ due' = [due EXCEPT ![Self] = n]
            /\ IF time < xTickCount
               THEN /\ pxOverflowDelayedTaskList' =
                          InsertByTime(pxOverflowDelayedTaskList, Self, time)
                    /\ UNCHANGED <<pxDelayedTaskList, xNextTaskUnblockTime>>
               ELSE /\ pxDelayedTaskList' =
                          InsertByTime(pxDelayedTaskList, Self, time)
                    /\ xNextTaskUnblockTime' =
                          IF time < xNextTaskUnblockTime THEN time
                          ELSE xNextTaskUnblockTime
                    /\ UNCHANGED pxOverflowDelayedTaskList
            /\ UNCHANGED xSuspendedTaskList
    /\ UNCHANGED <<xTickCount, uxPendedTicks, pxCurrentTCB,
                   uxTopReadyPriority, xYieldPending>>

vTaskDelay ==
    /\ pc[Self] = "delay"
    /\ AddCurrentTaskToDelayedList(arg, FALSE)
    /\ Goto("resumeAll")
    /\ UNCHANGED <<uxSchedulerSuspended, uxPriority, eventVars, arg, target,
                   periodVars>>

(* Slip: the wrap of the wake time is not considered. *)
ShouldDelayNoWrap(previous, time) == time > xTickCount

(* Whether the wake time lies ahead: wrapped and not the counter, or ahead  *)
(* on the same round.                                                       *)
ShouldDelay(previous, time) ==
    IF xTickCount < previous
    THEN time < previous /\ time > xTickCount
    ELSE time < previous \/ time > xTickCount

vTaskDelayUntil ==
    LET previous == pxPreviousWakeTime[Self]
        time == (previous + Increment) % TickMod
    IN  /\ pc[Self] = "delayUntil"
        /\ pxPreviousWakeTime' = [pxPreviousWakeTime EXCEPT ![Self] = time]
        /\ lag' = [lag EXCEPT ![Self] = @ - Increment]
        /\ excused' = IF lag[Self] >= 0 THEN excused \ {Self} ELSE excused
        /\ IF ShouldDelay(previous, time)
           THEN AddCurrentTaskToDelayedList((time - xTickCount) % TickMod,
                                            FALSE)
           ELSE UNCHANGED <<timeVars, switchVars, waitVars>>
        /\ Goto("resumeAll")
        /\ UNCHANGED <<uxSchedulerSuspended, uxPriority, eventVars, arg,
                       target>>

(* vTaskPlaceOnEventList, on the way to block on a queue. *)
vTaskPlaceOnEventList ==
    /\ pc[Self] = "wait"
    /\ xEventList' = InsertByPriority(xEventList, Self)
    /\ AddCurrentTaskToDelayedList(arg, TRUE)
    /\ Goto("resumeAll")
    /\ UNCHANGED <<uxSchedulerSuspended, uxPriority, xPendingReadyList, arg,
                   target, periodVars>>

-----------------------------------------------------------------------------
(* The counters and lists one tick works on, and the tasks it has woken.    *)
Clock ==
    [tick |-> xTickCount, next |-> xNextTaskUnblockTime,
     delayed |-> pxDelayedTaskList, overflow |-> pxOverflowDelayedTaskList,
     woken |-> <<>>]

(* The tasks at the head of q whose wake time has come, up to the first     *)
(* one whose has not.                                                       *)
Expired(q, now) ==
    LET waiting == {k \in DOMAIN q : now < xItemValue[q[k]]}
    IN  IF waiting = {} THEN q
        ELSE SubSeq(q, 1, (CHOOSE k \in waiting :
                               \A j \in waiting : k <= j) - 1)

(* Slip: after the lists are switched the next unblock time stays.          *)
OneTickKeepsNext(c) ==
    LET now == (c.tick + 1) % TickMod
        wrap == now = 0
        delayed == IF wrap THEN c.overflow ELSE c.delayed
        woken == IF now >= c.next THEN Expired(delayed, now) ELSE <<>>
        rest == SubSeq(delayed, Len(woken) + 1, Len(delayed))
    IN  [tick |-> now,
         next |-> IF now >= c.next THEN HeadTime(rest) ELSE c.next,
         delayed |-> rest,
         overflow |-> IF wrap THEN c.delayed ELSE c.overflow,
         woken |-> c.woken \o woken]

(* Slip: the delayed lists are not switched when the counter wraps.         *)
OneTickNoSwitch(c) ==
    LET now == (c.tick + 1) % TickMod
        woken == IF now >= c.next THEN Expired(c.delayed, now) ELSE <<>>
        rest == SubSeq(c.delayed, Len(woken) + 1, Len(c.delayed))
    IN  [c EXCEPT !.tick = now, !.delayed = rest, !.woken = @ \o woken,
                  !.next = IF now >= @ THEN HeadTime(rest) ELSE @]

(* Counting one tick: taskSWITCH_DELAYED_LISTS when the counter wraps, then *)
(* whoever is due, if anybody can be.                                       *)
OneTick(c) ==
    LET now == (c.tick + 1) % TickMod
        wrap == now = 0
        delayed == IF wrap THEN c.overflow ELSE c.delayed
        next == IF wrap THEN HeadTime(delayed) ELSE c.next
        woken == IF now >= next THEN Expired(delayed, now) ELSE <<>>
        rest == SubSeq(delayed, Len(woken) + 1, Len(delayed))
    IN  [tick |-> now,
         next |-> IF now >= next THEN HeadTime(rest) ELSE next,
         delayed |-> rest,
         overflow |-> IF wrap THEN c.delayed ELSE c.overflow,
         woken |-> c.woken \o woken]

(* The effect of n counted ticks on the lists of waiting tasks. *)
Ticked(clock, n) ==
    LET after[k \in 0..n] == IF k = 0 THEN clock ELSE OneTick(after[k - 1])
    IN  after[n]

CountTicks(c, n) ==
    /\ xTickCount' = c.tick
    /\ xNextTaskUnblockTime' = c.next
    /\ pxDelayedTaskList' = c.delayed
    /\ pxOverflowDelayedTaskList' = c.overflow
    /\ lag' = [t \in Tasks |-> IF "delayUntil" \notin program.ops THEN 0
                               ELSE IF lag[t] + n > TickMod THEN TickMod
                               ELSE lag[t] + n]

Elapse(d, n) == [t \in Tasks |-> IF d[t] > n THEN d[t] - n ELSE 0]

(* The tick interrupt.  The port's handler switches context on every tick,  *)
(* whether or not xTaskIncrementTick asks for it.                           *)
xTaskIncrementTick ==
    /\ IF uxSchedulerSuspended = 0
       THEN LET c == Ticked(Clock, 1) IN
            /\ CountTicks(c, 1)
            /\ due' = Elapse(due, 1)
            /\ xEventList' = Without(xEventList, Range(c.woken))
            /\ Dispatch(AddReady(pxReadyTasksLists, uxPriority, c.woken),
                        RecordReady(uxTopReadyPriority, uxPriority, c.woken),
                        TRUE, 0)
            /\ UNCHANGED uxPendedTicks
       ELSE /\ uxPendedTicks < MaxPended
            /\ uxPendedTicks' = uxPendedTicks + 1
            /\ xYieldPending' = TRUE
            /\ UNCHANGED <<xTickCount, xNextTaskUnblockTime, pxDelayedTaskList,
                           pxOverflowDelayedTaskList, due, lag, xEventList,
                           pxReadyTasksLists, uxTopReadyPriority,
                           pxCurrentTCB>>
    /\ UNCHANGED <<uxSchedulerSuspended, uxPriority, xSuspendedTaskList,
                   xItemValue, xPendingReadyList, callVars,
                   pxPreviousWakeTime, excused>>

(* The end of the outermost suspension: the pending tasks become ready, the *)
(* pended ticks are counted, and a pending yield is taken.                  *)
LastResume(from, to) ==
    LET pending == Range(xPendingReadyList)
        clock == [Clock EXCEPT
                      !.delayed = Without(@, pending),
                      !.overflow = Without(@, pending),
                      !.next = IF pending = {} THEN @
                               ELSE HeadTime(Without(pxDelayedTaskList,
                                                     pending))]
        c == Ticked(clock, uxPendedTicks)
        awake == xPendingReadyList \o c.woken
        lists == AddReady([p \in 0..TopPriority |->
                               Without(pxReadyTasksLists[p], pending)],
                          uxPriority, awake)
        yield == \/ xYieldPending
                 \/ \E t \in Range(awake) :
                        uxPriority[t] >= uxPriority[Self]
                 \/ uxPendedTicks > 0 /\ Len(lists[uxPriority[Self]]) > 2
    IN  /\ CountTicks(c, uxPendedTicks)
        /\ uxPendedTicks' = 0
        /\ xSuspendedTaskList' = xSuspendedTaskList \ pending
        /\ due' = Elapse([t \in Tasks |-> IF t \in pending THEN 0
                                          ELSE due[t]], uxPendedTicks)
        /\ xPendingReadyList' = <<>>
        /\ xEventList' = Without(xEventList, Range(c.woken))
        /\ Dispatch(lists, RecordReady(uxTopReadyPriority, uxPriority, awake),
                    yield, 0)
        /\ Goto(IF yield THEN "run" ELSE to)
        /\ UNCHANGED xItemValue

(* The end of any suspension.  A call that may have blocked goes on to        *)
(* "yield", unless xTaskResumeAll says that it has yielded already.         *)
ResumeAll(from, to) ==
    /\ pc[Self] = from /\ uxSchedulerSuspended > 0
    /\ uxSchedulerSuspended' = uxSchedulerSuspended - 1
    /\ arg' = 0 /\ target' = Idle
    /\ IF uxSchedulerSuspended = 1
       THEN LastResume(from, to)
       ELSE /\ Goto(to)
            /\ UNCHANGED <<timeVars, switchVars, waitVars, eventVars, lag>>
    /\ UNCHANGED <<uxPriority, pxPreviousWakeTime, excused>>

xTaskResumeAll ==
    \/ ResumeAll("resumeAll", "yield")
    \/ ResumeAll("abortDone", "run")
    \/ ResumeAll("run", "run")

(* portYIELD_WITHIN_API at the end of a call that blocks. *)
YieldWithinAPI ==
    /\ pc[Self] = "yield"
    /\ Dispatch(pxReadyTasksLists, uxTopReadyPriority, TRUE,
                uxSchedulerSuspended)
    /\ Goto("run")
    /\ UNCHANGED <<timeVars, uxSchedulerSuspended, uxPriority, waitVars,
                   eventVars, arg, target, periodVars>>

-----------------------------------------------------------------------------
(* Task t leaves whichever state list and event list it is on. *)
Detach(t) ==
    /\ pxDelayedTaskList' = Without(pxDelayedTaskList, {t})
    /\ pxOverflowDelayedTaskList' = Without(pxOverflowDelayedTaskList, {t})
    /\ due' = [due EXCEPT ![t] = 0]
    /\ UNCHANGED xItemValue

(* xTaskRemoveFromEventList, from a task or an interrupt that signals the   *)
(* event: the first waiting task becomes ready, or pending ready.           *)
xTaskRemoveFromEventList ==
    LET t == Head(xEventList)
        yield == uxPriority[t] > uxPriority[Self]
    IN  /\ "signal" \in program.ops /\ xEventList # <<>>
        /\ xEventList' = Tail(xEventList)
        /\ IF uxSchedulerSuspended = 0
           THEN /\ Detach(t)
                /\ xSuspendedTaskList' = xSuspendedTaskList \ {t}
                /\ Dispatch(AddReady(pxReadyTasksLists, uxPriority, <<t>>),
                            RecordReady(uxTopReadyPriority, uxPriority, <<t>>),
                            yield, 0)
                /\ UNCHANGED xPendingReadyList
           ELSE /\ xPendingReadyList' = Append(xPendingReadyList, t)
                /\ xYieldPending' = (xYieldPending \/ yield)
                /\ UNCHANGED <<waitVars, pxReadyTasksLists, pxCurrentTCB,
                               uxTopReadyPriority>>
        /\ UNCHANGED <<timeVars, uxSchedulerSuspended, uxPriority, callVars,
                       periodVars>>

(* Slip: a task that was woken already counts as suspended. *)
IsOnSuspendedList(t) == t \in xSuspendedTaskList \ Range(xEventList)

(* prvTaskIsTaskSuspended: neither woken already nor waiting for an event.  *)
IsTaskSuspended(t) ==
    t \in xSuspendedTaskList \ (Range(xEventList) \cup Range(xPendingReadyList))

(* eTaskGetState(t) = eBlocked. *)
IsBlocked(t) ==
    \/ t \in Delayed
    \/ /\ t \in xSuspendedTaskList
       /\ t \in Range(xEventList) \cup Range(xPendingReadyList)

(* Also suspends the caller; the next unblock time is looked up again in a  *)
(* second critical section.                                                 *)
vTaskSuspend(t) ==
    /\ MayCall("suspend") /\ t # Idle
    /\ t = Self => uxSchedulerSuspended = 0
    /\ Detach(t)
    /\ pxReadyTasksLists' = RemoveReady(pxReadyTasksLists, t)
    /\ xEventList' = Without(xEventList, {t})
    /\ xPendingReadyList' = Without(xPendingReadyList, {t})
    /\ xSuspendedTaskList' = xSuspendedTaskList \cup {t}
    /\ excused' = IF t \in Delayed THEN excused \cup {t} ELSE excused
    /\ Goto(IF t = Self THEN "suspendSelf" ELSE "suspendOther")
    /\ UNCHANGED <<timeVars, uxSchedulerSuspended, uxPriority, pxCurrentTCB,
                   uxTopReadyPriority, xYieldPending, arg, target,
                   pxPreviousWakeTime, lag>>

ResetNextTaskUnblockTime(from, to) ==
    /\ pc[Self] = from
    /\ xNextTaskUnblockTime' = HeadTime(pxDelayedTaskList)
    /\ Goto(to)
    /\ UNCHANGED <<xTickCount, uxPendedTicks, uxSchedulerSuspended, switchVars,
                   uxPriority, waitVars, eventVars, arg, target, periodVars>>

vTaskSuspendEnds ==
    \/ ResetNextTaskUnblockTime("suspendOther", "run")
    \/ ResetNextTaskUnblockTime("suspendSelf", "yield")

vTaskResume(t) ==
    /\ MayCall("resume") /\ t # Self /\ IsTaskSuspended(t)
    /\ xSuspendedTaskList' = xSuspendedTaskList \ {t}
    /\ Dispatch(AddReady(pxReadyTasksLists, uxPriority, <<t>>),
                RecordReady(uxTopReadyPriority, uxPriority, <<t>>),
                uxPriority[t] >= uxPriority[Self], uxSchedulerSuspended)
    /\ UNCHANGED <<timeVars, uxSchedulerSuspended, uxPriority,
                   pxDelayedTaskList, pxOverflowDelayedTaskList, xItemValue,
                   due, eventVars, callVars, periodVars>>

xTaskResumeFromISR(t) ==
    /\ "resumeISR" \in program.ops /\ IsTaskSuspended(t)
    /\ IF uxSchedulerSuspended = 0
       THEN /\ xSuspendedTaskList' = xSuspendedTaskList \ {t}
            /\ Dispatch(AddReady(pxReadyTasksLists, uxPriority, <<t>>),
                        RecordReady(uxTopReadyPriority, uxPriority, <<t>>),
                        uxPriority[t] >= uxPriority[Self], 0)
            /\ UNCHANGED xPendingReadyList
       ELSE /\ xPendingReadyList' = Append(xPendingReadyList, t)
            /\ UNCHANGED <<xSuspendedTaskList, switchVars>>
    /\ UNCHANGED <<timeVars, uxSchedulerSuspended, uxPriority,
                   pxDelayedTaskList, pxOverflowDelayedTaskList, xItemValue,
                   due, xEventList, callVars, periodVars>>

(* xTaskAbortDelay takes a blocked task off its state list, then, in a      *)
(* critical section, off its event list, and readies it.                    *)
AbortDelay ==
    /\ pc[Self] = "abort"
    /\ IF IsBlocked(target)
       THEN /\ Detach(target)
            /\ xSuspendedTaskList' = xSuspendedTaskList \ {target}
            /\ excused' = excused \cup {target}
            /\ Goto("abortEvent")
       ELSE /\ Goto("abortDone")
            /\ UNCHANGED <<waitVars, excused>>
    /\ UNCHANGED <<timeVars, uxSchedulerSuspended, switchVars, uxPriority,
                   eventVars, arg, target, pxPreviousWakeTime, lag>>

AbortEvent ==
    /\ pc[Self] = "abortEvent"
    /\ xEventList' = Without(xEventList, {target})
    /\ xPendingReadyList' = Without(xPendingReadyList, {target})
    /\ pxReadyTasksLists' =
            AddReady(pxReadyTasksLists, uxPriority, <<target>>)
    /\ uxTopReadyPriority' =
            RecordReady(uxTopReadyPriority, uxPriority, <<target>>)
    /\ xYieldPending' =
            (xYieldPending \/ uxPriority[target] > uxPriority[Self])
    /\ Goto("abortDone")
    /\ UNCHANGED <<timeVars, uxSchedulerSuspended, pxCurrentTCB, uxPriority,
                   waitVars, arg, target, periodVars>>

(* A ready task moves to the list of its new priority; the event list item  *)
(* gets the new value where it stands.                                      *)
vTaskPrioritySet(t, p) ==
    LET prio == [uxPriority EXCEPT ![t] = p]
        yield == IF p > uxPriority[t]
                 THEN t # Self /\ p >= uxPriority[Self]
                 ELSE t = Self
    IN  /\ MayCall("priority") /\ t # Idle /\ p # uxPriority[t]
        /\ uxPriority' = prio
        /\ IF t \in Range(pxReadyTasksLists[uxPriority[t]])
           THEN Dispatch(AddReady(RemoveReady(pxReadyTasksLists, t), prio,
                                  <<t>>),
                         RecordReady(uxTopReadyPriority, prio, <<t>>),
                         yield, uxSchedulerSuspended)
           ELSE Dispatch(pxReadyTasksLists, uxTopReadyPriority, yield,
                         uxSchedulerSuspended)
        /\ UNCHANGED <<timeVars, uxSchedulerSuspended, waitVars, eventVars,
                       callVars, periodVars>>

-----------------------------------------------------------------------------
TaskStep ==
    \/ Yield \/ YieldWithinAPI
    \/ vTaskSuspendAll \/ xTaskResumeAll
    \/ \E n \in Delays : BeginDelay(n) \/ BeginWait(n)
    \/ BeginDelayUntil
    \/ vTaskDelay \/ vTaskDelayUntil \/ vTaskPlaceOnEventList
    \/ \E t \in Tasks : BeginAbort(t) \/ vTaskSuspend(t) \/ vTaskResume(t)
    \/ AbortDelay \/ AbortEvent \/ vTaskSuspendEnds
    \/ \E t \in Tasks, p \in 0..TopPriority : vTaskPrioritySet(t, p)

Interrupt ==
    \/ xTaskIncrementTick
    \/ xTaskRemoveFromEventList
    \/ \E t \in Tasks : xTaskResumeFromISR(t)

Next == UNCHANGED program /\ (TaskStep \/ Interrupt)

Spec == Init /\ [][Next]_vars

(* Calls that have begun go on, an application that suspended the scheduler *)
(* resumes it, and ticks keep coming while the scheduler runs.  Inside is   *)
(* when CallStep is enabled, so the conjuncts say WF_vars(CallStep) and     *)
(* SF_vars(the tick with the scheduler running).                            *)
CallStep ==
    \/ vTaskDelay \/ vTaskDelayUntil \/ vTaskPlaceOnEventList
    \/ AbortDelay \/ AbortEvent \/ vTaskSuspendEnds
    \/ xTaskResumeAll \/ YieldWithinAPI

Inside == pc[Self] # "run" \/ uxSchedulerSuspended > 0
RunningTick == uxSchedulerSuspended = 0 /\ xTaskIncrementTick

Fairness ==
    /\ <>[]Inside => []<><<CallStep>>_vars
    /\ []<>(uxSchedulerSuspended = 0) => []<><<RunningTick>>_vars

-----------------------------------------------------------------------------
TypeOK ==
    /\ xTickCount \in 0..portMAX_DELAY
    /\ xNextTaskUnblockTime \in 0..portMAX_DELAY
    /\ uxPendedTicks \in 0..MaxPended
    /\ uxSchedulerSuspended \in 0..MaxNesting
    /\ xYieldPending \in BOOLEAN
    /\ pxCurrentTCB \in Tasks
    /\ uxPriority \in [Tasks -> 0..TopPriority]
    /\ uxTopReadyPriority \in 0..TopPriority
    /\ pxReadyTasksLists \in [0..TopPriority -> Seq(Tasks \cup {End})]
    /\ pxDelayedTaskList \in Seq(Tasks)
    /\ pxOverflowDelayedTaskList \in Seq(Tasks)
    /\ xItemValue \in [Tasks -> 0..portMAX_DELAY]
    /\ xSuspendedTaskList \subseteq Tasks
    /\ xPendingReadyList \in Seq(Tasks)
    /\ xEventList \in Seq(Tasks)
    /\ pc \in [Tasks -> {"run", "delay", "delayUntil", "wait", "resumeAll",
                         "yield", "suspendSelf", "suspendOther", "abort",
                         "abortEvent", "abortDone"}]
    /\ arg \in 0..portMAX_DELAY
    /\ target \in Tasks
    /\ pxPreviousWakeTime \in [Tasks -> 0..portMAX_DELAY]
    /\ due \in [Tasks -> 0..portMAX_DELAY]
    /\ lag \in [Tasks -> -TickMod..TickMod]
    /\ excused \subseteq Tasks

(* Every task is on exactly one state list, once, but for the one that a    *)
(* call of xTaskAbortDelay is moving.                                       *)
Ready(t) == {p \in 0..TopPriority : t \in Range(pxReadyTasksLists[p])}

OneStateList ==
    /\ TypeOK
    /\ \A p \in 0..TopPriority : IsInjective(pxReadyTasksLists[p])
    /\ IsInjective(pxDelayedTaskList \o pxOverflowDelayedTaskList)
    /\ IsInjective(xEventList \o xPendingReadyList)
    /\ \A t \in Tasks :
         IF pc[Self] = "abortEvent" /\ t = target
         THEN Ready(t) = {} /\ t \notin Delayed \cup xSuspendedTaskList
         ELSE \/ /\ Ready(t) = {uxPriority[t]}
                 /\ t \notin Delayed \cup xSuspendedTaskList
              \/ /\ Ready(t) = {} /\ t \in Delayed
                 /\ t \notin xSuspendedTaskList
              \/ /\ Ready(t) = {} /\ t \notin Delayed
                 /\ t \in xSuspendedTaskList

(* A delay of n ends with the n-th tick counted after it began: neither     *)
(* a wrap of the tick counter, nor ticks pended and counted in a batch, nor *)
(* the next unblock time kept aside makes it shorter or longer.             *)
DelaysAreExact == \A t \in Tasks : t \in Delayed <=> due[t] > 0

(* Whenever the scheduler runs and no call is half way, the running task is *)
(* ready, and no ready task has a higher priority.                          *)
HighestPriorityRuns ==
    (uxSchedulerSuspended = 0 /\ pc[Self] = "run") =>
        /\ Ready(Self) # {}
        /\ \A t \in Tasks : Ready(t) # {} => uxPriority[t] <= uxPriority[Self]

(* A periodic task that vTaskDelayUntil lets go is not ahead of its         *)
(* schedule, unless xTaskAbortDelay or vTaskSuspend cut a delay of it short *)
(* and it has not caught up since: it is unblocked at *pxPreviousWakeTime + *)
(* xTimeIncrement (include/task.h:782).                                     *)
NeverAhead ==
    (uxSchedulerSuspended = 0 /\ pc[Self] = "run" /\ Self \notin excused)
        => lag[Self] >= 0

(* Tasks of equal priority take turns: a ready task of the highest ready    *)
(* priority gets the processor, also when its peer never gives it up.       *)
IsHighest(t) ==
    /\ Ready(t) # {}
    /\ \A u \in Tasks : Ready(u) # {} => uxPriority[u] <= uxPriority[t]

PeersTakeTurns ==
    \A t \in Tasks : IsHighest(t) ~> (Self = t \/ ~ IsHighest(t))

(* A delayed task becomes ready again, also when the scheduler is suspended *)
(* again and again.                                                         *)
DelaysEnd == \A t \in Tasks : t \in Delayed ~> t \notin Delayed
=============================================================================
