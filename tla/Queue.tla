------------------------------- MODULE Queue --------------------------------
(***************************************************************************)
(* Blocking on a queue: xQueueGenericSend, xQueueReceive, xQueuePeek and   *)
(* their FromISR forms (freeRtos/Source/queue.c) with the kernel services  *)
(* they block and wake through (tasks.c): the event lists, the scheduler   *)
(* suspension, the pending-ready list, time-outs and xTaskAbortDelay.      *)
(*                                                                         *)
(* One step is what the code does without letting anybody in: a critical   *)
(* section, or a statement run with the scheduler suspended.  Interrupts   *)
(* (the tick, the FromISR calls) come between any two steps; other tasks   *)
(* only while the scheduler is not suspended.  Which ready task runs next  *)
(* is left open, which includes every choice vTaskSwitchContext makes.     *)
(*                                                                         *)
(* The items are counted, not stored: QueueStorage has their contents.  A  *)
(* semaphore is a queue whose items have size zero, so the module covers   *)
(* semaphores as well.                                                     *)
(***************************************************************************)
EXTENDS EventList

CONSTANTS
    Tasks,          \* the tasks that use the queue
    Prio,           \* [Tasks -> Nat], their uxPriority
    Programs,       \* what the application may be: its queue's capacity, and
                    \* the calls each of its tasks makes
    Waits,          \* the values of xTicksToWait that callers pass
    MaxDelay,       \* portMAX_DELAY: wait without a time-out
    LockMax,        \* INT8_MAX, the largest value of cTxLock and cRxLock
    MaxLocked,      \* bound: FromISR calls of a kind during one lock
    MaxPended       \* bound: ticks pended during one suspension

Kinds == {"send", "overwrite", "receive", "peek"}

ASSUME ProgramsAssumption ==
    Programs \subseteq [uxLength : Nat \ {0},
                        calls : [Tasks -> SUBSET (Kinds \cup {"abort", "reset"})]]
ASSUME WaitsAssumption == MaxDelay \in Nat \ {0} /\ Waits \subseteq 0..MaxDelay
ASSUME LockAssumption == LockMax \in Nat /\ MaxLocked \in Nat
ASSUME PendedAssumption == MaxPended \in Nat
ASSUME TasksAssumption == IsFiniteSet(Tasks) /\ Prio \in [Tasks -> Nat]

Nobody == "nobody"
ASSUME NobodyAssumption == Nobody \notin Tasks

queueUNLOCKED == -1
queueLOCKED_UNMODIFIED == 0

VARIABLES
    program,                \* the program that runs; it never changes
    uxMessagesWaiting,      \* items in the queue
    cTxLock, cRxLock,       \* the lock counts, int8_t in the code
    xTasksWaitingToSend,    \* event lists, highest priority first
    xTasksWaitingToReceive,
    xPendingReadyList,      \* woken while the scheduler was suspended
    suspender,              \* who suspended the scheduler, or Nobody
    uxPendedTicks,          \* ticks not yet counted
    blocked,                \* tasks on a delayed list or the suspended list
    pc,                     \* where each task is in its call
    kind,                   \* which call that is
    goal,                   \* why it unlocks: to "block", "retry", "expire"
    xTicksToWait,           \* the local variable of the call
    elapsed,                \* counted ticks since xTimeOnEntering (see Later)
    left,                   \* counted ticks until a blocked task is woken
    ucDelayAborted,         \* per task, set by xTaskAbortDelay
    target,                 \* whose delay an aborter aborts
    asked,                  \* ghost: the xTicksToWait the caller passed
    waited                  \* ghost: tick interrupts since the first failure,
                            \* counted up to what was asked

queueVars == <<uxMessagesWaiting, cTxLock, cRxLock>>
listVars == <<xTasksWaitingToSend, xTasksWaitingToReceive, xPendingReadyList,
              blocked>>
callVars == <<pc, kind, goal, xTicksToWait, elapsed, ucDelayAborted, target,
              asked>>
timeVars == <<uxPendedTicks, left, waited>>
vars == <<program, queueVars, listVars, suspender, callVars, timeVars>>

uxLength == program.uxLength

Init ==
    /\ program \in Programs
    /\ uxMessagesWaiting = 0
    /\ cTxLock = queueUNLOCKED /\ cRxLock = queueUNLOCKED
    /\ xTasksWaitingToSend = <<>> /\ xTasksWaitingToReceive = <<>>
    /\ xPendingReadyList = <<>>
    /\ suspender = Nobody /\ uxPendedTicks = 0
    /\ blocked = {}
    /\ pc = [t \in Tasks |-> "out"]
    /\ kind = [t \in Tasks |-> "none"]
    /\ goal = [t \in Tasks |-> "none"]
    /\ xTicksToWait = [t \in Tasks |-> 0]
    /\ elapsed = [t \in Tasks |-> 0]
    /\ left = [t \in Tasks |-> 0]
    /\ ucDelayAborted = [t \in Tasks |-> FALSE]
    /\ target = [t \in Tasks |-> Nobody]
    /\ asked = [t \in Tasks |-> 0]
    /\ waited = [t \in Tasks |-> 0]

-----------------------------------------------------------------------------
(* Who may take a step: the task that suspended the scheduler, or, when it *)
(* runs, any task that is not blocked.                                     *)
CanRun(t) == suspender = t \/ (suspender = Nobody /\ t \notin blocked)

Outside(t) == pc[t] \in {"out", "gaveUp"}
Timing(t) == pc[t] \notin {"out", "gaveUp", "enter"} /\ kind[t] # "abort"

Goto(t, l) == pc' = [pc EXCEPT ![t] = l]

(* The place of task t in an event list: behind every waiting task of its  *)
(* own priority or a higher one (vListInsert on the event item value).     *)
InsertByPriority(q, t) == InsertBefore(q, t, {u \in Tasks : Prio[u] < Prio[t]})

(* xTaskRemoveFromEventList on a list that is not empty: the first waiting *)
(* task becomes ready, or pending ready while the scheduler is suspended.  *)
xTaskRemoveFromEventList(q) ==
    IF suspender = Nobody
    THEN /\ blocked' = blocked \ {Head(q)}
         /\ left' = [left EXCEPT ![Head(q)] = 0]
         /\ UNCHANGED xPendingReadyList
    ELSE /\ xPendingReadyList' = Append(xPendingReadyList, Head(q))
         /\ UNCHANGED <<blocked, left>>

WakeReceiver ==
    /\ UNCHANGED xTasksWaitingToSend
    /\ IF xTasksWaitingToReceive = <<>>
       THEN UNCHANGED <<xTasksWaitingToReceive, blocked, left,
                           xPendingReadyList>>
       ELSE /\ xTaskRemoveFromEventList(xTasksWaitingToReceive)
            /\ xTasksWaitingToReceive' = Tail(xTasksWaitingToReceive)

WakeSender ==
    /\ UNCHANGED xTasksWaitingToReceive
    /\ IF xTasksWaitingToSend = <<>>
       THEN UNCHANGED <<xTasksWaitingToSend, blocked, left,
                           xPendingReadyList>>
       ELSE /\ xTaskRemoveFromEventList(xTasksWaitingToSend)
            /\ xTasksWaitingToSend' = Tail(xTasksWaitingToSend)

(* A call returns; its locals are reset so that they do not distinguish    *)
(* states.  A call that gives up keeps its ghosts until the next call.     *)
ReturnPass(t) ==
    /\ Goto(t, "out")
    /\ kind' = [kind EXCEPT ![t] = "none"]
    /\ goal' = [goal EXCEPT ![t] = "none"]
    /\ xTicksToWait' = [xTicksToWait EXCEPT ![t] = 0]
    /\ elapsed' = [elapsed EXCEPT ![t] = 0]
    /\ asked' = [asked EXCEPT ![t] = 0]
    /\ waited' = [waited EXCEPT ![t] = 0]
    /\ UNCHANGED <<ucDelayAborted, target, uxPendedTicks>>

ReturnFail(t) ==
    /\ Goto(t, "gaveUp")
    /\ goal' = [goal EXCEPT ![t] = "none"]
    /\ UNCHANGED <<kind, xTicksToWait, elapsed, ucDelayAborted, target, asked>>

-----------------------------------------------------------------------------
(* A task calls the API.  The code asserts that the scheduler is not       *)
(* suspended when it might wait.                                           *)
Call(t, k, w) ==
    /\ Outside(t) /\ suspender = Nobody /\ t \notin blocked
    /\ Goto(t, "enter")
    /\ kind' = [kind EXCEPT ![t] = k]
    /\ xTicksToWait' = [xTicksToWait EXCEPT ![t] = w]
    /\ elapsed' = [elapsed EXCEPT ![t] = 0]
    /\ asked' = [asked EXCEPT ![t] = w]
    /\ waited' = [waited EXCEPT ![t] = 0]
    /\ UNCHANGED <<queueVars, listVars, suspender, goal, ucDelayAborted,
                   target, uxPendedTicks, left>>

Trying(t) == pc[t] \in {"enter", "try"} /\ CanRun(t)

SendSucceeds(t) ==
    /\ Trying(t) /\ kind[t] \in {"send", "overwrite"}
    /\ uxMessagesWaiting < uxLength \/ kind[t] = "overwrite"
    /\ uxMessagesWaiting' = IF uxMessagesWaiting < uxLength
                            THEN uxMessagesWaiting + 1 ELSE uxMessagesWaiting
    /\ WakeReceiver
    /\ ReturnPass(t)
    /\ UNCHANGED <<cTxLock, cRxLock, suspender>>

ReceiveSucceeds(t) ==
    /\ Trying(t) /\ kind[t] = "receive"
    /\ uxMessagesWaiting > 0
    /\ uxMessagesWaiting' = uxMessagesWaiting - 1
    /\ WakeSender
    /\ ReturnPass(t)
    /\ UNCHANGED <<cTxLock, cRxLock, suspender>>

(* The item stays in the queue, so another waiting receiver is let in. *)
PeekSucceeds(t) ==
    /\ Trying(t) /\ kind[t] = "peek"
    /\ uxMessagesWaiting > 0
    /\ WakeReceiver
    /\ ReturnPass(t)
    /\ UNCHANGED <<queueVars, suspender>>

(* prvIsQueueFull for a sender, prvIsQueueEmpty for the other calls. *)
MustWait(t) == IF kind[t] = "send" THEN uxMessagesWaiting = uxLength
               ELSE kind[t] # "overwrite" /\ uxMessagesWaiting = 0

(* The critical section that finds the queue full or empty. *)
TryFails(t) ==
    /\ Trying(t) /\ MustWait(t)
    /\ IF xTicksToWait[t] = 0
       THEN ReturnFail(t) /\ UNCHANGED waited
       ELSE /\ Goto(t, "failed")
            /\ elapsed' = [elapsed EXCEPT ![t] =
                              IF pc[t] = "enter" THEN 0 ELSE @]
            /\ waited' = [waited EXCEPT ![t] =
                              IF pc[t] = "enter" THEN 0 ELSE @]
            /\ UNCHANGED <<kind, goal, xTicksToWait, ucDelayAborted, target,
                           asked>>
    /\ UNCHANGED <<queueVars, listVars, suspender, uxPendedTicks, left>>

vTaskSuspendAll(t) ==
    /\ pc[t] = "failed" /\ suspender = Nobody /\ t \notin blocked
    /\ suspender' = t
    /\ Goto(t, "suspended")
    /\ UNCHANGED <<queueVars, listVars, kind, goal, xTicksToWait, elapsed,
                   ucDelayAborted, target, asked, timeVars>>

(* Slip: the queue is not locked while its state is looked at again. *)
LockNothing(t) ==
    /\ pc[t] = "suspended"
    /\ Goto(t, "locked")
    /\ UNCHANGED <<queueVars, listVars, suspender, kind, goal, xTicksToWait,
                   elapsed, ucDelayAborted, target, asked, timeVars>>

prvLockQueue(t) ==
    /\ pc[t] = "suspended"
    /\ cRxLock' = IF cRxLock = queueUNLOCKED THEN queueLOCKED_UNMODIFIED
                  ELSE cRxLock
    /\ cTxLock' = IF cTxLock = queueUNLOCKED THEN queueLOCKED_UNMODIFIED
                  ELSE cTxLock
    /\ Goto(t, "locked")
    /\ UNCHANGED <<uxMessagesWaiting, listVars, suspender, kind, goal,
                   xTicksToWait, elapsed, ucDelayAborted, target, asked, timeVars>>

Unlocking(t, g) == Goto(t, "unlockTx") /\ goal' = [goal EXCEPT ![t] = g]

(* Slip: the time already waited is not subtracted before the next round. *)
TimeOutStartsOver(t) ==
    /\ pc[t] = "locked"
    /\ ucDelayAborted' = [ucDelayAborted EXCEPT ![t] = FALSE]
    /\ \/ /\ ucDelayAborted[t]
          /\ Unlocking(t, "expire")
          /\ UNCHANGED <<xTicksToWait, elapsed>>
       \/ /\ ~ ucDelayAborted[t]
          /\ xTicksToWait[t] = MaxDelay \/ elapsed[t] < xTicksToWait[t]
          /\ elapsed' = [elapsed EXCEPT ![t] = 0]
          /\ Goto(t, "check")
          /\ UNCHANGED <<goal, xTicksToWait>>
       \/ /\ ~ ucDelayAborted[t]
          /\ xTicksToWait[t] # MaxDelay /\ elapsed[t] >= xTicksToWait[t]
          /\ xTicksToWait' = [xTicksToWait EXCEPT ![t] = 0]
          /\ Unlocking(t, "expire")
          /\ UNCHANGED elapsed
    /\ UNCHANGED <<queueVars, listVars, suspender, kind, target, asked, timeVars>>

(* Slip: the last tick of the wait is not waited for. *)
TimeOutOneTickEarly(t) ==
    /\ pc[t] = "locked"
    /\ xTicksToWait[t] # MaxDelay
    /\ IF elapsed[t] + 1 < xTicksToWait[t]
       THEN Goto(t, "check") /\ UNCHANGED goal
       ELSE Unlocking(t, "expire")
    /\ UNCHANGED <<queueVars, listVars, suspender, kind, xTicksToWait,
                   elapsed, ucDelayAborted, target, asked, timeVars>>

(* A pending abort ends the wait whatever its length, and is consumed; a   *)
(* wait of MaxDelay never expires; otherwise the part of the wait that is  *)
(* left is carried to the next round.                                      *)
xTaskCheckForTimeOut(t) ==
    /\ pc[t] = "locked"
    /\ ucDelayAborted' = [ucDelayAborted EXCEPT ![t] = FALSE]
    /\ \/ /\ ucDelayAborted[t]
          /\ Unlocking(t, "expire")
          /\ UNCHANGED <<xTicksToWait, elapsed>>
       \/ /\ ~ ucDelayAborted[t]
          /\ xTicksToWait[t] = MaxDelay
          /\ Goto(t, "check")
          /\ UNCHANGED <<goal, xTicksToWait, elapsed>>
       \/ /\ ~ ucDelayAborted[t]
          /\ xTicksToWait[t] # MaxDelay /\ elapsed[t] < xTicksToWait[t]
          /\ xTicksToWait' = [xTicksToWait EXCEPT ![t] = @ - elapsed[t]]
          /\ elapsed' = [elapsed EXCEPT ![t] = 0]
          /\ Goto(t, "check")
          /\ UNCHANGED goal
       \/ /\ ~ ucDelayAborted[t]
          /\ xTicksToWait[t] # MaxDelay /\ elapsed[t] >= xTicksToWait[t]
          /\ xTicksToWait' = [xTicksToWait EXCEPT ![t] = 0]
          /\ Unlocking(t, "expire")
          /\ UNCHANGED elapsed
    /\ UNCHANGED <<queueVars, listVars, suspender, kind, target, asked, timeVars>>

CheckAgain(t) ==
    /\ pc[t] = "check"
    /\ IF MustWait(t) THEN Goto(t, "place") /\ UNCHANGED goal
       ELSE Unlocking(t, "retry")
    /\ UNCHANGED <<queueVars, listVars, suspender, kind, xTicksToWait,
                   elapsed, ucDelayAborted, target, asked, timeVars>>

(* vTaskPlaceOnEventList and prvAddCurrentTaskToDelayedList. *)
vTaskPlaceOnEventList(t) ==
    /\ pc[t] = "place"
    /\ IF kind[t] = "send"
       THEN /\ xTasksWaitingToSend' = InsertByPriority(xTasksWaitingToSend, t)
            /\ UNCHANGED xTasksWaitingToReceive
       ELSE /\ xTasksWaitingToReceive' =
                    InsertByPriority(xTasksWaitingToReceive, t)
            /\ UNCHANGED xTasksWaitingToSend
    /\ blocked' = blocked \cup {t}
    /\ left' = [left EXCEPT ![t] = xTicksToWait[t]]
    /\ ucDelayAborted' = [ucDelayAborted EXCEPT ![t] = FALSE]
    /\ Unlocking(t, "block")
    /\ UNCHANGED <<queueVars, xPendingReadyList, suspender, kind,
                   xTicksToWait, elapsed, target, asked,
                   uxPendedTicks, waited>>

(* How many tasks prvUnlockQueue wakes for a lock count c: one for each    *)
(* item that came or went, until no task is waiting.                       *)
WakeCount(c, q) == IF c > Len(q) THEN Len(q) ELSE IF c > 0 THEN c ELSE 0

(* Slip: the items sent by interrupts during the lock wake nobody. *)
UnlockTxWakesNobody(t) ==
    /\ pc[t] = "unlockTx"
    /\ cTxLock' = queueUNLOCKED
    /\ Goto(t, "unlockRx")
    /\ UNCHANGED <<uxMessagesWaiting, cRxLock, listVars, suspender, kind,
                   goal, xTicksToWait, elapsed, ucDelayAborted, target,
                   asked, timeVars>>

(* The first critical section of prvUnlockQueue. *)
UnlockTx(t) ==
    LET n == WakeCount(cTxLock, xTasksWaitingToReceive) IN
    /\ pc[t] = "unlockTx"
    /\ xPendingReadyList' =
            xPendingReadyList \o SubSeq(xTasksWaitingToReceive, 1, n)
    /\ xTasksWaitingToReceive' = SubSeq(xTasksWaitingToReceive, n + 1,
                                        Len(xTasksWaitingToReceive))
    /\ cTxLock' = queueUNLOCKED
    /\ Goto(t, "unlockRx")
    /\ UNCHANGED <<uxMessagesWaiting, cRxLock, xTasksWaitingToSend, blocked,
                   suspender, kind, goal, xTicksToWait, elapsed,
                   ucDelayAborted, target, asked, timeVars>>

(* Its second one, for the tasks that wait for space. *)
UnlockRx(t) ==
    LET n == WakeCount(cRxLock, xTasksWaitingToSend) IN
    /\ pc[t] = "unlockRx"
    /\ xPendingReadyList' =
            xPendingReadyList \o SubSeq(xTasksWaitingToSend, 1, n)
    /\ xTasksWaitingToSend' =
            SubSeq(xTasksWaitingToSend, n + 1, Len(xTasksWaitingToSend))
    /\ cRxLock' = queueUNLOCKED
    /\ Goto(t, "resume")
    /\ UNCHANGED <<uxMessagesWaiting, cTxLock, xTasksWaitingToReceive,
                   blocked, suspender, kind, goal, xTicksToWait, elapsed,
                   ucDelayAborted, target, asked, timeVars>>

-----------------------------------------------------------------------------
(* The effect of n counted ticks on the delayed tasks, when S are blocked: *)
(* whoever's wait is over becomes ready and leaves its event list.         *)
Expiring(S, n) == {t \in S : left[t] # MaxDelay /\ left[t] <= n}

(* The time since xTimeOnEntering, as far as xTaskCheckForTimeOut looks at *)
(* it: no further than the wait, and not during a wait without end.        *)
Later(t, n) ==
    IF ~ Timing(t) \/ xTicksToWait[t] = MaxDelay THEN elapsed[t]
    ELSE IF elapsed[t] + n > xTicksToWait[t] THEN xTicksToWait[t]
    ELSE elapsed[t] + n

(* Slip: a task whose wait is over stays on its event list. *)
CountTicksKeepsEvent(S, n) ==
    LET late == Expiring(S, n) IN
    /\ blocked' = S \ late
    /\ left' = [t \in Tasks |-> IF t \notin S \ late THEN 0
                                ELSE IF left[t] = MaxDelay THEN MaxDelay
                                ELSE left[t] - n]
    /\ elapsed' = [t \in Tasks |-> Later(t, n)]
    /\ UNCHANGED <<xTasksWaitingToSend, xTasksWaitingToReceive>>

CountTicks(S, n) ==
    LET late == Expiring(S, n) IN
    /\ blocked' = S \ late
    /\ xTasksWaitingToSend' = Without(xTasksWaitingToSend, late)
    /\ xTasksWaitingToReceive' = Without(xTasksWaitingToReceive, late)
    /\ left' = [t \in Tasks |-> IF t \notin S \ late THEN 0
                                ELSE IF left[t] = MaxDelay THEN MaxDelay
                                ELSE left[t] - n]
    /\ elapsed' = [t \in Tasks |-> Later(t, n)]

(* xTaskResumeAll: the tasks woken meanwhile become ready, then the ticks  *)
(* that came meanwhile are counted.                                        *)
xTaskResumeAll(t) ==
    /\ pc[t] = "resume"
    /\ suspender' = Nobody
    /\ xPendingReadyList' = <<>>
    /\ uxPendedTicks' = 0
    /\ CountTicks(blocked \ Range(xPendingReadyList), uxPendedTicks)
    /\ CASE goal[t] \in {"block", "retry"} -> Goto(t, "try")
         [] goal[t] = "expire" ->
                Goto(t, IF kind[t] = "send" THEN "gaveUp" ELSE "recheck")
         [] goal[t] = "abort" -> Goto(t, "out")
    /\ goal' = [goal EXCEPT ![t] = "none"]
    /\ kind' = [kind EXCEPT ![t] = IF goal[t] = "abort" THEN "none" ELSE @]
    /\ target' = [target EXCEPT ![t] = Nobody]
    /\ UNCHANGED <<queueVars, xTicksToWait, ucDelayAborted, asked,
                   waited>>

(* A receiver whose time is up looks once more before it gives up. *)
RecheckEmpty(t) ==
    /\ pc[t] = "recheck" /\ CanRun(t)
    /\ IF uxMessagesWaiting = 0 THEN ReturnFail(t)
       ELSE /\ Goto(t, "try")
            /\ UNCHANGED <<kind, goal, xTicksToWait, elapsed, ucDelayAborted,
                           target, asked>>
    /\ UNCHANGED <<queueVars, listVars, suspender, timeVars>>

-----------------------------------------------------------------------------
(* Interrupts.  A FromISR call that finds the queue full or empty changes  *)
(* nothing.  While the queue is locked it must not touch the event lists:  *)
(* it counts its item in an int8_t instead, which wraps past LockMax.      *)
Counted(c) == IF c = LockMax THEN -LockMax - 1 ELSE c + 1

xQueueGenericSendFromISR ==
    /\ uxMessagesWaiting < uxLength
    /\ cTxLock < MaxLocked
    /\ uxMessagesWaiting' = uxMessagesWaiting + 1
    /\ IF cTxLock = queueUNLOCKED
       THEN WakeReceiver /\ UNCHANGED cTxLock
       ELSE cTxLock' = Counted(cTxLock) /\ UNCHANGED <<listVars, left>>
    /\ UNCHANGED <<cRxLock, suspender, callVars, uxPendedTicks, waited>>

xQueueReceiveFromISR ==
    /\ uxMessagesWaiting > 0
    /\ cRxLock < MaxLocked
    /\ uxMessagesWaiting' = uxMessagesWaiting - 1
    /\ IF cRxLock = queueUNLOCKED
       THEN WakeSender /\ UNCHANGED cRxLock
       ELSE cRxLock' = Counted(cRxLock) /\ UNCHANGED <<listVars, left>>
    /\ UNCHANGED <<cTxLock, suspender, callVars, uxPendedTicks, waited>>

(* The tick interrupt: counted at once, or pended while the scheduler is   *)
(* suspended.                                                              *)
xTaskIncrementTick ==
    /\ waited' = [t \in Tasks |->
                    IF Timing(t) /\ asked[t] # MaxDelay /\ waited[t] < asked[t]
                    THEN waited[t] + 1 ELSE waited[t]]
    /\ IF suspender = Nobody
       THEN CountTicks(blocked, 1) /\ UNCHANGED uxPendedTicks
       ELSE /\ uxPendedTicks < MaxPended
            /\ uxPendedTicks' = uxPendedTicks + 1
            /\ UNCHANGED <<blocked, xTasksWaitingToSend,
                           xTasksWaitingToReceive, left, elapsed>>
    /\ UNCHANGED <<queueVars, xPendingReadyList, suspender, pc, kind, goal,
                   xTicksToWait, ucDelayAborted, target, asked>>

-----------------------------------------------------------------------------
(* xTaskAbortDelay: suspend the scheduler, see that the task is blocked    *)
(* and take it off its delayed list; take it off the event list or the     *)
(* pending-ready list in a critical section of its own.                    *)
AbortBegin(t, x) ==
    /\ Outside(t) /\ suspender = Nobody /\ t \notin blocked /\ t # x
    /\ suspender' = t
    /\ kind' = [kind EXCEPT ![t] = "abort"]
    /\ target' = [target EXCEPT ![t] = x]
    /\ Goto(t, "abortCheck")
    /\ UNCHANGED <<queueVars, listVars, goal, xTicksToWait, elapsed,
                   ucDelayAborted, asked, timeVars>>

AbortCheck(t) ==
    LET x == target[t] IN
    /\ pc[t] = "abortCheck"
    /\ goal' = [goal EXCEPT ![t] = "abort"]
    /\ blocked' = blocked \ {x}
    /\ left' = [left EXCEPT ![x] = 0]
    /\ Goto(t, IF x \in blocked THEN "abortWake" ELSE "resume")
    /\ UNCHANGED <<queueVars, xTasksWaitingToSend, xTasksWaitingToReceive,
                   xPendingReadyList, suspender, kind, xTicksToWait, elapsed,
                   ucDelayAborted, target, asked, uxPendedTicks, waited>>

AbortWake(t) ==
    LET x == target[t]
        listed == x \in Range(xTasksWaitingToSend)
                        \cup Range(xTasksWaitingToReceive)
                        \cup Range(xPendingReadyList)
    IN  /\ pc[t] = "abortWake"
        /\ xTasksWaitingToSend' = Without(xTasksWaitingToSend, {x})
        /\ xTasksWaitingToReceive' = Without(xTasksWaitingToReceive, {x})
        /\ xPendingReadyList' = Without(xPendingReadyList, {x})
        /\ ucDelayAborted' = [ucDelayAborted EXCEPT ![x] = @ \/ listed]
        /\ Goto(t, "resume")
        /\ UNCHANGED <<queueVars, blocked, suspender, kind, goal,
                       xTicksToWait, elapsed, target, asked,
                       timeVars>>

(* xQueueReset: the queue is empty again, and one sender is let in. *)
xQueueGenericReset(t) ==
    /\ Outside(t) /\ suspender = Nobody /\ t \notin blocked
    /\ uxMessagesWaiting' = 0
    /\ cTxLock' = queueUNLOCKED /\ cRxLock' = queueUNLOCKED
    /\ WakeSender
    /\ UNCHANGED <<suspender, callVars, uxPendedTicks, waited>>

-----------------------------------------------------------------------------
(* The rounds of the for loop that the three calls share. *)
Blocking(t) ==
    \/ TryFails(t)
    \/ vTaskSuspendAll(t) \/ prvLockQueue(t) \/ xTaskCheckForTimeOut(t)
    \/ CheckAgain(t) \/ vTaskPlaceOnEventList(t)
    \/ UnlockTx(t) \/ UnlockRx(t) \/ xTaskResumeAll(t)
    \/ RecheckEmpty(t)

TaskStep(t) ==
    /\ UNCHANGED program
    /\ \/ SendSucceeds(t) \/ ReceiveSucceeds(t) \/ PeekSucceeds(t)
       \/ Blocking(t)
       \/ AbortCheck(t) \/ AbortWake(t)

Begin(t) ==
    /\ UNCHANGED program
    /\ \/ \E k \in program.calls[t] \cap Kinds, w \in Waits : Call(t, k, w)
       \/ "abort" \in program.calls[t] /\ \E x \in Tasks : AbortBegin(t, x)
       \/ "reset" \in program.calls[t] /\ xQueueGenericReset(t)

Tick == UNCHANGED program /\ xTaskIncrementTick

Interrupt ==
    \/ Tick
    \/ /\ UNCHANGED program
       /\ xQueueGenericSendFromISR \/ xQueueReceiveFromISR

Next == Interrupt \/ \E t \in Tasks : TaskStep(t) \/ Begin(t)

Spec == Init /\ [][Next]_vars

-----------------------------------------------------------------------------
TypeOK ==
    /\ uxMessagesWaiting \in 0..uxLength
    /\ cTxLock \in (-LockMax - 1)..LockMax
    /\ cRxLock \in (-LockMax - 1)..LockMax
    /\ xTasksWaitingToSend \in Seq(Tasks)
    /\ xTasksWaitingToReceive \in Seq(Tasks)
    /\ xPendingReadyList \in Seq(Tasks)
    /\ suspender \in Tasks \cup {Nobody}
    /\ uxPendedTicks \in 0..MaxPended
    /\ blocked \subseteq Tasks
    /\ pc \in [Tasks -> {"out", "gaveUp", "enter", "try", "failed",
                         "suspended", "locked", "check", "place", "unlockTx",
                         "unlockRx", "resume", "recheck", "abortCheck",
                         "abortWake"}]
    /\ kind \in [Tasks -> Kinds \cup {"none", "abort"}]
    /\ goal \in [Tasks -> {"none", "block", "retry", "expire", "abort"}]
    /\ xTicksToWait \in [Tasks -> 0..MaxDelay]
    /\ elapsed \in [Tasks -> 0..MaxDelay]
    /\ left \in [Tasks -> 0..MaxDelay]
    /\ ucDelayAborted \in [Tasks -> BOOLEAN]
    /\ target \in [Tasks -> Tasks \cup {Nobody}]
    /\ asked \in [Tasks -> 0..MaxDelay]
    /\ waited \in [Tasks -> 0..MaxDelay]

(* The steps only the suspender of the scheduler takes. *)
Exclusive == {"suspended", "locked", "check", "place", "unlockTx",
              "unlockRx", "resume", "abortCheck", "abortWake"}

(* Every wait can end (queue.c:876-915, tasks.c:2984-3049).  A blocked     *)
(* task is on one list an event takes it from, once; nobody else is on     *)
(* such a list, but for the task an aborter is about to take off.  Tasks   *)
(* are pending ready, and ticks pended, only while the scheduler is        *)
(* suspended; the queue is locked only then.                               *)
Waiting == xTasksWaitingToSend \o xTasksWaitingToReceive \o xPendingReadyList

ListsConsistent ==
    /\ TypeOK
    /\ IsInjective(Waiting)
    /\ blocked \subseteq Range(Waiting)
    /\ \A t \in Range(Waiting) \ blocked :
            \E a \in Tasks : pc[a] = "abortWake" /\ target[a] = t
    /\ \A t \in Tasks : pc[t] \in Exclusive <=> suspender = t
    /\ suspender = Nobody =>
            /\ xPendingReadyList = <<>> /\ uxPendedTicks = 0
            /\ cTxLock = queueUNLOCKED /\ cRxLock = queueUNLOCKED

(* The tasks woken (or timed out) that look at the queue before anything   *)
(* else: on their way out of the pending-ready list or back in the loop.   *)
Coming(S) ==
    {t \in Tasks : kind[t] \in S /\
        \/ t \in Range(xPendingReadyList)
        \/ t \notin blocked /\ pc[t] \in {"try", "recheck"}}

(* No lost wake-up: as long as some receiver stays asleep, every item in   *)
(* the queue has a woken receiver that is coming for it; as long as some   *)
(* sender stays asleep, every free place has a woken sender coming.        *)
NoLostWakeup ==
    suspender = Nobody =>
        /\ xTasksWaitingToReceive # <<>> =>
              uxMessagesWaiting <= Cardinality(Coming({"receive", "peek"}))
        /\ xTasksWaitingToSend # <<>> =>
              uxLength - uxMessagesWaiting <= Cardinality(Coming({"send"}))

(* A call that reports a full or an empty queue has waited as many ticks   *)
(* as its caller asked for, pended ticks included; a call told to wait     *)
(* for ever never reports it.  (Not so in programs that abort delays: the  *)
(* flag xTaskAbortDelay leaves behind can end a later wait.)               *)
NeverEarly ==
    \A t \in Tasks :
        (pc[t] = "gaveUp" /\ \A u \in Tasks : "abort" \notin program.calls[u])
            => asked[t] # MaxDelay /\ waited[t] >= asked[t]

(* A call with a finite block time comes back, whatever the other tasks    *)
(* and the interrupts do meanwhile: the time-out bounds the whole loop,    *)
(* not one round of it.                                                    *)
TimedCallsReturn ==
    \A t \in Tasks :
        (~ Outside(t) /\ asked[t] # MaxDelay) ~> Outside(t)

(* A sleeping receiver and an item do not stay together for ever.          *)
ItemsMeetReceivers ==
    (xTasksWaitingToReceive # <<>> /\ uxMessagesWaiting > 0)
        ~> (xTasksWaitingToReceive = <<>> \/ uxMessagesWaiting = 0)
=============================================================================
