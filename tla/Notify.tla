------------------------------- MODULE Notify -------------------------------
(***************************************************************************)
(* Task notifications (freeRtos/Source/tasks.c) of one task that takes or  *)
(* waits for them, while other tasks and interrupt handlers notify it,     *)
(* suspend and resume it, and suspend the scheduler.                       *)
(*                                                                         *)
(* The two critical sections of ulTaskNotifyTake and xTaskNotifyWait are   *)
(* two steps of the task; everything else is one critical section, or runs *)
(* with interrupts masked.  The notified value has two bits.               *)
(***************************************************************************)
EXTENDS Naturals

CONSTANTS
    Masks           \* the bits xTaskNotifyWait clears, and eSetBits sets

NotifiedValues == 0..3          \* uint32_t
ASSUME MasksAssumption == Masks \subseteq NotifiedValues
eActions == {"eNoAction", "eSetBits", "eIncrement",
             "eSetValueWithOverwrite", "eSetValueWithoutOverwrite"}

VARIABLES
    ulNotifiedValue,
    ucNotifyState,      \* "not", "waiting" or "received"
    xStateListItem,     \* the list the task is on: "ready", "delayed", "suspended"
    xPendingReady,      \* how often xEventListItem is on xPendingReadyList
    uxSchedulerSuspended,
    call,               \* the call the task is between the two sections of
    held,               \* the task was suspended and not resumed
    asserted            \* a configASSERT has ended the program

notifyVars == <<ulNotifiedValue, ucNotifyState, xStateListItem, xPendingReady,
                uxSchedulerSuspended, call, held, asserted>>

NoCall == [name |-> "none"]
Calls == {[name |-> "take", clear |-> c] : c \in BOOLEAN}
         \cup {[name |-> "wait", entry |-> m, exit |-> n] : m, n \in Masks}

Bit(v, i) == IF i = 0 THEN v % 2 ELSE v \div 2
Or(a, b) == CHOOSE v \in NotifiedValues :
    \A i \in 0..1 : Bit(v, i) = IF Bit(a, i) + Bit(b, i) > 0 THEN 1 ELSE 0
AndNot(a, b) == CHOOSE v \in NotifiedValues :
    \A i \in 0..1 : Bit(v, i) = IF Bit(b, i) = 1 THEN 0 ELSE Bit(a, i)

NotifyInit ==
    /\ ulNotifiedValue = 0 /\ ucNotifyState = "not"
    /\ xStateListItem = "ready" /\ xPendingReady = 0
    /\ uxSchedulerSuspended = FALSE
    /\ call = NoCall /\ held = FALSE /\ asserted = FALSE

TaskRuns == xStateListItem = "ready" /\ ~ uxSchedulerSuspended

(* A wait of zero ticks marks the task as waiting and does not block it;   *)
(* portMAX_DELAY puts it on xSuspendedTaskList.                            *)
Block(entry) ==
    /\ ucNotifyState' = "waiting"
    /\ ulNotifiedValue' = AndNot(ulNotifiedValue, entry)
    /\ xStateListItem' \in {"ready", "delayed", "suspended"}

NotifyBegin(c) ==
    /\ TaskRuns /\ call = NoCall
    /\ call' = c
    /\ CASE c.name = "take" /\ ulNotifiedValue = 0 -> Block(0)
         [] c.name = "wait" /\ ucNotifyState # "received" -> Block(c.entry)
         [] OTHER -> UNCHANGED <<ulNotifiedValue, ucNotifyState, xStateListItem>>
    /\ UNCHANGED <<xPendingReady, uxSchedulerSuspended, held, asserted>>

ulTaskNotifyTakeEnds ==
    /\ call.name = "take"
    /\ ulNotifiedValue' = IF call.clear \/ ulNotifiedValue = 0 THEN 0
                          ELSE ulNotifiedValue - 1

xTaskNotifyWaitEnds ==
    /\ call.name = "wait"
    /\ ulNotifiedValue' = IF ucNotifyState # "received" THEN ulNotifiedValue
                          ELSE AndNot(ulNotifiedValue, call.exit)

NotifyEnd ==
    /\ TaskRuns
    /\ ulTaskNotifyTakeEnds \/ xTaskNotifyWaitEnds
    /\ ucNotifyState' = "not"
    /\ call' = NoCall
    /\ UNCHANGED <<xStateListItem, xPendingReady, uxSchedulerSuspended, held, asserted>>

Update(action, v) ==
    ulNotifiedValue' =
        CASE action = "eSetBits" -> Or(ulNotifiedValue, v)
          [] action = "eIncrement" -> (ulNotifiedValue + 1) % 4
          [] action = "eSetValueWithOverwrite" -> v
          [] action = "eSetValueWithoutOverwrite" /\ ucNotifyState # "received" -> v
          [] OTHER -> ulNotifiedValue

(* Also called by the task that has suspended the scheduler itself.        *)
xTaskGenericNotify(action, v) ==
    /\ Update(action, v)
    /\ ucNotifyState' = "received"
    /\ xStateListItem' = IF ucNotifyState = "waiting" THEN "ready" ELSE xStateListItem
    /\ asserted' = (ucNotifyState = "waiting" /\ xPendingReady > 0)
    /\ UNCHANGED <<xPendingReady, uxSchedulerSuspended, call, held>>

(* Slip: with the scheduler suspended the task is left where it is. *)
WakeUnlessSuspended ==
    /\ asserted' = (xPendingReady > 0)
    /\ xStateListItem' = IF uxSchedulerSuspended THEN xStateListItem ELSE "ready"
    /\ UNCHANGED xPendingReady

(* An interrupt handler may not touch the ready lists while the scheduler  *)
(* is suspended.                                                           *)
WakeFromISR ==
    /\ asserted' = (xPendingReady > 0)
    /\ IF uxSchedulerSuspended
       THEN xPendingReady' = xPendingReady + 1 /\ UNCHANGED xStateListItem
       ELSE xStateListItem' = "ready" /\ UNCHANGED xPendingReady

(* vTaskNotifyGiveFromISR is xTaskGenericNotifyFromISR with eIncrement.    *)
xTaskGenericNotifyFromISR(action, v) ==
    /\ Update(action, v)
    /\ ucNotifyState' = "received"
    /\ IF ucNotifyState = "waiting" THEN WakeFromISR
       ELSE UNCHANGED <<xStateListItem, xPendingReady, asserted>>
    /\ UNCHANGED <<uxSchedulerSuspended, call, held>>

xTaskNotifyStateClear ==
    /\ ucNotifyState = "received"
    /\ ucNotifyState' = "not"
    /\ UNCHANGED <<ulNotifiedValue, xStateListItem, xPendingReady,
                   uxSchedulerSuspended, call, held, asserted>>

NotifySuspendAll ==
    /\ ~ uxSchedulerSuspended
    /\ uxSchedulerSuspended' = TRUE
    /\ UNCHANGED <<ulNotifiedValue, ucNotifyState, xStateListItem, xPendingReady,
                   call, held, asserted>>

NotifyResumeAll ==
    /\ uxSchedulerSuspended
    /\ uxSchedulerSuspended' = FALSE
    /\ xStateListItem' = IF xPendingReady > 0 THEN "ready" ELSE xStateListItem
    /\ xPendingReady' = 0
    /\ UNCHANGED <<ulNotifiedValue, ucNotifyState, call, held, asserted>>

(* The tick at which the block time ends. *)
NotifyTimeOut ==
    /\ xStateListItem = "delayed" /\ ~ uxSchedulerSuspended
    /\ xStateListItem' = "ready"
    /\ UNCHANGED <<ulNotifiedValue, ucNotifyState, xPendingReady,
                   uxSchedulerSuspended, call, held, asserted>>

(* Slip: a suspended task goes on waiting for its notification. *)
SuspendKeepsWaiting ==
    /\ xStateListItem' = "suspended" /\ xPendingReady' = 0 /\ held' = TRUE
    /\ UNCHANGED <<ulNotifiedValue, ucNotifyState, uxSchedulerSuspended, call, asserted>>

(* vTaskSuspend takes the task off every list and ends its wait. *)
NotifySuspendTask ==
    /\ xStateListItem' = "suspended" /\ xPendingReady' = 0 /\ held' = TRUE
    /\ ucNotifyState' = IF ucNotifyState = "waiting" THEN "not" ELSE ucNotifyState
    /\ UNCHANGED <<ulNotifiedValue, uxSchedulerSuspended, call, asserted>>

(* prvTaskIsTaskSuspended: a task that blocks for ever on a notification   *)
(* looks like one that is suspended.                                       *)
LooksSuspended == xStateListItem = "suspended" /\ xPendingReady = 0

NotifyResumeTask ==
    /\ LooksSuspended
    /\ xStateListItem' = "ready" /\ held' = FALSE
    /\ UNCHANGED <<ulNotifiedValue, ucNotifyState, xPendingReady,
                   uxSchedulerSuspended, call, asserted>>

(* Only a task that was suspended is resumed from an interrupt: one that   *)
(* waits for ever for a notification would come onto xPendingReadyList and *)
(* the next notification fail the assertion of tasks.c:4742.               *)
NotifyResumeTaskFromISR ==
    /\ LooksSuspended
    /\ held
    /\ held' = FALSE
    /\ IF uxSchedulerSuspended
       THEN xPendingReady' = xPendingReady + 1 /\ UNCHANGED xStateListItem
       ELSE xStateListItem' = "ready" /\ UNCHANGED xPendingReady
    /\ UNCHANGED <<ulNotifiedValue, ucNotifyState, uxSchedulerSuspended, call, asserted>>

NotifyNext ==
    /\ ~ asserted
    /\ \/ \E c \in Calls : NotifyBegin(c)
       \/ NotifyEnd
       \/ \E a \in eActions, v \in Masks :
             xTaskGenericNotify(a, v) \/ xTaskGenericNotifyFromISR(a, v)
       \/ xTaskNotifyStateClear \/ NotifyTimeOut
       \/ NotifySuspendAll \/ NotifyResumeAll
       \/ NotifySuspendTask \/ NotifyResumeTask \/ NotifyResumeTaskFromISR

NotifySpec == NotifyInit /\ [][NotifyNext]_notifyVars

-----------------------------------------------------------------------------
NotifyTypeOK ==
    /\ ulNotifiedValue \in NotifiedValues
    /\ ucNotifyState \in {"not", "waiting", "received"}
    /\ xStateListItem \in {"ready", "delayed", "suspended"}
    /\ xPendingReady \in 0..2
    /\ uxSchedulerSuspended \in BOOLEAN
    /\ call \in Calls \cup {NoCall}
    /\ held \in BOOLEAN /\ asserted \in BOOLEAN

(* A task sleeps exactly for the reason it was put to sleep: nobody who    *)
(* notifies a task leaves it asleep, also not an interrupt handler while   *)
(* the scheduler is suspended, and no notification lifts a suspension      *)
(* (tasks.c:4622, tasks.c:4744, tasks.c:1665).                             *)
Asleep == xStateListItem # "ready" /\ xPendingReady = 0

SleepsForAReason ==
    /\ NotifyTypeOK
    /\ Asleep /\ ~ held =>
          /\ ucNotifyState = "waiting"
          /\ call.name = "take" => ulNotifiedValue = 0
    /\ held => Asleep
    /\ ~ asserted
=============================================================================
