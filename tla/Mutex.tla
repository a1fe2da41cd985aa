------------------------------- MODULE Mutex --------------------------------
(***************************************************************************)
(* Mutexes and priority inheritance: xQueueSemaphoreTake, xQueueGenericSend *)
(* and the recursive forms on a mutex (freeRtos/Source/queue.c) with        *)
(* xTaskPriorityInherit, xTaskPriorityDisinherit,                           *)
(* vTaskPriorityDisinheritAfterTimeout and vTaskPrioritySet (tasks.c).      *)
(*                                                                          *)
(* The scheduler is preemptive by priority: a task takes a step only while  *)
(* no ready task has a higher priority; among equals any may run.  One step *)
(* is a critical section, or all that xQueueSemaphoreTake does between      *)
(* vTaskSuspendAll and xTaskResumeAll: no interrupt touches a mutex, so     *)
(* nobody can see that stretch half done (Queue has its details).  A wait   *)
(* with a time-out may expire at any moment.                                *)
(***************************************************************************)
EXTENDS EventList

CONSTANTS
    Tasks, Mutexes,
    Recursive,      \* the mutexes used through the recursive calls
    Priorities,     \* [Tasks -> Nat], as created
    Programs,       \* what the application may be (see ProgramsAssumption)
    MaxDepth        \* bound: nested recursive takes

WaitKinds == {"none", "timed", "forever"}
Nobody == "nobody"

ASSUME TasksAssumption == Nobody \notin Tasks
ASSUME PrioritiesAssumption == Priorities \in [Tasks -> Nat]
ASSUME MutexesAssumption ==
    /\ IsFiniteSet(Mutexes) /\ Recursive \subseteq Mutexes
    /\ MaxDepth \in Nat \ {0}

(* The mutexes a program uses and how many a task holds at a time, the      *)
(* block times it passes, those of a task that holds a mutex already, and   *)
(* what it calls vTaskPrioritySet with.                                     *)
ASSUME ProgramsAssumption ==
    Programs \subseteq [mutexes : (SUBSET Mutexes) \ {{}},
                        maxHeld : [Tasks -> Nat],
                        waits : SUBSET WaitKinds, nested : SUBSET WaitKinds,
                        priorities : SUBSET Nat]

VARIABLES
    program,                \* the program that runs; it never changes
    uxMessagesWaiting,      \* per mutex: 1 when it is free
    pxMutexHolder,
    uxRecursiveCallCount,
    xTasksWaitingToReceive, \* per mutex its event list
    uxPriority, uxBasePriority,
    eventPriority,          \* configMAX_PRIORITIES - the event item value
    uxMutexesHeld,
    blocked,
    pc, wanted,             \* where a task is in a call, and on which mutex
    xTicksToWait, xInheritanceOccurred

mutexVars == <<uxMessagesWaiting, pxMutexHolder, uxRecursiveCallCount>>
prioVars == <<uxPriority, uxBasePriority, eventPriority>>
callVars == <<wanted, xTicksToWait, xInheritanceOccurred>>
vars == <<program, mutexVars, xTasksWaitingToReceive, prioVars, uxMutexesHeld,
          blocked, pc, callVars>>

Init ==
    /\ program \in Programs
    /\ uxMessagesWaiting = [m \in Mutexes |-> 1]
    /\ pxMutexHolder = [m \in Mutexes |-> Nobody]
    /\ uxRecursiveCallCount = [m \in Mutexes |-> 0]
    /\ xTasksWaitingToReceive = [m \in Mutexes |-> <<>>]
    /\ uxPriority = Priorities /\ uxBasePriority = Priorities
    /\ eventPriority = Priorities
    /\ uxMutexesHeld = [t \in Tasks |-> 0]
    /\ blocked = {}
    /\ pc = [t \in Tasks |-> "out"]
    /\ wanted = [t \in Tasks |-> CHOOSE m \in program.mutexes : TRUE]
    /\ xTicksToWait = [t \in Tasks |-> "none"]
    /\ xInheritanceOccurred = [t \in Tasks |-> FALSE]

(* A failed configASSERT ends the program (project/simRtos.c:101). *)
Running == \A t \in Tasks : pc[t] # "assert"

CanRun(t) ==
    /\ Running
    /\ t \notin blocked
    /\ \A u \in Tasks \ blocked : uxPriority[u] <= uxPriority[t]

At(t, l) == pc[t] = l /\ CanRun(t)
Goto(t, l) == pc' = [pc EXCEPT ![t] = l]
Greater(a, b) == IF a > b THEN a ELSE b

-----------------------------------------------------------------------------
(* xSemaphoreTake, or xSemaphoreTakeRecursive of a mutex it does not hold. *)
BeginTake(t, m, w) ==
    /\ At(t, "out") /\ m \in program.mutexes /\ pxMutexHolder[m] # t
    /\ uxMutexesHeld[t] < program.maxHeld[t]
    /\ w \in (IF uxMutexesHeld[t] = 0 THEN program.waits
              ELSE program.nested)
    /\ Goto(t, "try")
    /\ wanted' = [wanted EXCEPT ![t] = m]
    /\ xTicksToWait' = [xTicksToWait EXCEPT ![t] = w]
    /\ xInheritanceOccurred' = [xInheritanceOccurred EXCEPT ![t] = FALSE]
    /\ UNCHANGED <<mutexVars, xTasksWaitingToReceive, prioVars, uxMutexesHeld,
                   blocked>>

(* Slip: a take that does not make the task the holder. *)
TakeNotHeld(t) ==
    LET m == wanted[t] IN
    /\ At(t, "try") /\ uxMessagesWaiting[m] = 1
    /\ uxMessagesWaiting' = [uxMessagesWaiting EXCEPT ![m] = 0]
    /\ uxMutexesHeld' = [uxMutexesHeld EXCEPT ![t] = @ + 1]
    /\ Goto(t, IF m \in Recursive THEN "taken" ELSE "out")
    /\ UNCHANGED <<pxMutexHolder, uxRecursiveCallCount,
                   xTasksWaitingToReceive, prioVars, blocked, callVars>>

(* The critical section at the top of the loop.  Nobody ever waits to send  *)
(* to a mutex, as a give does not block.                                    *)
TakeSucceeds(t) ==
    LET m == wanted[t] IN
    /\ At(t, "try") /\ uxMessagesWaiting[m] = 1
    /\ uxMessagesWaiting' = [uxMessagesWaiting EXCEPT ![m] = 0]
    /\ pxMutexHolder' = [pxMutexHolder EXCEPT ![m] = t]
    /\ uxMutexesHeld' = [uxMutexesHeld EXCEPT ![t] = @ + 1]
    /\ Goto(t, IF m \in Recursive THEN "taken" ELSE "out")
    /\ UNCHANGED <<uxRecursiveCallCount, xTasksWaitingToReceive, prioVars,
                   blocked, callVars>>

(* A call that does not wait is asserted to have raised nobody's priority. *)
TakeFails(t) ==
    /\ At(t, "try") /\ uxMessagesWaiting[wanted[t]] = 0
    /\ Goto(t, IF xTicksToWait[t] # "none" THEN "failed"
               ELSE IF xInheritanceOccurred[t] THEN "assert" ELSE "out")
    /\ UNCHANGED <<mutexVars, xTasksWaitingToReceive, prioVars, uxMutexesHeld,
                   blocked, callVars>>

(* Slip: nobody inherits. *)
InheritNothing(h, t) ==
    /\ xInheritanceOccurred' = [xInheritanceOccurred EXCEPT ![t] = FALSE]
    /\ UNCHANGED <<uxPriority, eventPriority>>

(* The holder h gets the caller's priority when its own is lower; also when *)
(* it has inherited one already, somebody's wait depends on it.             *)
xTaskPriorityInherit(h, t) ==
    IF uxPriority[h] < uxPriority[t]
    THEN /\ uxPriority' = [uxPriority EXCEPT ![h] = uxPriority[t]]
         /\ eventPriority' = [eventPriority EXCEPT ![h] = uxPriority[t]]
         /\ xInheritanceOccurred' = [xInheritanceOccurred EXCEPT ![t] = TRUE]
    ELSE /\ xInheritanceOccurred' =
                [xInheritanceOccurred EXCEPT ![t] =
                    uxBasePriority[h] < uxPriority[t]]
         /\ UNCHANGED <<uxPriority, eventPriority>>

(* vListInsert: behind the tasks that do not have a lower event value. *)
InsertByPriority(q, t) ==
    InsertBefore(q, t, {u \in Tasks : eventPriority[u] < eventPriority[t]})

Block(t) ==
    LET m == wanted[t] IN
    /\ At(t, "failed") /\ uxMessagesWaiting[m] = 0
    /\ xTaskPriorityInherit(pxMutexHolder[m], t)
    /\ xTasksWaitingToReceive' =
            [xTasksWaitingToReceive EXCEPT ![m] = InsertByPriority(@, t)]
    /\ blocked' = blocked \cup {t}
    /\ Goto(t, "try")
    /\ UNCHANGED <<mutexVars, uxBasePriority, uxMutexesHeld, wanted,
                   xTicksToWait>>

Retry(t) ==
    /\ At(t, "failed") /\ uxMessagesWaiting[wanted[t]] = 1
    /\ Goto(t, "try")
    /\ UNCHANGED <<mutexVars, xTasksWaitingToReceive, prioVars, uxMutexesHeld,
                   blocked, callVars>>

(* xTaskCheckForTimeOut leaves no time to wait. *)
Expire(t) ==
    /\ At(t, "failed") /\ xTicksToWait[t] = "timed"
    /\ xTicksToWait' = [xTicksToWait EXCEPT ![t] = "none"]
    /\ Goto(t, "timedOut")
    /\ UNCHANGED <<mutexVars, xTasksWaitingToReceive, prioVars, uxMutexesHeld,
                   blocked, wanted, xInheritanceOccurred>>

(* The tick that ends the delay of a blocked task. *)
TimeOut(t) ==
    /\ Running
    /\ t \in blocked /\ pc[t] = "try" /\ xTicksToWait[t] = "timed"
    /\ blocked' = blocked \ {t}
    /\ \E k \in DOMAIN xTasksWaitingToReceive[wanted[t]] :
          /\ xTasksWaitingToReceive[wanted[t]][k] = t
          /\ xTasksWaitingToReceive' =
                [xTasksWaitingToReceive EXCEPT ![wanted[t]] = RemoveAt(@, k)]
    /\ UNCHANGED <<mutexVars, prioVars, uxMutexesHeld, pc, callVars>>

(* After the time-out, prvIsQueueEmpty in a critical section of its own. *)
LookAgain(t) ==
    /\ At(t, "timedOut")
    /\ Goto(t, IF uxMessagesWaiting[wanted[t]] = 1 THEN "try"
               ELSE IF xInheritanceOccurred[t] THEN "disinherit" ELSE "out")
    /\ UNCHANGED <<mutexVars, xTasksWaitingToReceive, prioVars, uxMutexesHeld,
                   blocked, callVars>>

(* Slip: whoever still waits is not considered. *)
NobodyElseWaits(m) == 0

prvGetDisinheritPriorityAfterTimeout(m) ==
    IF xTasksWaitingToReceive[m] = <<>> THEN 0
    ELSE eventPriority[Head(xTasksWaitingToReceive[m])]

(* Slip: a waiter that gives up leaves its priority behind. *)
KeepInherited(t) ==
    /\ At(t, "disinherit")
    /\ Goto(t, "out")
    /\ UNCHANGED <<mutexVars, xTasksWaitingToReceive, prioVars,
                   uxMutexesHeld, blocked, callVars>>

(* The holder, if there is one by now, falls back to the highest priority   *)
(* still waiting, but only if it holds no other mutex.                      *)
vTaskPriorityDisinheritAfterTimeout(t) ==
    LET h == pxMutexHolder[wanted[t]]
        prio == Greater(uxBasePriority[h],
                        prvGetDisinheritPriorityAfterTimeout(wanted[t]))
    IN  /\ At(t, "disinherit")
        /\ IF h # Nobody /\ uxMutexesHeld[h] = 1
           THEN /\ uxPriority' = [uxPriority EXCEPT ![h] = prio]
                /\ eventPriority' = [eventPriority EXCEPT ![h] =
                                        IF uxPriority[h] # prio THEN prio
                                        ELSE @]
           ELSE UNCHANGED <<uxPriority, eventPriority>>
        /\ Goto(t, "out")
        /\ UNCHANGED <<mutexVars, xTasksWaitingToReceive, uxBasePriority,
                       uxMutexesHeld, blocked, callVars>>

-----------------------------------------------------------------------------
(* Slip: the mutexes held are counted after the test for the last one. *)
DisinheritTooLate(t) ==
    LET restore == uxPriority[t] # uxBasePriority[t] /\ uxMutexesHeld[t] = 0
    IN  /\ uxMutexesHeld' = [uxMutexesHeld EXCEPT ![t] = @ - 1]
        /\ uxPriority' = [uxPriority EXCEPT ![t] =
                             IF restore THEN uxBasePriority[t] ELSE @]
        /\ eventPriority' = [eventPriority EXCEPT ![t] =
                                IF restore THEN uxBasePriority[t] ELSE @]

(* The inherited priority goes with the last mutex. *)
xTaskPriorityDisinherit(t) ==
    LET restore == uxPriority[t] # uxBasePriority[t] /\ uxMutexesHeld[t] = 1
    IN  /\ uxMutexesHeld' = [uxMutexesHeld EXCEPT ![t] = @ - 1]
        /\ uxPriority' = [uxPriority EXCEPT ![t] =
                             IF restore THEN uxBasePriority[t] ELSE @]
        /\ eventPriority' = [eventPriority EXCEPT ![t] =
                                IF restore THEN uxBasePriority[t] ELSE @]

(* Slip: the mutex is free, but nobody is told. *)
GiveWakesNobody(t, m) ==
    /\ pxMutexHolder[m] = t
    /\ xTaskPriorityDisinherit(t)
    /\ pxMutexHolder' = [pxMutexHolder EXCEPT ![m] = Nobody]
    /\ uxMessagesWaiting' = [uxMessagesWaiting EXCEPT ![m] = 1]
    /\ UNCHANGED <<xTasksWaitingToReceive, blocked>>

(* xQueueGenericSend on a mutex: the first waiting task becomes ready. *)
GiveMutex(t, m) ==
    LET q == xTasksWaitingToReceive[m] IN
    /\ pxMutexHolder[m] = t
    /\ xTaskPriorityDisinherit(t)
    /\ pxMutexHolder' = [pxMutexHolder EXCEPT ![m] = Nobody]
    /\ uxMessagesWaiting' = [uxMessagesWaiting EXCEPT ![m] = 1]
    /\ IF q = <<>> THEN UNCHANGED <<xTasksWaitingToReceive, blocked>>
       ELSE /\ xTasksWaitingToReceive' =
                    [xTasksWaitingToReceive EXCEPT ![m] = Tail(q)]
            /\ blocked' = blocked \ {Head(q)}

Give(t, m) ==
    /\ At(t, "out") /\ m \notin Recursive
    /\ GiveMutex(t, m)
    /\ UNCHANGED <<uxRecursiveCallCount, uxBasePriority, pc, callVars>>

(* xQueueTakeMutexRecursive counts after the take, and again at once when   *)
(* the caller is the holder.                                                *)
CountTake(t) ==
    /\ At(t, "taken")
    /\ uxRecursiveCallCount' =
            [uxRecursiveCallCount EXCEPT ![wanted[t]] = @ + 1]
    /\ Goto(t, "out")
    /\ UNCHANGED <<uxMessagesWaiting, pxMutexHolder, xTasksWaitingToReceive,
                   prioVars, uxMutexesHeld, blocked, callVars>>

TakeAgain(t, m) ==
    /\ At(t, "out") /\ m \in Recursive /\ pxMutexHolder[m] = t
    /\ uxRecursiveCallCount[m] < MaxDepth
    /\ uxRecursiveCallCount' = [uxRecursiveCallCount EXCEPT ![m] = @ + 1]
    /\ UNCHANGED <<uxMessagesWaiting, pxMutexHolder, xTasksWaitingToReceive,
                   prioVars, uxMutexesHeld, blocked, pc, callVars>>

(* xQueueGiveMutexRecursive gives the mutex when the count is back at zero. *)
xQueueGiveMutexRecursive(t, m) ==
    /\ At(t, "out") /\ m \in Recursive /\ pxMutexHolder[m] = t
    /\ uxRecursiveCallCount' = [uxRecursiveCallCount EXCEPT ![m] = @ - 1]
    /\ wanted' = [wanted EXCEPT ![t] = m]
    /\ Goto(t, IF uxRecursiveCallCount[m] = 1 THEN "give" ELSE "out")
    /\ UNCHANGED <<uxMessagesWaiting, pxMutexHolder, xTasksWaitingToReceive,
                   prioVars, uxMutexesHeld, blocked, xTicksToWait,
                   xInheritanceOccurred>>

GiveRecursive(t) ==
    /\ At(t, "give")
    /\ GiveMutex(t, wanted[t])
    /\ Goto(t, "out")
    /\ UNCHANGED <<uxRecursiveCallCount, uxBasePriority, callVars>>

-----------------------------------------------------------------------------
(* A task blocks for another reason, and an interrupt readies it. *)
Sleep(t) ==
    /\ At(t, "out")
    /\ blocked' = blocked \cup {t}
    /\ UNCHANGED <<mutexVars, xTasksWaitingToReceive, prioVars, uxMutexesHeld,
                   pc, callVars>>

Wake(t) ==
    /\ Running
    /\ t \in blocked /\ pc[t] = "out"
    /\ blocked' = blocked \ {t}
    /\ UNCHANGED <<mutexVars, xTasksWaitingToReceive, prioVars, uxMutexesHeld,
                   pc, callVars>>

(* Any running task sets the priority of any task.  An inherited priority   *)
(* stays in use, but the event list item gets the new one.                  *)
vTaskPrioritySet(t, p) ==
    /\ p \in program.priorities /\ \E u \in Tasks : At(u, "out")
    /\ uxBasePriority[t] # p
    /\ uxPriority' = [uxPriority EXCEPT ![t] =
                         IF uxBasePriority[t] = @ THEN p ELSE @]
    /\ uxBasePriority' = [uxBasePriority EXCEPT ![t] = p]
    /\ eventPriority' = [eventPriority EXCEPT ![t] = p]
    /\ UNCHANGED <<mutexVars, xTasksWaitingToReceive, uxMutexesHeld, blocked,
                   pc, callVars>>

(* What a task does once it has called; and that it gives its mutexes back. *)
CallStep(t) ==
    \/ TakeSucceeds(t) \/ TakeFails(t)
    \/ Block(t) \/ Retry(t) \/ Expire(t)
    \/ LookAgain(t) \/ vTaskPriorityDisinheritAfterTimeout(t)
    \/ CountTake(t) \/ GiveRecursive(t)
    \/ \E m \in Mutexes : Give(t, m) \/ xQueueGiveMutexRecursive(t, m)

Next ==
    /\ UNCHANGED program
    /\ \E t \in Tasks :
        \/ CallStep(t) \/ TimeOut(t) \/ Sleep(t) \/ Wake(t)
        \/ \E m \in Mutexes : TakeAgain(t, m)
        \/ \E m \in Mutexes, w \in WaitKinds : BeginTake(t, m, w)
        \/ \E p \in program.priorities : vTaskPrioritySet(t, p)

Spec == Init /\ [][Next]_vars

(* A task that can run again and again gets on with its call, and gives     *)
(* back what it holds: whatever else a holder waits for does happen.        *)
(* Nothing is assumed of a task that a busy one of a higher priority keeps  *)
(* from running, nor of how long that one is busy.                          *)
HolderWakes(t) == uxMutexesHeld[t] > 0 /\ Wake(t)
FairSpec ==
    /\ Spec
    /\ \A t \in Tasks : /\ SF_vars(UNCHANGED program /\ CallStep(t))
                        /\ WF_vars(UNCHANGED program /\ HolderWakes(t))

-----------------------------------------------------------------------------
TypeOK ==
    /\ uxMessagesWaiting \in [Mutexes -> 0..1]
    /\ pxMutexHolder \in [Mutexes -> Tasks \cup {Nobody}]
    /\ uxRecursiveCallCount \in [Mutexes -> 0..MaxDepth]
    /\ xTasksWaitingToReceive \in [Mutexes -> Seq(Tasks)]
    /\ uxPriority \in [Tasks -> Nat]
    /\ uxBasePriority \in [Tasks -> Nat]
    /\ eventPriority \in [Tasks -> Nat]
    /\ uxMutexesHeld \in [Tasks -> 0..Cardinality(Mutexes)]
    /\ blocked \subseteq Tasks
    /\ pc \in [Tasks -> {"out", "try", "failed", "timedOut", "disinherit",
                         "taken", "give", "assert"}]
    /\ wanted \in [Tasks -> Mutexes]
    /\ xTicksToWait \in [Tasks -> WaitKinds]
    /\ xInheritanceOccurred \in [Tasks -> BOOLEAN]

(* A mutex is free or has a holder; every holder counts its mutexes; the    *)
(* nesting count of a mutex nobody holds is zero.                           *)
HoldersAgree ==
    /\ \A m \in Mutexes :
        /\ uxMessagesWaiting[m] = 1 <=> pxMutexHolder[m] = Nobody
        /\ pxMutexHolder[m] = Nobody => uxRecursiveCallCount[m] = 0
    /\ \A t \in Tasks : uxMutexesHeld[t] =
            Cardinality({m \in Mutexes : pxMutexHolder[m] = t})

(* No task sleeps on a free mutex unless somebody is on the way to take it. *)
NoLostWakeup ==
    \A m \in Mutexes :
        (xTasksWaitingToReceive[m] # <<>> /\ uxMessagesWaiting[m] = 1) =>
            \E t \in Tasks \ blocked :
                wanted[t] = m /\ pc[t] \in {"try", "failed", "timedOut"}

(* No inversion: while a task that holds no mutex itself waits for one, the *)
(* holder has at least its priority (as long as nobody sets priorities).    *)
PrioritiesStay == program.priorities = {}

NoInversion ==
    PrioritiesStay =>
        \A m \in Mutexes : \A t \in Range(xTasksWaitingToReceive[m]) :
            (uxMutexesHeld[t] = 0 /\ pxMutexHolder[m] # Nobody) =>
                uxPriority[pxMutexHolder[m]] >= uxPriority[t]

(* A task without a mutex has its own priority. *)
RestoredAtLast ==
    \A t \in Tasks : uxMutexesHeld[t] = 0 => uxPriority[t] = uxBasePriority[t]

(* Where tasks hold one mutex at a time, a holder has no higher priority    *)
(* than its own and those of the tasks that wait for it or are about to     *)
(* give up waiting.                                                         *)
OneAtATime == PrioritiesStay /\ \A t \in Tasks : program.maxHeld[t] <= 1

BoostHasCause ==
    OneAtATime =>
        \A m \in Mutexes : LET h == pxMutexHolder[m] IN
            (h # Nobody /\ uxPriority[h] > uxBasePriority[h]) =>
                \E t \in Tasks : /\ wanted[t] = m /\ xInheritanceOccurred[t]
                                 /\ pc[t] \in {"try", "failed", "timedOut",
                                               "disinherit"}
                                 /\ uxPriority[t] >= uxPriority[h]

(* Inheritance goes as far as it must and no further: a holder runs at the  *)
(* priority of those it keeps waiting, neither below nor above it           *)
(* (queue.c:1506, tasks.c:3994).                                            *)
HoldersHurryInTurn == NoInversion /\ BoostHasCause

(* A task of the highest priority that takes a mutex gets it, or its        *)
(* time-out: a busy task between its priority and the holder's does not     *)
(* keep it waiting.  A failed assertion does (see NothingInherited), and an *)
(* application that takes one mutex more each time before it gives one.     *)
InversionBounded ==
    \A t \in Tasks :
        (\A u \in Tasks : Priorities[u] <= Priorities[t]) =>
            ((OneAtATime /\ program.mutexes \cap Recursive = {}
              /\ pc[t] # "out")
             ~> (pc[t] = "out" \/ ~Running))

(* A call without a block time has not made anybody inherit: "an adjusted   *)
(* timeout cannot become 0" (queue.c:1469).                                 *)
NothingInherited == Running
=============================================================================
