------------------------------- MODULE Timers -------------------------------
(***************************************************************************)
(* Software timers (freeRtos/Source/timers.c): the timer task, its command *)
(* queue and its two lists of active timers, one for expiry times before   *)
(* the tick counter wraps and one for those after.                         *)
(*                                                                         *)
(* The timer task has the highest priority of the application, so other    *)
(* tasks send commands only while it is blocked; interrupts send whenever  *)
(* they like, and callbacks send from within the timer task.  Ticks come   *)
(* between any two steps unless the scheduler is suspended.  The promise   *)
(* the lists are checked against is kept in "due": the ticks that remain   *)
(* until a timer should expire, counted without wrapping.                  *)
(***************************************************************************)
EXTENDS EventList

CONSTANTS
    Timers,
    Programs,       \* what the application may be (see ProgramsAssumption)
    TickMod,        \* the tick counter counts modulo TickMod
    QueueLength,    \* configTIMER_QUEUE_LENGTH
    MaxBehind       \* bound: how late, in ticks, the timer task may be

NoTimer == "none"
Commands == {"start", "stop", "period", "delete"}

ASSUME TimersAssumption == NoTimer \notin Timers
(* A timer task that were later than a third of a round could let the       *)
(* counter pass the last sample again while it switches the lists.          *)
ASSUME BoundsAssumption ==
    /\ QueueLength \in Nat \ {0} /\ TickMod \in Nat \ {0} /\ MaxBehind \in Nat
    /\ 3 * MaxBehind <= TickMod

(* Per timer its uxAutoReload and the period it is created with; what is    *)
(* called for any timer, and the periods xTimerChangePeriod sets.  A period *)
(* and a delay together stay below a round of the tick counter.  Timers that *)
(* are deleted are one-shot timers: the command that reloads another may    *)
(* come after the one that frees it.                                        *)
ASSUME ProgramsAssumption ==
    /\ Programs \subseteq [autoReload : SUBSET Timers, period : [Timers -> Nat \ {0}],
                           calls : SUBSET (Commands \union {"function"}),
                           periods : SUBSET (Nat \ {0})]
    /\ \A app \in Programs : \A p \in app.periods \union {app.period[t] : t \in Timers} :
          p + MaxBehind < TickMod
    /\ \A app \in Programs : "delete" \in app.calls => app.autoReload = {}

VARIABLES
    program,                    \* the program that runs; it never changes
    xTickCount,
    pxCurrentTimerList, pxOverflowTimerList,    \* the list items, with owner and value
    xTimerPeriodInTicks,
    xTimerQueue,
    xLastTime, xTimeNow,        \* of prvSampleTimeNow
    pc, after,                  \* where the timer task is, and goes after a callback
    xMessage,                   \* the command it works on
    running,                    \* the timer it calls back, and the time that is based on
    suspended,                  \* it has suspended the scheduler
    wakeTime,                   \* when it wakes up; NoTime: only for a command
    life,                       \* per timer: "created", "deleting" or "freed"
    due,                        \* per timer: ticks until it should expire, or Off
    stopped                     \* timers whose last command handled was a stop

listVars == <<pxCurrentTimerList, pxOverflowTimerList>>
taskVars == <<pc, after, xMessage, running, suspended>>
promiseVars == <<due, stopped>>
timerVars == <<program, xTickCount, listVars, xTimerPeriodInTicks, xTimerQueue, xLastTime,
               xTimeNow, taskVars, wakeTime, life, promiseVars>>

NoTime == -1
Off == 2 * TickMod                      \* due: not promised at all
NoMessage == [id |-> "none", timer |-> NoTimer, value |-> 0]
Ticks == 0 .. TickMod - 1

Add(x, y) == (x + y) % TickMod
Elapsed(x, y) == (x - y) % TickMod      \* ticks from y to x on the counter

Item(t, value) == [timer |-> t, value |-> value]
NoItem == Item(NoTimer, 0)
Active == {item.timer : item \in ToSet(pxCurrentTimerList) \union ToSet(pxOverflowTimerList)}
AutoReload(t) == t \in program.autoReload
Armed == {t \in Timers : due[t] # Off}
Message(id, t, value) == [id |-> id, timer |-> t, value |-> value]

TimersInit ==
    /\ program \in Programs
    /\ xTickCount = 0 /\ xLastTime = 0 /\ xTimeNow = 0
    /\ pxCurrentTimerList = <<>> /\ pxOverflowTimerList = <<>>
    /\ xTimerPeriodInTicks = program.period
    \* a timer may be started before the scheduler is
    /\ xTimerQueue \in {<<>>} \union {<<Message("start", t, 0)>> : t \in Timers}
    /\ pc = "query" /\ after = "receive"
    /\ xMessage = NoMessage /\ running = NoItem
    /\ suspended = FALSE /\ wakeTime = NoTime
    /\ life = [t \in Timers |-> "created"]
    /\ due = [t \in Timers |-> Off]
    /\ stopped = {}

Running == pc # "assert"        \* vAssertCalled ends the program

-----------------------------------------------------------------------------
(* The lists *)

(* Slip: an insertion at the end, as into a list without order. *)
InsertLast(list, item) == Append(list, item)

\* vListInsert: behind the items of the same value.
Insert(list, item) ==
    InsertBefore(list, item, {i \in ToSet(list) : i.value > item.value})

\* uxListRemove, whichever list the timer is in.
WithoutTimer(list, t) == Without(list, {i \in ToSet(list) : i.timer = t})

(* Slip: the counter that wrapped since the command is forgotten. *)
ExpiredUnlessWrapped(next, now, command, period) ==
    next <= now /\ Elapsed(now, command) >= period

(* Slip: an expiry that wraps is taken for one that has passed. *)
ExpiredWhenSmaller(next, now, command, period) ==
    next <= now \/ (now < command /\ next >= command)

\* The tests of prvInsertTimerInActiveList: an expiry already behind, seen from
\* the time the command was issued.
ExpiredBefore(next, now, command, period) ==
    IF next <= now THEN Elapsed(now, command) >= period
                   ELSE now < command /\ next >= command

\* prvInsertTimerInActiveList when it returns pdFALSE; current is the current
\* list without t.
InsertActive(t, next, now, current) ==
    IF next <= now
    THEN /\ pxOverflowTimerList' = Insert(pxOverflowTimerList, Item(t, next))
         /\ pxCurrentTimerList' = current
    ELSE /\ pxCurrentTimerList' = Insert(current, Item(t, next))
         /\ UNCHANGED pxOverflowTimerList

\* xQueueGenericSend without a block time succeeds.
Room == Len(xTimerQueue) < QueueLength

\* xTimerGenericCommand as the timer task calls it for itself; the configASSERT
\* that follows ends the program when the queue is full.
PostReload(t, value) ==
    xTimerQueue' = IF Room THEN Append(xTimerQueue, Message("reload", t, value))
                           ELSE xTimerQueue

\* The timer task is about to call the callback of item's timer and goes on at
\* next; an auto-reload timer should expire again a period after this expiry.
Fire(item, next) ==
    LET t == item.timer
    IN /\ pc' = "callback" /\ after' = next /\ running' = item
       /\ due' = [due EXCEPT ![t] = IF AutoReload(t) THEN @ + xTimerPeriodInTicks[t] ELSE Off]

-----------------------------------------------------------------------------
(* The application *)

\* What may be sent now: a command and its value, the time it was issued for a
\* start and for a reset, which are handled alike.
Sendable(issued) ==
    {m \in [id : program.calls \ {"function"}, timer : Timers,
            value : {0, issued} \union program.periods] :
        /\ life[m.timer] = "created"
        /\ m.value \in CASE m.id = "start" -> {issued}
                         [] m.id = "period" -> program.periods
                         [] OTHER -> {0}}
    \union {Message("function", NoTimer, 0) : c \in program.calls \intersect {"function"}}

\* xTimerGenericCommand and xTimerPendFunctionCall; a full queue loses it.
Send(m) ==
    /\ Room
    /\ xTimerQueue' = Append(xTimerQueue, m)
    /\ life' = IF m.id = "delete" THEN [life EXCEPT ![m.timer] = "deleting"] ELSE life

\* A command that arrives wakes the timer task up.
Awake == IF pc = "blocked" THEN pc' = "receive" /\ wakeTime' = NoTime
                          ELSE UNCHANGED <<pc, wakeTime>>

\* The FromISR forms and xTimerPendFunctionCallFromISR.
SendFromISR ==
    /\ Running
    /\ \E m \in Sendable(xTickCount) : Send(m)
    /\ Awake
    /\ UNCHANGED <<program, xTickCount, listVars, xTimerPeriodInTicks, xLastTime,
                   xTimeNow, after, xMessage, running, suspended, promiseVars>>

\* A task reads the tick counter for the command and may be preempted before
\* it sends it.
SendFromTask ==
    /\ pc = "blocked"
    /\ \E late \in 0 .. MaxBehind : \E m \in Sendable(Elapsed(xTickCount, late)) : Send(m)
    /\ Awake
    /\ UNCHANGED <<program, xTickCount, listVars, xTimerPeriodInTicks, xLastTime,
                   xTimeNow, after, xMessage, running, suspended, promiseVars>>

\* xTimerCreate, with the memory of a timer that was deleted.
xTimerCreate(t) ==
    /\ pc = "blocked" /\ life[t] = "freed"
    /\ life' = [life EXCEPT ![t] = "created"]
    /\ xTimerPeriodInTicks' = [xTimerPeriodInTicks EXCEPT ![t] = program.period[t]]
    /\ UNCHANGED <<program, xTickCount, listVars, xTimerQueue, xLastTime, xTimeNow, taskVars, wakeTime, promiseVars>>

\* Bound: neither an expiry nor a command is left lying longer than MaxBehind.
KeepsUp ==
    /\ \A t \in Armed : due[t] > -MaxBehind
    /\ \A m \in ToSet(xTimerQueue) :
          m.id \in {"start", "reload"} => Elapsed(xTickCount, m.value) < MaxBehind

\* xTaskIncrementTick, which also ends the wait of the timer task.
Tick ==
    /\ Running /\ ~suspended /\ KeepsUp
    /\ xTickCount' = Add(xTickCount, 1)
    /\ due' = [t \in Timers |-> IF due[t] = Off THEN Off ELSE due[t] - 1]
    /\ IF xTickCount' = wakeTime THEN Awake ELSE UNCHANGED <<pc, wakeTime>>
    /\ UNCHANGED <<program, listVars, xTimerPeriodInTicks, xTimerQueue, xLastTime,
                   xTimeNow, after, xMessage, running, suspended, life, stopped>>

-----------------------------------------------------------------------------
(* The timer task *)

\* prvSampleTimeNow: next is where it goes on, by way of prvSwitchTimerLists
\* when the counter has wrapped.
Sample(next) ==
    /\ xTimeNow' = xTickCount
    /\ IF xTickCount < xLastTime
       THEN pc' = "switch" /\ UNCHANGED xLastTime
       ELSE pc' = next /\ xLastTime' = xTickCount

\* prvGetNextExpireTime and prvProcessTimerOrBlockTask up to where the
\* scheduler is resumed: a timer has expired, or the task blocks unless a
\* command is waiting.
ProcessTimerOrBlock ==
    LET listWasEmpty == pxCurrentTimerList = <<>>
        next == IF listWasEmpty THEN 0 ELSE Head(pxCurrentTimerList).value
        wait == IF next = xTickCount THEN Add(next, 1) ELSE next
    IN /\ pc = "query"
       /\ \/ /\ ~listWasEmpty /\ next <= xTickCount
             /\ Sample("expired")
             /\ UNCHANGED wakeTime
          \/ /\ listWasEmpty \/ next > xTickCount
             /\ Sample(IF xTimerQueue = <<>> THEN "blocked" ELSE "receive")
             /\ wakeTime' = IF pc' = "blocked" /\ Active # {} THEN wait ELSE NoTime
       /\ suspended' = (xTickCount < xLastTime)
       /\ UNCHANGED <<program, xTickCount, listVars, xTimerPeriodInTicks, xTimerQueue,
                      after, xMessage, running, life, promiseVars>>

\* prvProcessExpiredTimer up to the callback.
ProcessExpiredTimer ==
    LET item == Head(pxCurrentTimerList)
        t == item.timer
        period == xTimerPeriodInTicks[t]
        next == Add(item.value, period)
        rest == Tail(pxCurrentTimerList)
        late == ExpiredBefore(next, xTimeNow, item.value, period)
    IN /\ pc = "expired"
       /\ \/ /\ ~AutoReload(t)
             /\ pxCurrentTimerList' = rest
             /\ Fire(item, "receive")
             /\ UNCHANGED <<pxOverflowTimerList, xTimerQueue>>
          \/ /\ AutoReload(t) /\ ~late
             /\ InsertActive(t, next, xTimeNow, rest)
             /\ Fire(item, "receive")
             /\ UNCHANGED xTimerQueue
          \/ /\ AutoReload(t) /\ late
             /\ pxCurrentTimerList' = rest
             /\ PostReload(t, item.value)
             /\ IF Room THEN Fire(item, "receive")
                        ELSE pc' = "assert" /\ UNCHANGED <<after, running, due>>
             /\ UNCHANGED pxOverflowTimerList
       /\ UNCHANGED <<program, xTickCount, xTimerPeriodInTicks, xLastTime, xTimeNow,
                      xMessage, suspended, wakeTime, life, stopped>>

\* A callback of a timer or a function that was pended; it may send a command.
Callback ==
    /\ pc = "callback"
    /\ pc' = after /\ after' = "receive"
    /\ running' = IF after \in {"reload", "restart"} THEN running ELSE NoItem
    /\ \/ \E m \in Sendable(xTickCount) : Send(m)
       \/ UNCHANGED <<xTimerQueue, life>>
    /\ UNCHANGED <<program, xTickCount, listVars, xTimerPeriodInTicks, xLastTime,
                   xTimeNow, xMessage, suspended, wakeTime, promiseVars>>

\* One round of the loop of prvSwitchTimerLists: what is left in the current
\* list expired before the counter wrapped.
SwitchExpires ==
    LET item == Head(pxCurrentTimerList)
    IN /\ pc = "switch" /\ pxCurrentTimerList # <<>>
       /\ pxCurrentTimerList' = Tail(pxCurrentTimerList)
       /\ Fire(item, IF AutoReload(item.timer) THEN "reload" ELSE "switch")
       /\ UNCHANGED <<program, xTickCount, pxOverflowTimerList, xTimerPeriodInTicks,
                      xTimerQueue, xLastTime, xTimeNow, xMessage, suspended, wakeTime,
                      life, stopped>>

\* ... whose expiry after a reload may lie before the wrap as well.
SwitchReloads ==
    LET t == running.timer
        xReloadTime == Add(running.value, xTimerPeriodInTicks[t])
    IN /\ pc = "reload"
       /\ \/ /\ xReloadTime > running.value
             /\ pxCurrentTimerList' = Insert(pxCurrentTimerList, Item(t, xReloadTime))
             /\ pc' = "switch"
             /\ UNCHANGED xTimerQueue
          \/ /\ xReloadTime <= running.value
             /\ PostReload(t, running.value)
             /\ pc' = IF Room THEN "switch" ELSE "assert"
             /\ UNCHANGED pxCurrentTimerList
       /\ running' = NoItem
       /\ UNCHANGED <<program, xTickCount, pxOverflowTimerList, xTimerPeriodInTicks,
                      xLastTime, xTimeNow, after, xMessage, suspended, wakeTime, life,
                      promiseVars>>

\* The end of prvSwitchTimerLists and of the prvSampleTimeNow that called it.
SwitchTimerLists ==
    /\ pc = "switch" /\ pxCurrentTimerList = <<>>
    /\ pxCurrentTimerList' = pxOverflowTimerList
    /\ pxOverflowTimerList' = pxCurrentTimerList
    /\ xLastTime' = xTimeNow
    /\ pc' = IF suspended THEN "receive" ELSE "handle"
    /\ suspended' = FALSE
    /\ UNCHANGED <<program, xTickCount, xTimerPeriodInTicks, xTimerQueue,
                   xTimeNow, after, xMessage, running, wakeTime, life, promiseVars>>

\* prvProcessReceivedCommands up to the switch; the command says when the timer
\* should expire from now on.
ReceiveCommand ==
    LET m == Head(xTimerQueue)
        t == m.timer
    IN /\ pc = "receive" /\ xTimerQueue # <<>>
       /\ xTimerQueue' = Tail(xTimerQueue)
       /\ \/ /\ m.id = "function"
             /\ pc' = "callback"
             /\ UNCHANGED <<pxCurrentTimerList, pxOverflowTimerList, xMessage, xLastTime,
                            xTimeNow, promiseVars>>
          \/ /\ m.id # "function"
             /\ xMessage' = m
             /\ pxCurrentTimerList' = WithoutTimer(pxCurrentTimerList, t)
             /\ pxOverflowTimerList' = WithoutTimer(pxOverflowTimerList, t)
             /\ Sample("handle")
             /\ due' = [due EXCEPT ![t] =
                    CASE m.id \in {"start", "reload"} ->
                            xTimerPeriodInTicks[t] - Elapsed(xTickCount, m.value)
                      [] m.id = "period" -> m.value
                      [] OTHER -> Off]
             /\ stopped' = CASE m.id = "stop" -> stopped \union {t}
                             [] m.id = "reload" -> stopped
                             [] OTHER -> stopped \ {t}
       /\ UNCHANGED <<program, xTickCount, xTimerPeriodInTicks, after, running,
                      suspended, wakeTime, life>>

\* The queue is empty: prvTimerTask starts over.
NoMoreCommands ==
    /\ pc = "receive" /\ xTimerQueue = <<>>
    /\ pc' = "query"
    /\ UNCHANGED <<program, xTickCount, listVars, xTimerPeriodInTicks, xTimerQueue,
                   xLastTime, xTimeNow, after, xMessage, running, suspended, wakeTime,
                   life, promiseVars>>

\* The cases of the switch.
HandleStart ==
    LET t == xMessage.timer
        command == xMessage.value
        period == xTimerPeriodInTicks[t]
        next == Add(command, period)
        late == ExpiredBefore(next, xTimeNow, command, period)
    IN /\ pc = "handle" /\ xMessage.id \in {"start", "reload"}
       /\ \/ /\ late
             /\ Fire(Item(t, command), IF AutoReload(t) THEN "restart" ELSE "receive")
             /\ UNCHANGED listVars
          \/ /\ ~late
             /\ InsertActive(t, next, xTimeNow, pxCurrentTimerList)
             /\ pc' = "receive"
             /\ UNCHANGED <<after, running, due>>
       /\ xMessage' = NoMessage
       /\ UNCHANGED <<program, xTickCount, xTimerPeriodInTicks, xTimerQueue, xLastTime,
                      xTimeNow, suspended, wakeTime, life, stopped>>

\* After the callback of an auto-reload timer that was started too late.
Restart ==
    LET t == running.timer
    IN /\ pc = "restart"
       /\ PostReload(t, Add(running.value, xTimerPeriodInTicks[t]))
       /\ pc' = IF Room THEN "receive" ELSE "assert"
       /\ running' = NoItem
       /\ UNCHANGED <<program, xTickCount, listVars, xTimerPeriodInTicks, xLastTime,
                      xTimeNow, after, xMessage, suspended, wakeTime, life, promiseVars>>

HandleChangePeriod ==
    LET t == xMessage.timer
        next == Add(xTimeNow, xMessage.value)
    IN /\ pc = "handle" /\ xMessage.id = "period"
       /\ xTimerPeriodInTicks' = [xTimerPeriodInTicks EXCEPT ![t] = xMessage.value]
       /\ InsertActive(t, next, xTimeNow, pxCurrentTimerList)
       /\ pc' = "receive" /\ xMessage' = NoMessage
       /\ UNCHANGED <<program, xTickCount, xTimerQueue, xLastTime, xTimeNow, after,
                      running, suspended, wakeTime, life, promiseVars>>

\* The timer has left its list already; a deleted one is freed.
HandleStopDelete ==
    /\ pc = "handle" /\ xMessage.id \in {"stop", "delete"}
    /\ life' = IF xMessage.id = "delete" THEN [life EXCEPT ![xMessage.timer] = "freed"]
                                         ELSE life
    /\ pc' = "receive" /\ xMessage' = NoMessage
    /\ UNCHANGED <<program, xTickCount, listVars, xTimerPeriodInTicks, xTimerQueue,
                   xLastTime, xTimeNow, after, running, suspended, wakeTime, promiseVars>>

TimerTask ==
    \/ ProcessTimerOrBlock \/ ProcessExpiredTimer \/ Callback
    \/ SwitchExpires \/ SwitchReloads \/ SwitchTimerLists
    \/ ReceiveCommand \/ NoMoreCommands
    \/ HandleStart \/ Restart \/ HandleChangePeriod \/ HandleStopDelete

TimersNext ==
    \/ TimerTask \/ Tick
    \/ SendFromISR \/ SendFromTask
    \/ \E t \in Timers : xTimerCreate(t)

TimersSpec == TimersInit /\ [][TimersNext]_timerVars

-----------------------------------------------------------------------------
(* Properties *)

TimersTypeOK ==
    /\ program \in Programs
    /\ {xTickCount, xLastTime, xTimeNow} \subseteq Ticks
    /\ wakeTime \in Ticks \union {NoTime}
    /\ pxCurrentTimerList \in Seq([timer : Timers, value : Ticks])
    /\ pxOverflowTimerList \in Seq([timer : Timers, value : Ticks])
    /\ xTimerPeriodInTicks \in [Timers -> Nat \ {0}]
    /\ Len(xTimerQueue) <= QueueLength
    /\ pc \in {"query", "expired", "callback", "switch", "reload", "receive", "handle",
               "restart", "blocked", "assert"}
    /\ life \in [Timers -> {"created", "deleting", "freed"}]
    /\ \A t \in Armed : due[t] \in -TickMod .. TickMod

(* The two lists mean one time line: across every wrap of the counter an    *)
(* active timer is in the list, and with the value, of the tick it should   *)
(* expire at, counted from the last sample; and it is in one of them once.  *)
ListsKeepTime ==
    LET sampled == Elapsed(xTickCount, xLastTime)
    IN /\ TimersTypeOK
       /\ \A item \in ToSet(pxCurrentTimerList) :
             due[item.timer] + sampled = item.value - xLastTime
       /\ \A item \in ToSet(pxOverflowTimerList) :
             due[item.timer] + sampled = item.value + TickMod - xLastTime
       /\ Len(pxCurrentTimerList) + Len(pxOverflowTimerList) = Cardinality(Active)

(* No callback runs before its time, whichever way it is reached: from the  *)
(* list, from the list switch or from a command that was handled late.      *)
NeverEarly ==
    [][\A t \in Timers : pc' = "callback" /\ pc # "callback" /\ running'.timer = t
                            => due[t] <= 0]_timerVars

(* The timer task never sleeps past an expiry: while it is blocked every    *)
(* timer that should expire is in a list, not before now, and the task      *)
(* wakes by then.                                                           *)
NoneForgotten ==
    pc = "blocked" =>
        \A t \in Armed : /\ t \in Active
                         /\ wakeTime # NoTime
                         /\ 0 < Elapsed(wakeTime, xTickCount)
                         /\ Elapsed(wakeTime, xTickCount) <= due[t]

(* timers.h:519 of xTimerStop: "Stopping a timer ensures the timer is not   *)
(* in the active state."  A timer whose last command was a stop, and that   *)
(* was stopped, stays out of the lists.                                     *)
StoppedStaysStopped == stopped \intersect Active = {}

=============================================================================
