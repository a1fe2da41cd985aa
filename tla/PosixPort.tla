------------------------------ MODULE PosixPort ------------------------------
(***************************************************************************)
(* The port of the kernel to POSIX threads                                 *)
(* (freeRtos/Source/portable/GCC/POSIX/port.c).  Every task is a thread;   *)
(* one of them runs and the others wait for SIG_RESUME in the handler of   *)
(* SIG_SUSPEND.  A switch, by a call or by the tick, sends one thread      *)
(* SIG_RESUME and another, the caller, SIG_SUSPEND.                        *)
(*                                                                         *)
(* A step is what a thread does between two accesses to what threads       *)
(* share.  Signals are as POSIX has them: all are blocked in a handler, a  *)
(* signal to the caller is taken at once, and the tick goes to any thread  *)
(* that does not block it.  Which task the kernel picks is left open.      *)
(* xSuspendResumeThreadMutex is only taken by who has xSingleThreadMutex   *)
(* and the handler of SIG_RESUME never runs, as every thread that is sent  *)
(* this signal is in the other handler: neither is modelled.               *)
(***************************************************************************)
EXTENDS Integers, FiniteSets, FiniteSetsExt

CONSTANTS
    MAX_NUMBER_OF_TASKS,
    Casts                   \* who does what: the number of tasks at the start and in all, how
                            \* deep they nest critical sections, the tasks that create
                            \* others, that delete others, and that end

VARIABLES
    cast,                   \* one of Casts
    port,                   \* the static variables of port.c
    pxThreads,              \* by index: task and saved nesting
    thread,                 \* by index: what the thread does
    current, readied,       \* of the kernel: current, and the tasks it picks from
    handles, deleted        \* tasks made so far, and those deleted

kernel == <<current, readied, handles, deleted>>
portVars == <<cast, port, pxThreads, thread, kernel>>

Threads == 1..MAX_NUMBER_OF_TASKS
None == 0

ASSUME PortAssumption ==
    /\ MAX_NUMBER_OF_TASKS \in Nat \ {0}
    /\ \A c \in Casts : c.first \in Threads /\ c.nesting \in Nat

-----------------------------------------------------------------------------
(* A thread: where its code is, where the handler is that interrupts it,   *)
(* the signals that wait for it, whom it is to suspend and to resume, where*)
(* it goes on after a switch, the critical sections its task has entered, the task *)
(* it creates, and the task whose code it runs.                            *)
Thread(pc, handler, signals, code) ==
    [pc |-> pc, handler |-> handler, signals |-> signals, from |-> None, to |-> None, ret |-> "task",
     own |-> 0, making |-> None, code |-> code, cancelled |-> FALSE]

NoThread == Thread("none", "none", {}, None)

prvGetThreadHandle(h) ==
    Min({i \in Threads : pxThreads[i].hTask = h} \cup {MAX_NUMBER_OF_TASKS + 1})

(* The code of a thread goes on while no handler runs or is about to.      *)
At(t, pc) ==
    /\ thread[t].pc = pc /\ thread[t].handler = "none"
    /\ "SUSPEND" \notin thread[t].signals

Goes(t, pc) == thread' = [thread EXCEPT ![t].pc = pc]
Handler(t, at) == thread' = [thread EXCEPT ![t].handler = at]

Free(mutex) == mutex = None

-----------------------------------------------------------------------------
(* Critical sections.                                                      *)

(* vPortEnterCritical, in two steps.                                       *)
EnterCritical(t) ==
    /\ At(t, "task") /\ thread[t].own < cast.nesting
    /\ Goes(t, "enter")
    /\ port' = [port EXCEPT !.xInterruptsEnabled = FALSE]
    /\ UNCHANGED <<pxThreads, kernel>>

CountEntry(t) ==
    /\ At(t, "enter")
    /\ thread' = [thread EXCEPT ![t].pc = "task", ![t].own = @ + 1]
    /\ port' = [port EXCEPT !.uxCriticalNesting = @ + 1]
    /\ UNCHANGED <<pxThreads, kernel>>

(* vPortExitCritical, in three; a pended yield comes between the last two. *)
ExitCritical(t) ==
    LET n == Max({port.uxCriticalNesting - 1, 0})
    IN  /\ At(t, "task") /\ thread[t].own > 0
        /\ thread' = [thread EXCEPT ![t].pc = IF n = 0 THEN "exit" ELSE "task", ![t].own = @ - 1]
        /\ port' = [port EXCEPT !.uxCriticalNesting = n]
        /\ UNCHANGED <<pxThreads, kernel>>

PendedYield(t) ==
    /\ At(t, "exit")
    /\ thread' = [thread EXCEPT ![t].pc = IF port.xPendYield THEN "yield" ELSE "enable",
                                ![t].ret = "enable"]
    /\ port' = [port EXCEPT !.xPendYield = FALSE]
    /\ UNCHANGED <<pxThreads, kernel>>

EnableInterrupts(t) ==
    /\ At(t, "enable")
    /\ Goes(t, IF thread[t].making # None THEN "created" ELSE "task")
    /\ port' = [port EXCEPT !.xInterruptsEnabled = TRUE]
    /\ UNCHANGED <<pxThreads, kernel>>

-----------------------------------------------------------------------------
(* The switch.                                                             *)

(* vTaskSwitchContext has picked h; from is the thread that waits.         *)
Switched(h) ==
    LET from == prvGetThreadHandle(current)
        to == prvGetThreadHandle(h)
    IN  /\ h \in readied /\ to \in Threads
        /\ current' = h
        /\ pxThreads' = IF to = from THEN pxThreads
                        ELSE [pxThreads EXCEPT ![from].uxCriticalNesting = port.uxCriticalNesting]
        /\ UNCHANGED <<readied, handles, deleted>>

(* Slip: the nesting of the task that is left stays. *)
NestingStays(h) == port.uxCriticalNesting

NestingAfter(h) ==
    IF h = current THEN port.uxCriticalNesting
    ELSE pxThreads[prvGetThreadHandle(h)].uxCriticalNesting

CallYield(t) ==
    /\ At(t, "task")
    /\ thread' = [thread EXCEPT ![t].pc = "yield", ![t].ret = "task"]
    /\ UNCHANGED <<port, pxThreads, kernel>>

(* vPortYield: the mutex is kept until this thread is suspended.           *)
vPortYield(t) ==
    \E h \in readied :
        /\ At(t, "yield") /\ Free(port.xSingleThreadMutex)
        /\ Switched(h)
        /\ IF h = current
           THEN Goes(t, thread[t].ret) /\ UNCHANGED port
           ELSE /\ thread' = [thread EXCEPT ![t].pc = "resume",
                              ![t].from = prvGetThreadHandle(current), ![t].to = prvGetThreadHandle(h)]
                /\ port' = [port EXCEPT !.xSingleThreadMutex = t, !.uxCriticalNesting = NestingAfter(h)]

Suspended(t) == [thread EXCEPT ![thread[t].from].signals = @ \cup {"SUSPEND"}, ![t].from = None]
Resumed(t) == [thread EXCEPT ![thread[t].to].signals = @ \cup {"RESUME"}, ![t].to = None]

prvResumeThread(t) ==
    /\ At(t, "resume")
    /\ thread' = [Resumed(t) EXCEPT ![t].pc = "suspend"]
    /\ UNCHANGED <<port, pxThreads, kernel>>

prvSuspendThread(t) ==
    /\ At(t, "suspend")
    /\ Goes(t, "kill") /\ port' = [port EXCEPT !.xSentinel = FALSE]
    /\ UNCHANGED <<pxThreads, kernel>>

KillSelf(t) ==
    /\ At(t, "kill")
    /\ thread' = [Suspended(t) EXCEPT ![t].pc = "spin"]
    /\ UNCHANGED <<port, pxThreads, kernel>>

Spin(t) ==
    /\ At(t, "spin") /\ (port.xSentinel \/ port.xServicingTick)
    /\ Goes(t, thread[t].ret)
    /\ UNCHANGED <<port, pxThreads, kernel>>

-----------------------------------------------------------------------------
(* prvSuspendSignalHandler, step by step.                                  *)

SuspendSignal(t) ==
    /\ thread[t].handler = "none" /\ "SUSPEND" \in thread[t].signals
    /\ thread' = [thread EXCEPT ![t].handler = "unlock", ![t].signals = @ \ {"SUSPEND"}]
    /\ port' = [port EXCEPT !.xSentinel = TRUE]
    /\ UNCHANGED <<pxThreads, kernel>>

Unlock(t) ==
    /\ thread[t].handler = "unlock"
    /\ Handler(t, "sigwait") /\ port' = [port EXCEPT !.xSingleThreadMutex = None]
    /\ UNCHANGED <<pxThreads, kernel>>

SigWait(t) ==
    /\ thread[t].handler = "sigwait" /\ "RESUME" \in thread[t].signals
    /\ thread' = [thread EXCEPT ![t].handler = IF port.uxCriticalNesting = 0 THEN "enable" ELSE "disable",
                                ![t].signals = @ \ {"RESUME"}]
    /\ UNCHANGED <<port, pxThreads, kernel>>

Restore(t) ==
    /\ thread[t].handler \in {"enable", "disable"}
    /\ Handler(t, "none")
    /\ port' = [port EXCEPT !.xInterruptsEnabled = (thread[t].handler = "enable")]
    /\ UNCHANGED <<pxThreads, kernel>>

-----------------------------------------------------------------------------
(* vPortSystemTickHandler.                                                 *)

(* Threads in prvWaitForStart take the signal too.                         *)
TickArrives(t) ==
    /\ thread[t].pc # "none" /\ thread[t].handler = "none" /\ "SUSPEND" \notin thread[t].signals
    /\ IF port.xInterruptsEnabled /\ ~port.xServicingTick
       THEN Handler(t, "tick") /\ UNCHANGED port
       ELSE port' = [port EXCEPT !.xPendYield = TRUE] /\ UNCHANGED thread
    /\ UNCHANGED <<pxThreads, kernel>>

TickLocks(t) ==
    /\ thread[t].handler = "tick"
    /\ \/ /\ ~Free(port.xSingleThreadMutex)
          /\ Handler(t, "none") /\ port' = [port EXCEPT !.xPendYield = TRUE]
          /\ UNCHANGED <<pxThreads, kernel>>
       \/ /\ Free(port.xSingleThreadMutex)
          /\ \E h \in readied :
                /\ Switched(h)
                /\ port' = [port EXCEPT !.xSingleThreadMutex = t, !.xServicingTick = TRUE,
                                        !.uxCriticalNesting = NestingAfter(h)]
                /\ thread' = [thread EXCEPT
                                ![t].handler = IF h = current THEN "tick unlock" ELSE "tick resume",
                                ![t].from = prvGetThreadHandle(current), ![t].to = prvGetThreadHandle(h)]

TickResumes(t) ==
    /\ thread[t].handler = "tick resume"
    /\ thread' = [Resumed(t) EXCEPT ![t].handler = "tick suspend"]
    /\ UNCHANGED <<port, pxThreads, kernel>>

(* The signal waits until this handler returns.                            *)
TickSuspends(t) ==
    /\ thread[t].handler = "tick suspend"
    /\ thread' = [Suspended(t) EXCEPT ![t].handler = "tick done"]
    /\ port' = [port EXCEPT !.xSentinel = FALSE]
    /\ UNCHANGED <<pxThreads, kernel>>

(* Slip: a tick that switches to nobody keeps the mutex. *)
TickKeepsMutex(t) ==
    /\ thread[t].handler = "tick unlock"
    /\ Handler(t, "tick done")
    /\ UNCHANGED <<port, pxThreads, kernel>>

TickUnlocks(t) ==
    /\ thread[t].handler = "tick unlock"
    /\ Handler(t, "tick done") /\ port' = [port EXCEPT !.xSingleThreadMutex = None]
    /\ UNCHANGED <<pxThreads, kernel>>

TickDone(t) ==
    /\ thread[t].handler = "tick done"
    /\ Handler(t, "none") /\ port' = [port EXCEPT !.xServicingTick = FALSE]
    /\ UNCHANGED <<pxThreads, kernel>>

-----------------------------------------------------------------------------
(* A task is created: pxPortInitialiseStack, and vPortAddTaskHandle later, *)
(* in a critical section of its own.                                       *)

FreeThreadStates == {i \in Threads : thread[i].pc = "none"}

xTaskCreate(t) ==
    /\ At(t, "task") /\ thread[t].own = 0 /\ current \in cast.creators
    /\ handles < cast.all /\ FreeThreadStates # {}
    /\ thread' = [thread EXCEPT ![t].pc = "create", ![t].making = handles + 1]
    /\ port' = [port EXCEPT !.xInterruptsEnabled = FALSE]
    /\ handles' = handles + 1
    /\ UNCHANGED <<pxThreads, current, readied, deleted>>

(* The new thread starts with the code of its task; the caller waits for   *)
(* it to be suspended.                                                     *)
CreateThread(t) ==
    LET i == Min(FreeThreadStates)
    IN  /\ At(t, "create") /\ Free(port.xSingleThreadMutex)
        /\ thread' = [thread EXCEPT ![t].pc = "wait", ![i] = Thread("start", "none", {}, thread[t].making)]
        /\ port' = [port EXCEPT !.uxCriticalNesting = @ + 1, !.lIndexOfLastAddedTask = i,
                                !.xSentinel = FALSE]
        /\ UNCHANGED <<pxThreads, kernel>>

prvWaitForStart(t) ==
    /\ At(t, "start") /\ Free(port.xSingleThreadMutex)
    /\ thread' = [thread EXCEPT ![t].pc = "suspend", ![t].from = t]
    /\ port' = [port EXCEPT !.xSingleThreadMutex = t]
    /\ UNCHANGED <<pxThreads, kernel>>

ThreadCreated(t) ==
    LET n == Max({port.uxCriticalNesting - 1, 0})
    IN  /\ At(t, "wait") /\ port.xSentinel
        /\ Goes(t, IF n = 0 THEN "exit" ELSE "created")
        /\ port' = [port EXCEPT !.uxCriticalNesting = n]
        /\ UNCHANGED <<pxThreads, kernel>>

AddNewTask(t) ==
    /\ At(t, "created")
    /\ Goes(t, "add") /\ port' = [port EXCEPT !.xInterruptsEnabled = FALSE]
    /\ UNCHANGED <<pxThreads, kernel>>

vPortAddTaskHandle(t) ==
    /\ At(t, "add")
    /\ thread' = [thread EXCEPT ![t].pc = "task", ![t].own = @ + 1, ![t].making = None]
    /\ port' = [port EXCEPT !.uxCriticalNesting = @ + 1]
    /\ pxThreads' = [pxThreads EXCEPT ![port.lIndexOfLastAddedTask].hTask = thread[t].making]
    /\ readied' = readied \cup {thread[t].making}
    /\ UNCHANGED <<current, handles, deleted>>

-----------------------------------------------------------------------------
(* A task is deleted, in a critical section: vPortForciblyEndThread.       *)

EndOther(t, h) ==
    /\ At(t, "task") /\ thread[t].own > 0 /\ current \in cast.deleters
    /\ h \in readied \ {current} /\ Free(port.xSingleThreadMutex)
    /\ thread' = [thread EXCEPT ![prvGetThreadHandle(h)].cancelled = TRUE]
    /\ readied' = readied \ {h} /\ deleted' = deleted \cup {h}
    /\ UNCHANGED <<port, pxThreads, current, handles>>

EndSelf(t) ==
    /\ At(t, "task") /\ thread[t].own > 0 /\ current \in cast.ending
    /\ Free(port.xSingleThreadMutex)
    /\ \E h \in readied \ {current} :
          /\ current' = h
          /\ thread' = [thread EXCEPT ![t].pc = "end resume", ![t].to = prvGetThreadHandle(h)]
    /\ readied' = readied \ {current} /\ deleted' = deleted \cup {current}
    /\ port' = [port EXCEPT !.xSingleThreadMutex = t]
    /\ UNCHANGED <<pxThreads, handles>>

EndResumes(t) ==
    /\ At(t, "end resume")
    /\ thread' = [Resumed(t) EXCEPT ![t].pc = "end reset"]
    /\ UNCHANGED <<port, pxThreads, kernel>>

EndResets(t) ==
    /\ At(t, "end reset")
    /\ Goes(t, "end enable") /\ port' = [port EXCEPT !.uxCriticalNesting = 0]
    /\ UNCHANGED <<pxThreads, kernel>>

EndEnables(t) ==
    /\ At(t, "end enable")
    /\ Goes(t, "end unlock") /\ port' = [port EXCEPT !.xInterruptsEnabled = TRUE]
    /\ UNCHANGED <<pxThreads, kernel>>

EndUnlocks(t) ==
    /\ At(t, "end unlock")
    /\ thread' = [thread EXCEPT ![t].pc = "cleanup", ![t].cancelled = TRUE]
    /\ port' = [port EXCEPT !.xSingleThreadMutex = None]
    /\ UNCHANGED <<pxThreads, kernel>>

(* The clean-up of a thread that ends, or is cancelled in sigwait.         *)
prvDeleteThread(t) ==
    /\ thread[t].cancelled
    /\ thread[t].handler = "sigwait" \/ At(t, "cleanup")
    /\ thread' = [thread EXCEPT ![t] = NoThread]
    /\ pxThreads' = [pxThreads EXCEPT ![t] = [hTask |-> None, uxCriticalNesting |-> 0]]
    /\ port' = IF pxThreads[t].uxCriticalNesting = 0 THEN port
               ELSE [port EXCEPT !.uxCriticalNesting = 0, !.xInterruptsEnabled = TRUE]
    /\ UNCHANGED kernel

-----------------------------------------------------------------------------
(* vPortStartFirstTask resumes the first task.                             *)
PortInit ==
    /\ cast \in Casts
    /\ port = [xSingleThreadMutex |-> None, xSentinel |-> TRUE, xInterruptsEnabled |-> TRUE,
               xServicingTick |-> FALSE, xPendYield |-> FALSE, uxCriticalNesting |-> 0,
               lIndexOfLastAddedTask |-> cast.first]
    /\ pxThreads = [i \in Threads |-> [hTask |-> IF i <= cast.first THEN i ELSE None,
                                       uxCriticalNesting |-> 0]]
    /\ thread = [i \in Threads |->
                    IF i > cast.first THEN NoThread
                    ELSE Thread("spin", "sigwait", IF i = 1 THEN {"RESUME"} ELSE {}, i)]
    /\ current = 1 /\ readied = 1..cast.first /\ handles = cast.first /\ deleted = {}

(* What a task calls, what the port's code goes on with, and its handlers. *)
TaskCalls(t) ==
    \/ EnterCritical(t) \/ ExitCritical(t) \/ CallYield(t) \/ xTaskCreate(t) \/ EndSelf(t)
    \/ \E h \in readied : EndOther(t, h)

PortCode(t) ==
    \/ CountEntry(t) \/ PendedYield(t) \/ EnableInterrupts(t)
    \/ vPortYield(t) \/ prvResumeThread(t) \/ prvSuspendThread(t) \/ KillSelf(t) \/ Spin(t)
    \/ CreateThread(t) \/ prvWaitForStart(t) \/ ThreadCreated(t)
    \/ AddNewTask(t) \/ vPortAddTaskHandle(t)
    \/ EndResumes(t) \/ EndResets(t) \/ EndEnables(t) \/ EndUnlocks(t) \/ prvDeleteThread(t)

Handlers(t) ==
    \/ SuspendSignal(t) \/ Unlock(t) \/ SigWait(t) \/ Restore(t)
    \/ TickLocks(t) \/ TickResumes(t) \/ TickSuspends(t) \/ TickUnlocks(t) \/ TickDone(t)

PortNext ==
    /\ UNCHANGED cast
    /\ \E t \in Threads : TaskCalls(t) \/ PortCode(t) \/ Handlers(t) \/ TickArrives(t)

PortSpec == PortInit /\ [][PortNext]_portVars

-----------------------------------------------------------------------------
PortTypeOK ==
    /\ port.xSingleThreadMutex \in 0..MAX_NUMBER_OF_TASKS
    /\ port.uxCriticalNesting \in 0..cast.nesting + 1
    /\ \A t \in Threads : thread[t].signals \subseteq {"SUSPEND", "RESUME"}

(* The code of tasks, as opposed to that of a switch.                      *)
TaskCode == {"task", "enter", "exit", "enable", "created", "create", "wait", "add"}

Runs(t) == \E pc \in TaskCode : At(t, pc)

(* Whatever signals, switches and ticks overlap, the code of one task at a *)
(* time runs, the current one's, in the critical sections it has entered   *)
(* itself: "Preemptive context switches cannot occur when in a critical    *)
(* region" (task.h:169).  Not so when a task ends itself: the thread that  *)
(* goes takes ticks still, for the task that runs.  Nor are the critical   *)
(* sections safe when a task is deleted that waits inside one.             *)
TasksRunAlone ==
    cast.ending = {} =>
        /\ PortTypeOK
        /\ \A t \in Threads : Runs(t) =>
              /\ thread[t].code = current
              /\ \A u \in Threads : Runs(u) => u = t
              /\ deleted = {} /\ At(t, "task") /\ thread[t].own > 0 =>
                    ~port.xInterruptsEnabled /\ port.uxCriticalNesting = thread[t].own

(* No switch hangs: while no task runs, some thread can go on, in whatever *)
(* order the two signals of a switch and its two waits (xSentinel, and     *)
(* sigwait for SIG_RESUME) meet (port.c:338, port.c:576).                  *)
NoSwitchHangs ==
    (cast.ending = {} /\ ~ \E t \in Threads : Runs(t)) =>
        \E t \in Threads : ENABLED (PortCode(t) \/ Handlers(t))

(* At any time one task runs, or a switch to one is under way: not two and  *)
(* not none (port.c:320, port.c:409).                                      *)
OneTaskRuns == TasksRunAlone /\ NoSwitchHangs
=============================================================================
