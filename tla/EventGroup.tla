----------------------------- MODULE EventGroup -----------------------------
(***************************************************************************)
(* An event group (freeRtos/Source/event_groups.c and the unordered event  *)
(* lists of tasks.c).                                                      *)
(*                                                                         *)
(* Event groups are only touched by tasks, with the scheduler suspended or *)
(* in a critical section; interrupt handlers pend their calls to the timer *)
(* task.  A call that blocks is two steps: what it does until it sleeps,   *)
(* and what it does with its event list item once it runs again.           *)
(***************************************************************************)
EXTENDS Naturals, Sequences, FiniteSets

CONSTANTS
    SyncTasks,      \* tasks that only meet each other, without a time-out
    WaitTasks,      \* tasks that make every call, also with time-outs
    FlagBits,       \* the bits WaitTasks and interrupts use
    MaxRounds,      \* bound: meetings a SyncTask begins
    MaxPended       \* bound: commands in the timer task's queue

ASSUME GroupAssumption ==
    /\ SyncTasks # {}
    /\ SyncTasks \cap WaitTasks = {} /\ SyncTasks \cap FlagBits = {}
    /\ MaxRounds \in Nat /\ MaxPended \in Nat

(* Each task that takes part in the rendezvous has a bit of its own.       *)
SyncBits == SyncTasks
GroupTasks == SyncTasks \cup WaitTasks

VARIABLES
    uxEventBits,    \* the bits that are set
    groupExists,
    waiting,        \* by task: "no", "blocked", "set", "timeout" or "deleted"
    itemValue,      \* by task: what its event list item asks for
    unblockedWith,  \* by task: the bits stored in the item when it was woken
    pendedCalls,    \* [set, bits] commands on their way to the timer task
    arrived, passed \* by SyncTask: meetings it has begun, and left again

groupVars == <<uxEventBits, groupExists, waiting, itemValue, unblockedWith,
               pendedCalls, arrived, passed>>

Request(bits, all, clear) == [bits |-> bits, all |-> all, clear |-> clear]

GroupInit ==
    /\ uxEventBits = {} /\ groupExists = TRUE
    /\ waiting = [t \in GroupTasks |-> "no"]
    /\ itemValue = [t \in GroupTasks |-> Request({}, TRUE, FALSE)]
    /\ unblockedWith = [t \in GroupTasks |-> {}]
    /\ pendedCalls = <<>>
    /\ arrived = [t \in SyncTasks |-> 0] /\ passed = arrived

prvTestWaitCondition(bits, r) ==
    IF r.all THEN r.bits \subseteq bits ELSE r.bits \cap bits # {}

(* Slip: the walk over the list ends with the first match. *)
FirstMatch(now) ==
    LET satisfied == {t \in GroupTasks : /\ waiting[t] = "blocked"
                                         /\ prvTestWaitCondition(now, itemValue[t])}
    IN  {t \in satisfied : t = CHOOSE u \in satisfied : TRUE}

Matched(now) ==
    {t \in GroupTasks : waiting[t] = "blocked" /\ prvTestWaitCondition(now, itemValue[t])}

ToClear(tasks) == UNION {itemValue[t].bits : t \in {u \in tasks : itemValue[u].clear}}

(* The item of every task the new bits satisfy gets their value; bits are  *)
(* cleared only after all the tasks were looked at.                        *)
Wake(now) ==
    unblockedWith' = [t \in GroupTasks |->
                        IF t \in Matched(now) THEN now ELSE unblockedWith[t]]

Woken(now) ==
    [t \in GroupTasks |-> IF t \in Matched(now) THEN "set" ELSE waiting[t]]

xEventGroupSetBits(bits) ==
    LET now == uxEventBits \cup bits
    IN  /\ waiting' = Woken(now)
        /\ Wake(now)
        /\ uxEventBits' = now \ ToClear(Matched(now))
        /\ UNCHANGED <<groupExists, itemValue, arrived, passed>>

xEventGroupClearBits(bits) ==
    /\ uxEventBits' = uxEventBits \ bits
    /\ UNCHANGED <<groupExists, waiting, itemValue, unblockedWith, arrived, passed>>

(* With a block time of zero an unmet condition changes nothing. *)
xEventGroupWaitBits(t, r) ==
    /\ IF prvTestWaitCondition(uxEventBits, r)
       THEN /\ uxEventBits' = IF r.clear THEN uxEventBits \ r.bits ELSE uxEventBits
            /\ UNCHANGED <<waiting, itemValue>>
       ELSE /\ waiting' = [waiting EXCEPT ![t] = "blocked"]
            /\ itemValue' = [itemValue EXCEPT ![t] = r]
            /\ UNCHANGED uxEventBits
    /\ UNCHANGED <<groupExists, unblockedWith, pendedCalls, arrived, passed>>

(* Slip: whether all have come is read from the group, after the bits were *)
(* cleared for those that waited.                                          *)
RendezvousReadsBack(t, bits, all, blocks) ==
    LET now == uxEventBits \cup bits
        left == now \ ToClear(Matched(now))
        met == all \subseteq left
    IN  /\ Wake(now)
        /\ uxEventBits' = IF met THEN left \ all ELSE left
        /\ waiting' = IF met \/ ~ blocks THEN Woken(now)
                      ELSE [Woken(now) EXCEPT ![t] = "blocked"]
        /\ itemValue' = IF met \/ ~ blocks THEN itemValue
                        ELSE [itemValue EXCEPT ![t] = Request(all, TRUE, TRUE)]
        /\ UNCHANGED <<groupExists, pendedCalls>>

(* Sets its bits, as xEventGroupSetBits does, and waits for the others':   *)
(* the last one to come does not sleep and clears the bits of all.         *)
Rendezvous(t, bits, all, blocks) ==
    LET now == uxEventBits \cup bits
        left == now \ ToClear(Matched(now))
        met == all \subseteq now
    IN  /\ Wake(now)
        /\ uxEventBits' = IF met THEN left \ all ELSE left
        /\ waiting' = IF met \/ ~ blocks THEN Woken(now)
                      ELSE [Woken(now) EXCEPT ![t] = "blocked"]
        /\ itemValue' = IF met \/ ~ blocks THEN itemValue
                        ELSE [itemValue EXCEPT ![t] = Request(all, TRUE, TRUE)]
        /\ UNCHANGED <<groupExists, pendedCalls>>

xEventGroupSync(t) ==
    /\ arrived[t] < MaxRounds
    /\ Rendezvous(t, {t}, SyncBits, TRUE)
    /\ arrived' = [arrived EXCEPT ![t] = @ + 1]
    /\ passed' = IF waiting'[t] = "blocked" THEN passed
                 ELSE [passed EXCEPT ![t] = @ + 1]

SyncWithTimeOut(t, bits, all, blocks) ==
    Rendezvous(t, bits, all, blocks) /\ UNCHANGED <<arrived, passed>>

(* A tick or xTaskAbortDelay; SyncTasks wait for ever. *)
GroupTimeOut(t) ==
    /\ waiting[t] = "blocked" /\ t \in WaitTasks
    /\ waiting' = [waiting EXCEPT ![t] = "timeout"]
    /\ UNCHANGED <<uxEventBits, groupExists, itemValue, unblockedWith, pendedCalls,
                   arrived, passed>>

(* A task that timed out takes the bits that came before it ran again.     *)
WaitEnds(t) ==
    /\ waiting[t] \in {"set", "timeout", "deleted"}
    /\ uxEventBits' =
          IF /\ waiting[t] = "timeout" /\ itemValue[t].clear
             /\ prvTestWaitCondition(uxEventBits, itemValue[t])
          THEN uxEventBits \ itemValue[t].bits ELSE uxEventBits
    /\ waiting' = [waiting EXCEPT ![t] = "no"]
    /\ itemValue' = [itemValue EXCEPT ![t] = Request({}, TRUE, FALSE)]
    /\ unblockedWith' = [unblockedWith EXCEPT ![t] = {}]
    /\ passed' = [u \in SyncTasks |-> IF u = t THEN passed[u] + 1 ELSE passed[u]]
    /\ UNCHANGED <<groupExists, pendedCalls, arrived>>

(* xEventGroupSetBitsFromISR and xEventGroupClearBitsFromISR. *)
PendFromISR(set, bits) ==
    /\ Len(pendedCalls) < MaxPended
    /\ pendedCalls' = Append(pendedCalls, [set |-> set, bits |-> bits])
    /\ UNCHANGED <<uxEventBits, groupExists, waiting, itemValue, unblockedWith,
                   arrived, passed>>

(* vEventGroupSetBitsCallback and vEventGroupClearBitsCallback. *)
RunPended ==
    /\ pendedCalls # <<>>
    /\ pendedCalls' = Tail(pendedCalls)
    /\ IF Head(pendedCalls).set THEN xEventGroupSetBits(Head(pendedCalls).bits)
       ELSE xEventGroupClearBits(Head(pendedCalls).bits)

(* Every waiting task is unblocked with no bits.  Callers delete a group   *)
(* when nobody is about to use it: no pended call, no task that timed out  *)
(* and has not run yet, nobody in the middle of a rendezvous.              *)
vEventGroupDelete ==
    /\ pendedCalls = <<>>
    /\ \A t \in GroupTasks : waiting[t] # "timeout"
    /\ \A t \in SyncTasks : waiting[t] = "no"
    /\ groupExists' = FALSE
    /\ waiting' = [t \in GroupTasks |->
                     IF waiting[t] = "blocked" THEN "deleted" ELSE waiting[t]]
    /\ unblockedWith' = [t \in GroupTasks |->
                     IF waiting[t] = "blocked" THEN {} ELSE unblockedWith[t]]
    /\ UNCHANGED <<uxEventBits, itemValue, pendedCalls, arrived, passed>>

xEventGroupCreate ==
    /\ ~ groupExists
    /\ \A t \in GroupTasks : waiting[t] = "no"
    /\ groupExists' = TRUE
    /\ uxEventBits' = {}
    /\ UNCHANGED <<waiting, itemValue, unblockedWith, pendedCalls, arrived, passed>>

FlagSets == SUBSET FlagBits \ {{}}

WaitTaskCalls(t) ==
    /\ waiting[t] = "no"
    /\ \/ \E b \in FlagSets, all, clear \in BOOLEAN :
             xEventGroupWaitBits(t, Request(b, all, clear))
       \/ \E b, c \in FlagSets, blocks \in BOOLEAN : SyncWithTimeOut(t, b, c, blocks)
       \/ \E b \in FlagSets : xEventGroupSetBits(b) /\ UNCHANGED pendedCalls
       \/ \E b \in FlagSets : xEventGroupClearBits(b) /\ UNCHANGED pendedCalls

GroupNext ==
    \/ /\ groupExists
       /\ \/ \E t \in SyncTasks : waiting[t] = "no" /\ xEventGroupSync(t)
          \/ \E t \in WaitTasks : WaitTaskCalls(t)
          \/ \E set \in BOOLEAN, b \in FlagSets : PendFromISR(set, b)
          \/ RunPended
          \/ vEventGroupDelete
    \/ xEventGroupCreate
    \/ \E t \in GroupTasks : GroupTimeOut(t) \/ WaitEnds(t)

GroupSpec == GroupInit /\ [][GroupNext]_groupVars

-----------------------------------------------------------------------------
GroupTypeOK ==
    /\ uxEventBits \subseteq SyncBits \cup FlagBits
    /\ groupExists \in BOOLEAN
    /\ waiting \in [GroupTasks -> {"no", "blocked", "set", "timeout", "deleted"}]
    /\ itemValue \in [GroupTasks -> [bits : SUBSET (SyncBits \cup FlagBits),
                                     all : BOOLEAN, clear : BOOLEAN]]
    /\ unblockedWith \in [GroupTasks -> SUBSET (SyncBits \cup FlagBits)]
    /\ Len(pendedCalls) <= MaxPended
    /\ arrived \in [SyncTasks -> 0..MaxRounds]
    /\ passed \in [SyncTasks -> 0..MaxRounds]

(* Nobody sleeps beside the bits it waits for, and whoever was woken by    *)
(* bits is told a value that satisfies it, however many tasks those bits   *)
(* were for and cleared by (event_groups.c:524-600).                       *)
NobodyWaitsInVain ==
    /\ GroupTypeOK
    /\ \A t \in GroupTasks :
          /\ waiting[t] = "blocked" => ~ prvTestWaitCondition(uxEventBits, itemValue[t])
          /\ waiting[t] = "set" => prvTestWaitCondition(unblockedWith[t], itemValue[t])

(* xEventGroupSync is a synchronisation point: nobody leaves a meeting     *)
(* before everybody has come to it, also when a fast task comes back       *)
(* before the slow ones have run, and nobody sleeps on when all have come  *)
(* (event_groups.c:176-267).                                               *)
SyncIsABarrier ==
    /\ \A t, u \in SyncTasks : passed[t] <= arrived[u]
    /\ (\A t, u \in SyncTasks : arrived[t] = arrived[u])
       => \A t \in SyncTasks : waiting[t] # "blocked"
=============================================================================
