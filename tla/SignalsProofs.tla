--------------------------- MODULE SignalsProofs ----------------------------
(***************************************************************************)
(* How tasks signal each other: the notified task never sleeps without a   *)
(* reason, whatever bits the callers use (Notify); nobody waits in vain    *)
(* for the bits of an event group, for any number of tasks and bits, and   *)
(* xEventGroupSync is a barrier (EventGroup).  And how threads do, on      *)
(* which all of this stands: only the code of the current task runs        *)
(* (PosixPort).                                                            *)
(***************************************************************************)
EXTENDS Notify, EventGroup, PosixPort, SequenceProofs, TLAPS

(* What makes SleepsForAReason inductive: a task is put on                 *)
(* xPendingReadyList only while the scheduler is suspended and only once,  *)
(* a task that waits is inside a call and on no other list, and one that   *)
(* is held is on xSuspendedTaskList.                                       *)
PendsOnce ==
    /\ xPendingReady <= 1
    /\ xPendingReady > 0 => uxSchedulerSuspended

WaitsInACall ==
    ucNotifyState = "waiting" =>
        /\ xPendingReady = 0 /\ ~ held
        /\ call # NoCall
        /\ call.name = "take" => ulNotifiedValue = 0

HeldIsSuspended == held => xStateListItem = "suspended"

NotifyInv == SleepsForAReason /\ PendsOnce /\ WaitsInACall /\ HeldIsSuspended

(* Clearing bits of a value gives a value, and nothing is cleared of zero. *)
LEMMA AndNotValue ==
    ASSUME NEW a \in NotifiedValues, NEW b \in NotifiedValues
    PROVE  /\ AndNot(a, b) \in NotifiedValues
           /\ a = 0 => AndNot(a, b) = 0
<1> DEFINE P(v) == \A i \in 0..1 : Bit(v, i) = IF Bit(b, i) = 1 THEN 0 ELSE Bit(a, i)
<1>1. /\ P(0) \/ P(1) \/ P(2) \/ P(3)
      /\ \A v \in 0..3 : a = 0 /\ P(v) => v = 0
    BY DEF NotifiedValues, Bit
<1>2. \E v \in NotifiedValues : P(v)
    BY <1>1 DEF NotifiedValues
<1>3. AndNot(a, b) \in NotifiedValues /\ P(AndNot(a, b))
    BY <1>2 DEF AndNot
<1> QED BY <1>1, <1>3 DEF NotifiedValues

(* Setting bits of a value gives a value. *)
LEMMA OrValue ==
    ASSUME NEW a \in NotifiedValues, NEW b \in NotifiedValues
    PROVE  Or(a, b) \in NotifiedValues
<1> DEFINE P(v) == \A i \in 0..1 : Bit(v, i) = IF Bit(a, i) + Bit(b, i) > 0 THEN 1 ELSE 0
<1>1. P(0) \/ P(1) \/ P(2) \/ P(3)
    BY DEF NotifiedValues, Bit
<1>2. \E v \in NotifiedValues : P(v)
    BY <1>1 DEF NotifiedValues
<1> QED BY <1>2 DEF Or

(* Every notification leaves a value of the width of the variable. *)
LEMMA UpdateValue ==
    ASSUME ulNotifiedValue \in NotifiedValues,
           NEW action \in eActions, NEW v \in Masks, Update(action, v)
    PROVE  ulNotifiedValue' \in NotifiedValues
<1>1. v \in NotifiedValues
    BY MasksAssumption
<1>2. Or(ulNotifiedValue, v) \in NotifiedValues
    BY <1>1, OrValue
<1>3. (ulNotifiedValue + 1) % 4 \in NotifiedValues
    BY DEF NotifiedValues
<1> QED BY <1>1, <1>2, <1>3 DEF Update, eActions

(* The first critical section: the task blocks only in a state that keeps  *)
(* it waiting, and without a count when it takes.                          *)
LEMMA BeginKeeps ==
    ASSUME NotifyInv, NEW c \in Calls, NotifyBegin(c)
    PROVE  NotifyInv'
<1> USE DEF NotifyInv, SleepsForAReason, NotifyTypeOK, PendsOnce, WaitsInACall, HeldIsSuspended,
            Asleep, TaskRuns
<1>1. ~ held /\ xPendingReady = 0 /\ ucNotifyState # "waiting" /\ ~ asserted
    BY DEF NotifyBegin
<1>2. UNCHANGED <<xPendingReady, uxSchedulerSuspended, held, asserted>> /\ call' = c
    BY DEF NotifyBegin
<1>3. c # NoCall /\ c \in Calls \cup {NoCall}
    BY DEF Calls, NoCall
<1>4. CASE c.name = "take" /\ ulNotifiedValue = 0
  <2>1. Block(0)
    BY <1>4 DEF NotifyBegin
  <2>2. ulNotifiedValue' = 0
    BY <1>4, <2>1, AndNotValue DEF Block, NotifiedValues
  <2> QED BY <1>1, <1>2, <1>3, <2>1, <2>2 DEF Block, NotifiedValues
<1>5. CASE c.name = "wait" /\ ucNotifyState # "received"
  <2>1. Block(c.entry) /\ c.entry \in NotifiedValues
    BY <1>5, MasksAssumption DEF NotifyBegin, Calls
  <2>2. ulNotifiedValue' \in NotifiedValues
    BY <2>1, AndNotValue DEF Block
  <2> QED BY <1>1, <1>2, <1>3, <1>5, <2>1, <2>2 DEF Block
<1>6. CASE /\ ~ (c.name = "take" /\ ulNotifiedValue = 0)
           /\ ~ (c.name = "wait" /\ ucNotifyState # "received")
  <2>1. UNCHANGED <<ulNotifiedValue, ucNotifyState, xStateListItem>>
    BY <1>6 DEF NotifyBegin
  <2> QED BY <1>1, <1>2, <1>3, <2>1
<1> QED BY <1>4, <1>5, <1>6

(* The second critical section ends the wait. *)
LEMMA EndKeeps ==
    ASSUME NotifyInv, NotifyEnd
    PROVE  NotifyInv'
<1>1. ulNotifiedValue' \in NotifiedValues
  <2>1. CASE xTaskNotifyWaitEnds
    <3>1. call \in Calls
        BY <2>1 DEF NotifyInv, SleepsForAReason, NotifyTypeOK, NoCall, xTaskNotifyWaitEnds
    <3>2. call.exit \in NotifiedValues
        BY <2>1, <3>1, MasksAssumption DEF Calls, xTaskNotifyWaitEnds
    <3> QED BY <2>1, <3>2, AndNotValue
            DEF xTaskNotifyWaitEnds, NotifyInv, SleepsForAReason, NotifyTypeOK
  <2>2. CASE ulTaskNotifyTakeEnds
    BY <2>2 DEF ulTaskNotifyTakeEnds, NotifyInv, SleepsForAReason, NotifyTypeOK,
                NotifiedValues
  <2> QED BY <2>1, <2>2 DEF NotifyEnd
<1>2. /\ ~ held /\ xPendingReady = 0
      /\ UNCHANGED <<xStateListItem, xPendingReady, uxSchedulerSuspended, held, asserted>>
      /\ xStateListItem = "ready" /\ ucNotifyState' = "not" /\ call' = NoCall
    BY DEF NotifyEnd, TaskRuns, NotifyInv, SleepsForAReason, NotifyTypeOK, PendsOnce, Asleep
<1> QED BY <1>1, <1>2 DEF NotifyInv, SleepsForAReason, NotifyTypeOK, PendsOnce,
           WaitsInACall, HeldIsSuspended, Asleep

(* A notification, from a task or an interrupt handler, wakes the task     *)
(* exactly when it waits.                                                  *)
LEMMA NotificationKeeps ==
    ASSUME NotifyInv, NEW a \in eActions, NEW v \in Masks,
           xTaskGenericNotify(a, v) \/ xTaskGenericNotifyFromISR(a, v)
    PROVE  NotifyInv'
<1>1. Update(a, v) /\ ucNotifyState' = "received"
    BY DEF xTaskGenericNotify, xTaskGenericNotifyFromISR
<1>2. ulNotifiedValue' \in NotifiedValues
    BY <1>1, UpdateValue DEF NotifyInv, SleepsForAReason, NotifyTypeOK
<1>3. UNCHANGED <<uxSchedulerSuspended, call, held>>
    BY DEF xTaskGenericNotify, xTaskGenericNotifyFromISR
<1> USE DEF NotifyInv, SleepsForAReason, NotifyTypeOK, PendsOnce,
            WaitsInACall, HeldIsSuspended, Asleep
<1>4. CASE xTaskGenericNotify(a, v)
    BY <1>1, <1>2, <1>3, <1>4 DEF xTaskGenericNotify
<1>5. CASE xTaskGenericNotifyFromISR(a, v)
    BY <1>1, <1>2, <1>3, <1>5 DEF xTaskGenericNotifyFromISR, WakeFromISR
<1> QED BY <1>4, <1>5

(* Suspensions, resumptions, ticks and the clearing of the state. *)
LEMMA OthersKeep ==
    ASSUME NotifyInv,
           \/ xTaskNotifyStateClear \/ NotifyTimeOut
           \/ NotifySuspendAll \/ NotifyResumeAll
           \/ NotifySuspendTask \/ NotifyResumeTask \/ NotifyResumeTaskFromISR
    PROVE  NotifyInv'
<1> USE DEF NotifyInv, SleepsForAReason, NotifyTypeOK, PendsOnce,
            WaitsInACall, HeldIsSuspended, Asleep,
            LooksSuspended
<1>1. CASE xTaskNotifyStateClear
    BY <1>1 DEF xTaskNotifyStateClear
<1>2. CASE NotifyTimeOut
    BY <1>2 DEF NotifyTimeOut
<1>3. CASE NotifySuspendAll
    BY <1>3 DEF NotifySuspendAll
<1>4. CASE NotifyResumeAll
  <2>1. uxSchedulerSuspended' \in BOOLEAN
    BY <1>4, Zenon DEF NotifyResumeAll
  <2> QED BY <1>4, <2>1 DEF NotifyResumeAll
<1>5. CASE NotifySuspendTask
    BY <1>5 DEF NotifySuspendTask
<1>6. CASE NotifyResumeTask
    BY <1>6 DEF NotifyResumeTask
<1>7. CASE NotifyResumeTaskFromISR
  <2>1. held' \in BOOLEAN
    BY <1>7, Zenon DEF NotifyResumeTaskFromISR
  <2> QED BY <1>7, <2>1 DEF NotifyResumeTaskFromISR
<1> QED BY <1>1, <1>2, <1>3, <1>4, <1>5, <1>6, <1>7

(* A task that notifications are sent to sleeps exactly while it waits for *)
(* one or is held by vTaskSuspend, is put on xPendingReadyList at most     *)
(* once (the assertions of tasks.c:4622 and tasks.c:4742 hold), and no     *)
(* notification ends a suspension.                                         *)
THEOREM SleepsForAReasonAlways == NotifySpec => []SleepsForAReason
<1>1. NotifyInit => NotifyInv
  <2>1. NotifyInit => uxSchedulerSuspended \in BOOLEAN /\ held \in BOOLEAN /\ asserted \in BOOLEAN
    BY Zenon DEF NotifyInit
  <2> QED BY <2>1 DEF NotifyInit, NotifyInv, SleepsForAReason, NotifyTypeOK, PendsOnce,
           WaitsInACall, HeldIsSuspended, Asleep, NotifiedValues
<1>2. NotifyInv /\ [NotifyNext]_notifyVars => NotifyInv'
  <2> SUFFICES ASSUME NotifyInv, [NotifyNext]_notifyVars
               PROVE  NotifyInv'
    OBVIOUS
  <2>1. CASE UNCHANGED notifyVars
    BY <2>1 DEF notifyVars, NotifyInv, SleepsForAReason, NotifyTypeOK, PendsOnce,
                WaitsInACall, HeldIsSuspended, Asleep
  <2>2. CASE NotifyNext
    BY <2>2, BeginKeeps, EndKeeps, NotificationKeeps, OthersKeep DEF NotifyNext
  <2> QED BY <2>1, <2>2
<1>3. NotifyInv => SleepsForAReason
    BY DEF NotifyInv
<1> QED BY <1>1, <1>2, <1>3, PTL DEF NotifySpec

-----------------------------------------------------------------------------
(* Event groups. *)

Bits == SyncBits \cup FlagBits

(* The bits of the rendezvous are set by xEventGroupSync only: everything  *)
(* else, and what interrupts have pended, is about the flags.              *)
FlagsOnly ==
    /\ pendedCalls \in Seq([set : BOOLEAN, bits : SUBSET FlagBits])
    /\ \A t \in WaitTasks : itemValue[t].bits \subseteq FlagBits

(* The first m meetings are over.  Whoever has come to the next one sleeps *)
(* and its bit is set; those that were woken from the last one have not    *)
(* left it yet; somebody is still missing.                                 *)
Meeting(m) ==
    /\ \A t \in SyncTasks :
          /\ waiting[t] \in {"no", "blocked", "set"}
          /\ arrived[t] = IF waiting[t] = "blocked" THEN m + 1 ELSE m
          /\ passed[t] = IF waiting[t] = "set" THEN m - 1 ELSE m
          /\ t \in uxEventBits <=> waiting[t] = "blocked"
          /\ waiting[t] = "blocked" => itemValue[t] = Request(SyncBits, TRUE, TRUE)
    /\ \E t \in SyncTasks : waiting[t] # "blocked"

Meetings == \E m \in 0..MaxRounds : Meeting(m)

GroupInv == NobodyWaitsInVain /\ FlagsOnly /\ Meetings

-----------------------------------------------------------------------------
(* Bits that are cleared satisfy nobody who waits. *)
LEMMA ClearingWakesNobody ==
    ASSUME NEW few, NEW many, few \subseteq many, NEW r,
           ~ prvTestWaitCondition(many, r)
    PROVE  ~ prvTestWaitCondition(few, r)
<1>1. CASE r.all
    BY <1>1 DEF prvTestWaitCondition
<1>2. CASE ~ r.all
    BY <1>2 DEF prvTestWaitCondition
<1> QED BY <1>1, <1>2

(* A rendezvous is over when the bits of all are set. *)
LEMMA SyncCondition ==
    ASSUME NEW now
    PROVE  prvTestWaitCondition(now, Request(SyncBits, TRUE, TRUE)) <=> SyncBits \subseteq now
BY DEF prvTestWaitCondition, Request

(* What the walk over the waiting tasks does, for whatever bits. *)
LEMMA Walk ==
    ASSUME GroupTypeOK, NEW now \in SUBSET Bits, NobodyWaitsInVain, Wake(now)
    PROVE  /\ Woken(now) \in [GroupTasks -> {"no", "blocked", "set", "timeout", "deleted"}]
           /\ unblockedWith' \in [GroupTasks -> SUBSET Bits]
           /\ \A t \in GroupTasks : Woken(now)[t] = "blocked"
                 => waiting[t] = "blocked" /\ ~ prvTestWaitCondition(now, itemValue[t])
           /\ \A t \in GroupTasks : Woken(now)[t] = "set"
                 => prvTestWaitCondition(unblockedWith'[t], itemValue[t])
           /\ \A t \in GroupTasks : waiting[t] = "no" => Woken(now)[t] = "no"
<1> USE DEF GroupTypeOK, Bits, Matched
<1>1. Woken(now) \in [GroupTasks -> {"no", "blocked", "set", "timeout", "deleted"}]
    BY DEF Woken
<1>2. unblockedWith' \in [GroupTasks -> SUBSET Bits]
    BY DEF Wake
<1>3. \A t \in GroupTasks :
         /\ Woken(now)[t] = IF t \in Matched(now) THEN "set" ELSE waiting[t]
         /\ unblockedWith'[t] = IF t \in Matched(now) THEN now ELSE unblockedWith[t]
    BY DEF Woken, Wake
<1>4. \A t \in GroupTasks : t \in Matched(now)
         <=> waiting[t] = "blocked" /\ prvTestWaitCondition(now, itemValue[t])
    OBVIOUS
<1> HIDE DEF GroupTypeOK, Bits, Matched
<1>5. ASSUME NEW t \in GroupTasks, Woken(now)[t] = "blocked"
      PROVE  waiting[t] = "blocked" /\ ~ prvTestWaitCondition(now, itemValue[t])
    BY <1>3, <1>4, <1>5
<1>6. ASSUME NEW t \in GroupTasks, Woken(now)[t] = "set"
      PROVE  prvTestWaitCondition(unblockedWith'[t], itemValue[t])
  <2>1. CASE t \in Matched(now)
    BY <1>3, <1>4, <2>1
  <2>2. CASE t \notin Matched(now)
    BY <1>3, <1>6, <2>2 DEF NobodyWaitsInVain
  <2> QED BY <2>1, <2>2
<1>7. ASSUME NEW t \in GroupTasks, waiting[t] = "no"
      PROVE  Woken(now)[t] = "no"
    BY <1>3, <1>4, <1>7
<1> QED BY <1>1, <1>2, <1>5, <1>6, <1>7

(* While somebody is missing the walk leaves the rendezvous alone.         *)
LEMMA WalkWithoutMeeting ==
    ASSUME GroupInv, NEW now \in SUBSET Bits, ~ (SyncBits \subseteq now)
    PROVE  /\ \A t \in SyncTasks : Woken(now)[t] = waiting[t]
           /\ ToClear(Matched(now)) \subseteq FlagBits
<1>1. PICK m \in 0..MaxRounds : Meeting(m)
    BY DEF GroupInv, Meetings
<1>2. \A t \in SyncTasks : t \notin Matched(now)
    BY <1>1, SyncCondition DEF Meeting, Matched
<1>3. \A t \in SyncTasks : Woken(now)[t] = waiting[t]
    BY <1>2 DEF Woken, GroupTasks
<1>4. \A t \in Matched(now) : itemValue[t].bits \subseteq FlagBits
    BY <1>2 DEF Matched, GroupTasks, GroupInv, FlagsOnly
<1> QED BY <1>3, <1>4 DEF ToClear

(* The last one to come wakes all the others. *)
LEMMA WalkAtMeeting ==
    ASSUME GroupInv, NEW now \in SUBSET Bits, SyncBits \subseteq now
    PROVE  \A t \in SyncTasks :
              Woken(now)[t] = IF waiting[t] = "blocked" THEN "set" ELSE waiting[t]
<1>1. PICK m \in 0..MaxRounds : Meeting(m)
    BY DEF GroupInv, Meetings
<1>2. \A t \in SyncTasks : t \in Matched(now) <=> waiting[t] = "blocked"
    BY <1>1, SyncCondition DEF Meeting, Matched, GroupTasks
<1> QED BY <1>2 DEF Woken, GroupTasks

(* The bits of the rendezvous are never all set between two steps. *)
LEMMA SomebodyIsMissing ==
    ASSUME GroupInv
    PROVE  ~ (SyncBits \subseteq uxEventBits)
BY DEF GroupInv, Meetings, Meeting, SyncBits

-----------------------------------------------------------------------------
(* A step that leaves the tasks of the rendezvous and their bits as they   *)
(* were leaves the meeting as it was.                                      *)
LEMMA MeetingUntouched ==
    ASSUME Meetings, UNCHANGED <<arrived, passed>>,
           \A t \in SyncTasks : /\ waiting'[t] = waiting[t]
                                /\ itemValue'[t] = itemValue[t]
                                /\ t \in uxEventBits' <=> t \in uxEventBits
    PROVE  Meetings'
<1>1. PICK m \in 0..MaxRounds : Meeting(m)
    BY DEF Meetings
<1>2. Meeting(m)'
    BY <1>1 DEF Meeting
<1> QED BY <1>2 DEF Meetings

(* The timer task takes a pended call out of its queue. *)
LEMMA FewerPended ==
    ASSUME GroupInv, UNCHANGED itemValue,
           pendedCalls' = pendedCalls \/ (pendedCalls # <<>> /\ pendedCalls' = Tail(pendedCalls))
    PROVE  FlagsOnly' /\ Len(pendedCalls') <= MaxPended
<1> DEFINE Pended == [set : BOOLEAN, bits : SUBSET FlagBits]
<1>1. pendedCalls \in Seq(Pended) /\ Len(pendedCalls) <= MaxPended
    BY DEF GroupInv, FlagsOnly, NobodyWaitsInVain, GroupTypeOK
<1>2. pendedCalls' \in Seq(Pended) /\ Len(pendedCalls') <= MaxPended
  <2> HIDE DEF Pended
  <2> QED BY <1>1, GroupAssumption
<1> QED BY <1>2 DEF GroupInv, FlagsOnly

(* xEventGroupSetBits with flags, from a task or the timer task. *)
LEMMA SetBitsKeeps ==
    ASSUME GroupInv, NEW bits \in SUBSET FlagBits, xEventGroupSetBits(bits),
           pendedCalls' = pendedCalls \/ (pendedCalls # <<>> /\ pendedCalls' = Tail(pendedCalls))
    PROVE  GroupInv'
<1> DEFINE now == uxEventBits \cup bits
<1>1. /\ waiting' = Woken(now) /\ Wake(now)
      /\ uxEventBits' = now \ ToClear(Matched(now))
      /\ UNCHANGED <<groupExists, itemValue, arrived, passed>>
    BY DEF xEventGroupSetBits
<1>2. now \in SUBSET Bits /\ ~ (SyncBits \subseteq now)
    BY SomebodyIsMissing, GroupAssumption
    DEF GroupInv, NobodyWaitsInVain, GroupTypeOK, Bits, SyncBits
<1> HIDE DEF now
<1>3. GroupTypeOK /\ NobodyWaitsInVain
    BY DEF GroupInv, NobodyWaitsInVain
<1>4. FlagsOnly' /\ Len(pendedCalls') <= MaxPended
    BY <1>1, FewerPended
<1>5. GroupTypeOK'
    BY <1>1, <1>2, <1>3, <1>4, Walk DEF GroupTypeOK, Bits
<1>6. NobodyWaitsInVain'
    BY <1>1, <1>2, <1>3, <1>5, Walk, ClearingWakesNobody DEF NobodyWaitsInVain
<1>7. Meetings'
  <2>1. \A t \in SyncTasks : t \in uxEventBits' <=> t \in uxEventBits
    BY <1>1, <1>2, WalkWithoutMeeting, GroupAssumption DEF now
  <2> QED BY <1>1, <1>2, <2>1, WalkWithoutMeeting, MeetingUntouched DEF GroupInv
<1> QED BY <1>4, <1>6, <1>7 DEF GroupInv

(* xEventGroupClearBits with flags. *)
LEMMA ClearBitsKeeps ==
    ASSUME GroupInv, NEW bits \in SUBSET FlagBits, xEventGroupClearBits(bits),
           pendedCalls' = pendedCalls \/ (pendedCalls # <<>> /\ pendedCalls' = Tail(pendedCalls))
    PROVE  GroupInv'
<1>1. /\ uxEventBits' = uxEventBits \ bits
      /\ UNCHANGED <<groupExists, waiting, itemValue, unblockedWith, arrived, passed>>
    BY DEF xEventGroupClearBits
<1>2. FlagsOnly' /\ Len(pendedCalls') <= MaxPended
    BY <1>1, FewerPended
<1>3. NobodyWaitsInVain'
    BY <1>1, <1>2, ClearingWakesNobody DEF GroupInv, NobodyWaitsInVain, GroupTypeOK
<1>4. Meetings'
    BY <1>1, MeetingUntouched, GroupAssumption DEF GroupInv
<1> QED BY <1>2, <1>3, <1>4 DEF GroupInv

(* A task begins to wait only for bits that are not there. *)
LEMMA WaitBitsKeeps ==
    ASSUME GroupInv, NEW t \in WaitTasks, waiting[t] = "no",
           NEW b \in SUBSET FlagBits, NEW all \in BOOLEAN, NEW clear \in BOOLEAN,
           xEventGroupWaitBits(t, Request(b, all, clear))
    PROVE  GroupInv'
<1> DEFINE r == Request(b, all, clear)
<1>1. /\ r \in [bits : SUBSET (SyncBits \cup FlagBits), all : BOOLEAN, clear : BOOLEAN]
      /\ r.bits = b
    BY DEF Request
<1> HIDE DEF r
<1>2. UNCHANGED <<groupExists, unblockedWith, pendedCalls, arrived, passed>>
    BY DEF xEventGroupWaitBits
<1>3. t \in GroupTasks /\ t \notin SyncTasks
    BY GroupAssumption DEF GroupTasks
<1>4. CASE prvTestWaitCondition(uxEventBits, r)
  <2>1. UNCHANGED <<waiting, itemValue>> /\ uxEventBits' \subseteq uxEventBits
        /\ (uxEventBits' = uxEventBits \/ uxEventBits' = uxEventBits \ b)
    BY <1>1, <1>4 DEF xEventGroupWaitBits, r
  <2>2. NobodyWaitsInVain'
    BY <1>2, <2>1, ClearingWakesNobody DEF GroupInv, NobodyWaitsInVain, GroupTypeOK
  <2>3. Meetings'
    BY <1>2, <2>1, MeetingUntouched, GroupAssumption DEF GroupInv
  <2> QED BY <1>2, <2>1, <2>2, <2>3 DEF GroupInv, FlagsOnly
<1>5. CASE ~ prvTestWaitCondition(uxEventBits, r)
  <2>1. /\ waiting' = [waiting EXCEPT ![t] = "blocked"]
        /\ itemValue' = [itemValue EXCEPT ![t] = r]
        /\ UNCHANGED uxEventBits
    BY <1>5 DEF xEventGroupWaitBits, r
  <2>2. NobodyWaitsInVain'
    BY <1>1, <1>2, <1>3, <1>5, <2>1 DEF GroupInv, NobodyWaitsInVain, GroupTypeOK
  <2>3. Meetings'
    BY <1>2, <1>3, <2>1, MeetingUntouched DEF GroupInv, NobodyWaitsInVain, GroupTypeOK, GroupTasks
  <2>4. FlagsOnly'
    BY <1>1, <1>2, <1>3, <2>1 DEF GroupInv, FlagsOnly, NobodyWaitsInVain, GroupTypeOK, GroupTasks
  <2> QED BY <2>2, <2>3, <2>4 DEF GroupInv
<1> QED BY <1>4, <1>5

-----------------------------------------------------------------------------
(* What every rendezvous does, whoever comes to it: nobody is left asleep  *)
(* beside the bits it waits for.                                           *)
LEMMA RendezvousServesAll ==
    ASSUME GroupInv, NEW t \in GroupTasks, waiting[t] = "no",
           NEW bits \in SUBSET Bits, NEW all \in SUBSET Bits, NEW blocks \in BOOLEAN,
           Rendezvous(t, bits, all, blocks)
    PROVE  /\ uxEventBits' \subseteq Bits
           /\ waiting' \in [GroupTasks -> {"no", "blocked", "set", "timeout", "deleted"}]
           /\ itemValue' \in [GroupTasks -> [bits : SUBSET Bits, all : BOOLEAN, clear : BOOLEAN]]
           /\ unblockedWith' \in [GroupTasks -> SUBSET Bits]
           /\ \A u \in GroupTasks :
                 /\ waiting'[u] = "blocked" => ~ prvTestWaitCondition(uxEventBits', itemValue'[u])
                 /\ waiting'[u] = "set" => prvTestWaitCondition(unblockedWith'[u], itemValue'[u])
<1> DEFINE now == uxEventBits \cup bits
           left == now \ ToClear(Matched(now))
           met == all \subseteq now
           r == Request(all, TRUE, TRUE)
<1>1. /\ Wake(now)
      /\ uxEventBits' = IF met THEN left \ all ELSE left
      /\ waiting' = IF met \/ ~ blocks THEN Woken(now) ELSE [Woken(now) EXCEPT ![t] = "blocked"]
      /\ itemValue' = IF met \/ ~ blocks THEN itemValue ELSE [itemValue EXCEPT ![t] = r]
    BY DEF Rendezvous
<1>2. GroupTypeOK /\ NobodyWaitsInVain /\ now \in SUBSET Bits
    BY DEF GroupInv, NobodyWaitsInVain, GroupTypeOK, Bits
<1>3. r \in [bits : SUBSET Bits, all : BOOLEAN, clear : BOOLEAN]
    BY DEF Request
<1>4. ~ met => ~ prvTestWaitCondition(now, r)
    BY DEF prvTestWaitCondition, Request
<1>5. uxEventBits' \subseteq now
    BY <1>1
<1> HIDE DEF now, left, met, r
<1>6. uxEventBits' \subseteq Bits /\ unblockedWith' \in [GroupTasks -> SUBSET Bits]
    BY <1>1, <1>2, <1>5, Walk
<1>7. itemValue \in [GroupTasks -> [bits : SUBSET Bits, all : BOOLEAN, clear : BOOLEAN]]
    BY <1>2 DEF GroupTypeOK, Bits
<1>8. Woken(now) \in [GroupTasks -> {"no", "blocked", "set", "timeout", "deleted"}]
    BY <1>1, <1>2, Walk
<1>9. CASE met \/ ~ blocks
  <2>1. waiting' = Woken(now) /\ itemValue' = itemValue
    BY <1>1, <1>9
  <2>2. ASSUME NEW u \in GroupTasks, waiting'[u] = "blocked"
        PROVE  ~ prvTestWaitCondition(uxEventBits', itemValue'[u])
    BY <1>1, <1>2, <1>5, <2>1, <2>2, Walk, ClearingWakesNobody
  <2>3. ASSUME NEW u \in GroupTasks, waiting'[u] = "set"
        PROVE  prvTestWaitCondition(unblockedWith'[u], itemValue'[u])
    BY <1>1, <1>2, <2>1, <2>3, Walk
  <2> QED BY <1>6, <1>7, <1>8, <2>1, <2>2, <2>3
<1>10. CASE ~ (met \/ ~ blocks)
  <2>1. /\ waiting' = [Woken(now) EXCEPT ![t] = "blocked"]
        /\ itemValue' = [itemValue EXCEPT ![t] = r]
    BY <1>1, <1>10
  <2>2. waiting'[t] = "blocked" /\ itemValue'[t] = r
    BY <1>7, <1>8, <2>1
  <2>3. ASSUME NEW u \in GroupTasks, u # t
        PROVE  waiting'[u] = Woken(now)[u] /\ itemValue'[u] = itemValue[u]
    BY <1>7, <1>8, <2>1, <2>3
  <2>4. ASSUME NEW u \in GroupTasks, waiting'[u] = "blocked"
        PROVE  ~ prvTestWaitCondition(uxEventBits', itemValue'[u])
    <3>1. ~ prvTestWaitCondition(now, itemValue'[u])
        BY <1>1, <1>2, <1>4, <1>10, <2>2, <2>3, <2>4, Walk
    <3> QED BY <1>5, <3>1, ClearingWakesNobody
  <2>5. ASSUME NEW u \in GroupTasks, waiting'[u] = "set"
        PROVE  prvTestWaitCondition(unblockedWith'[u], itemValue'[u])
    BY <1>1, <1>2, <2>2, <2>3, <2>5, Walk
  <2>6. /\ waiting' \in [GroupTasks -> {"no", "blocked", "set", "timeout", "deleted"}]
        /\ itemValue' \in [GroupTasks -> [bits : SUBSET Bits, all : BOOLEAN, clear : BOOLEAN]]
    BY <1>3, <1>7, <1>8, <2>1
  <2> QED BY <1>6, <2>4, <2>5, <2>6
<1> QED BY <1>9, <1>10

(* A rendezvous about flags does not touch the meeting. *)
LEMMA SyncWithTimeOutKeeps ==
    ASSUME GroupInv, NEW t \in WaitTasks, waiting[t] = "no",
           NEW bits \in SUBSET FlagBits, NEW all \in SUBSET FlagBits, NEW blocks \in BOOLEAN,
           SyncWithTimeOut(t, bits, all, blocks)
    PROVE  GroupInv'
<1> DEFINE now == uxEventBits \cup bits
<1>1. /\ Rendezvous(t, bits, all, blocks)
      /\ UNCHANGED <<groupExists, pendedCalls, arrived, passed>>
      /\ t \in GroupTasks /\ t \notin SyncTasks
    BY GroupAssumption DEF SyncWithTimeOut, Rendezvous, GroupTasks
<1>2. NobodyWaitsInVain'
  <2>1. bits \in SUBSET Bits /\ all \in SUBSET Bits
    BY DEF Bits
  <2>2. GroupTypeOK
    BY DEF GroupInv, NobodyWaitsInVain
  <2>3. /\ uxEventBits' \subseteq Bits
        /\ waiting' \in [GroupTasks -> {"no", "blocked", "set", "timeout", "deleted"}]
        /\ itemValue' \in [GroupTasks -> [bits : SUBSET Bits, all : BOOLEAN, clear : BOOLEAN]]
        /\ unblockedWith' \in [GroupTasks -> SUBSET Bits]
        /\ \A u \in GroupTasks :
              /\ waiting'[u] = "blocked" => ~ prvTestWaitCondition(uxEventBits', itemValue'[u])
              /\ waiting'[u] = "set" => prvTestWaitCondition(unblockedWith'[u], itemValue'[u])
    BY <1>1, <2>1, RendezvousServesAll
  <2>4. GroupTypeOK'
    BY <1>1, <2>2, <2>3 DEF GroupTypeOK, Bits
  <2> QED BY <2>3, <2>4 DEF NobodyWaitsInVain
<1>3. now \in SUBSET Bits /\ ~ (SyncBits \subseteq now)
    BY SomebodyIsMissing, GroupAssumption
    DEF GroupInv, NobodyWaitsInVain, GroupTypeOK, Bits, SyncBits
<1>4. \A u \in SyncTasks : Woken(now)[u] = waiting[u]
    BY <1>3, WalkWithoutMeeting
<1>5. ToClear(Matched(now)) \subseteq FlagBits
    BY <1>3, WalkWithoutMeeting
<1>6. \A u \in SyncTasks : u \in uxEventBits' <=> u \in uxEventBits
    BY <1>1, <1>5, GroupAssumption DEF Rendezvous
<1> HIDE DEF now
<1>7. /\ Woken(now) \in [GroupTasks -> {"no", "blocked", "set", "timeout", "deleted"}]
      /\ itemValue \in [GroupTasks -> [bits : SUBSET Bits, all : BOOLEAN, clear : BOOLEAN]]
  <2>1. Wake(now)
    BY <1>1 DEF Rendezvous, now
  <2> QED BY <1>3, <2>1, Walk DEF GroupInv, NobodyWaitsInVain, GroupTypeOK, Bits
<1>8. /\ waiting' = Woken(now) \/ waiting' = [Woken(now) EXCEPT ![t] = "blocked"]
      /\ itemValue' = itemValue \/ itemValue' = [itemValue EXCEPT ![t] = Request(all, TRUE, TRUE)]
    BY <1>1 DEF Rendezvous, now
<1>9. \A u \in SyncTasks : waiting'[u] = waiting[u] /\ itemValue'[u] = itemValue[u]
    BY <1>1, <1>4, <1>7, <1>8 DEF GroupTasks
<1>10. Meetings'
    BY <1>1, <1>6, <1>9, MeetingUntouched DEF GroupInv
<1>11. FlagsOnly'
  <2>1. Request(all, TRUE, TRUE).bits = all
    BY DEF Request
  <2>2. \A u \in WaitTasks : itemValue'[u] = itemValue[u] \/ itemValue'[u].bits = all
    BY <1>1, <1>7, <1>8, <2>1 DEF GroupTasks
  <2> QED BY <1>1, <2>2 DEF GroupInv, FlagsOnly
<1> QED BY <1>2, <1>10, <1>11 DEF GroupInv

(* Coming to the meeting: the last one ends it and begins the next,        *)
(* everybody else sleeps with its bit set.                                 *)
LEMMA SyncMeets ==
    ASSUME GroupInv, NEW t \in SyncTasks, waiting[t] = "no", xEventGroupSync(t)
    PROVE  Meetings'
<1> DEFINE now == uxEventBits \cup {t}
<1>1. PICK m \in 0..MaxRounds : Meeting(m)
    BY DEF GroupInv, Meetings
<1>2. /\ arrived[t] = m /\ passed[t] = m /\ m + 1 \in 0..MaxRounds
  <2>1. arrived[t] = m /\ passed[t] = m /\ arrived[t] < MaxRounds
    BY <1>1 DEF xEventGroupSync, Meeting
  <2> QED BY <2>1, GroupAssumption
<1>3. /\ Rendezvous(t, {t}, SyncBits, TRUE)
      /\ arrived' = [arrived EXCEPT ![t] = arrived[t] + 1]
      /\ passed' = IF waiting'[t] = "blocked" THEN passed
                   ELSE [passed EXCEPT ![t] = passed[t] + 1]
    BY DEF xEventGroupSync
<1>4. /\ arrived \in [SyncTasks -> 0..MaxRounds] /\ passed \in [SyncTasks -> 0..MaxRounds]
      /\ now \in SUBSET Bits
    BY DEF GroupInv, NobodyWaitsInVain, GroupTypeOK, Bits, SyncBits
<1>5. /\ Wake(now)
      /\ waiting' = IF SyncBits \subseteq now THEN Woken(now)
                    ELSE [Woken(now) EXCEPT ![t] = "blocked"]
      /\ uxEventBits' = IF SyncBits \subseteq now
                        THEN (now \ ToClear(Matched(now))) \ SyncBits
                        ELSE now \ ToClear(Matched(now))
      /\ itemValue' = IF SyncBits \subseteq now THEN itemValue
                      ELSE [itemValue EXCEPT ![t] = Request(SyncBits, TRUE, TRUE)]
    BY <1>3 DEF Rendezvous
<1>6. /\ Woken(now) \in [GroupTasks -> {"no", "blocked", "set", "timeout", "deleted"}]
      /\ itemValue \in [GroupTasks -> [bits : SUBSET Bits, all : BOOLEAN, clear : BOOLEAN]]
    BY <1>4, <1>5, Walk DEF GroupInv, NobodyWaitsInVain, GroupTypeOK, Bits
<1>7. SyncTasks \subseteq GroupTasks /\ SyncBits = SyncTasks
    BY DEF GroupTasks, SyncBits
<1>8. \A u \in SyncTasks : u \in now <=> (u = t \/ waiting[u] = "blocked")
    BY <1>1 DEF Meeting
<1> HIDE DEF now
<1>9. CASE SyncBits \subseteq now
  <2>1. \A u \in SyncTasks : /\ waiting[u] = "blocked" \/ u = t
                             /\ waiting'[u] = IF u = t THEN "no" ELSE "set"
                             /\ u \notin uxEventBits'
    BY <1>4, <1>5, <1>7, <1>8, <1>9, WalkAtMeeting
  <2>2. \A u \in SyncTasks : /\ arrived'[u] = m + 1
                             /\ passed'[u] = IF u = t THEN m + 1 ELSE m
    BY <1>1, <1>2, <1>3, <1>4, <2>1 DEF Meeting
  <2>3. ASSUME NEW u \in SyncTasks
        PROVE  /\ waiting'[u] \in {"no", "blocked", "set"}
               /\ arrived'[u] = IF waiting'[u] = "blocked" THEN (m + 1) + 1 ELSE m + 1
               /\ passed'[u] = IF waiting'[u] = "set" THEN (m + 1) - 1 ELSE m + 1
               /\ u \in uxEventBits' <=> waiting'[u] = "blocked"
               /\ waiting'[u] # "blocked"
    BY <2>1, <2>2
  <2>4. Meeting(m + 1)'
    BY <2>3 DEF Meeting
  <2> QED BY <1>2, <2>4 DEF Meetings
<1>10. CASE ~ (SyncBits \subseteq now)
  <2>1. /\ \A u \in SyncTasks : Woken(now)[u] = waiting[u]
        /\ ToClear(Matched(now)) \subseteq FlagBits
    BY <1>4, <1>10, WalkWithoutMeeting
  <2>2. \A u \in SyncTasks :
           /\ waiting'[u] = IF u = t THEN "blocked" ELSE waiting[u]
           /\ itemValue'[u] = IF u = t THEN Request(SyncBits, TRUE, TRUE) ELSE itemValue[u]
    BY <1>5, <1>6, <1>7, <1>10, <2>1
  <2>3. \A u \in SyncTasks : u \in uxEventBits' <=> u \in now
    BY <1>5, <1>10, <2>1, GroupAssumption
  <2>4. \A u \in SyncTasks : /\ arrived'[u] = IF u = t THEN m + 1 ELSE arrived[u]
                             /\ passed'[u] = passed[u]
    BY <1>2, <1>3, <1>4, <2>2
  <2>5. ASSUME NEW u \in SyncTasks
        PROVE  /\ waiting'[u] \in {"no", "blocked", "set"}
               /\ arrived'[u] = IF waiting'[u] = "blocked" THEN m + 1 ELSE m
               /\ passed'[u] = IF waiting'[u] = "set" THEN m - 1 ELSE m
               /\ u \in uxEventBits' <=> waiting'[u] = "blocked"
               /\ waiting'[u] = "blocked" => itemValue'[u] = Request(SyncBits, TRUE, TRUE)
    <3>1. CASE u = t
      BY <3>1, <1>2, <1>8, <2>2, <2>3, <2>4
    <3>2. CASE u # t
      BY <3>2, <1>1, <1>8, <2>2, <2>3, <2>4 DEF Meeting
    <3> QED BY <3>1, <3>2
  <2>6. PICK u \in SyncTasks : u \notin now
    BY <1>7, <1>10
  <2>7. u # t /\ waiting'[u] # "blocked"
    BY <1>8, <2>2, <2>6
  <2>8. Meeting(m)'
    BY <2>5, <2>7 DEF Meeting
  <2> QED BY <2>8 DEF Meetings
<1> QED BY <1>9, <1>10

LEMMA SyncKeeps ==
    ASSUME GroupInv, NEW t \in SyncTasks, waiting[t] = "no", xEventGroupSync(t)
    PROVE  GroupInv'
<1>1. Meetings'
    BY SyncMeets
<1>2. /\ Rendezvous(t, {t}, SyncBits, TRUE)
      /\ UNCHANGED <<groupExists, pendedCalls>>
      /\ t \in GroupTasks /\ {t} \in SUBSET Bits /\ SyncBits \in SUBSET Bits
    BY DEF xEventGroupSync, Rendezvous, GroupTasks, Bits, SyncBits
<1>3. /\ uxEventBits' \subseteq Bits
      /\ waiting' \in [GroupTasks -> {"no", "blocked", "set", "timeout", "deleted"}]
      /\ itemValue' \in [GroupTasks -> [bits : SUBSET Bits, all : BOOLEAN, clear : BOOLEAN]]
      /\ unblockedWith' \in [GroupTasks -> SUBSET Bits]
      /\ \A u \in GroupTasks :
            /\ waiting'[u] = "blocked" => ~ prvTestWaitCondition(uxEventBits', itemValue'[u])
            /\ waiting'[u] = "set" => prvTestWaitCondition(unblockedWith'[u], itemValue'[u])
    BY <1>2, RendezvousServesAll
<1>4. /\ arrived' \in [SyncTasks -> 0..MaxRounds] /\ passed' \in [SyncTasks -> 0..MaxRounds]
  <2>1. PICK m \in 0..MaxRounds : Meeting(m)
    BY DEF GroupInv, Meetings
  <2>2. arrived[t] + 1 \in 0..MaxRounds /\ passed[t] + 1 \in 0..MaxRounds
    <3>1. arrived[t] = m /\ passed[t] = m /\ arrived[t] < MaxRounds
        BY <2>1 DEF xEventGroupSync, Meeting
    <3> QED BY <3>1, GroupAssumption
  <2> QED BY <2>2 DEF GroupInv, NobodyWaitsInVain, GroupTypeOK, xEventGroupSync
<1>5. GroupTypeOK'
    BY <1>2, <1>3, <1>4 DEF GroupInv, NobodyWaitsInVain, GroupTypeOK, Bits
<1>6. FlagsOnly'
  <2>1. \A u \in WaitTasks : itemValue'[u] = itemValue[u]
    BY <1>2, GroupAssumption
    DEF Rendezvous, GroupInv, NobodyWaitsInVain, GroupTypeOK, GroupTasks
  <2> QED BY <1>2, <2>1 DEF GroupInv, FlagsOnly
<1> QED BY <1>1, <1>3, <1>5, <1>6 DEF GroupInv, NobodyWaitsInVain

-----------------------------------------------------------------------------
(* A time-out takes a task off the list; the meeting has none. *)
LEMMA TimeOutKeeps ==
    ASSUME GroupInv, NEW t \in GroupTasks, GroupTimeOut(t)
    PROVE  GroupInv'
<1>1. /\ t \in WaitTasks /\ t \notin SyncTasks
      /\ waiting' = [waiting EXCEPT ![t] = "timeout"]
      /\ UNCHANGED <<uxEventBits, groupExists, itemValue, unblockedWith, pendedCalls,
                     arrived, passed>>
    BY GroupAssumption DEF GroupTimeOut
<1>2. NobodyWaitsInVain'
    BY <1>1 DEF GroupInv, NobodyWaitsInVain, GroupTypeOK
<1>3. Meetings'
    BY <1>1, MeetingUntouched DEF GroupInv, NobodyWaitsInVain, GroupTypeOK, GroupTasks
<1> QED BY <1>1, <1>2, <1>3 DEF GroupInv, FlagsOnly

(* Running again: the bits a late task takes are flags, and a task that    *)
(* leaves the meeting has been to it.                                      *)
LEMMA WaitEndsKeeps ==
    ASSUME GroupInv, NEW t \in GroupTasks, WaitEnds(t)
    PROVE  GroupInv'
<1> DEFINE r == Request({}, TRUE, FALSE)
<1>1. PICK m \in 0..MaxRounds : Meeting(m)
    BY DEF GroupInv, Meetings
<1>2. /\ waiting' = [waiting EXCEPT ![t] = "no"]
      /\ itemValue' = [itemValue EXCEPT ![t] = r]
      /\ unblockedWith' = [unblockedWith EXCEPT ![t] = {}]
      /\ passed' = [u \in SyncTasks |-> IF u = t THEN passed[u] + 1 ELSE passed[u]]
      /\ UNCHANGED <<groupExists, pendedCalls, arrived>>
      /\ uxEventBits' = uxEventBits
           \/ (waiting[t] = "timeout" /\ uxEventBits' = uxEventBits \ itemValue[t].bits)
    BY DEF WaitEnds
<1>3. r \in [bits : SUBSET Bits, all : BOOLEAN, clear : BOOLEAN] /\ r.bits = {}
    BY DEF Request
<1> HIDE DEF r
<1>4. t \in SyncTasks => waiting[t] = "set" /\ arrived[t] = m /\ passed[t] + 1 = m
  <2>1. t \in SyncTasks => waiting[t] = "set"
    BY <1>1 DEF Meeting, WaitEnds
  <2>2. t \in SyncTasks => arrived[t] = m /\ passed[t] = m - 1
    BY <1>1, <2>1 DEF Meeting
  <2> QED BY <2>1, <2>2
<1>5. uxEventBits' \subseteq uxEventBits
      /\ \A u \in SyncTasks : u \in uxEventBits' <=> u \in uxEventBits
    BY <1>2, <1>4, GroupAssumption DEF GroupInv, FlagsOnly, GroupTasks
<1>6. GroupTypeOK'
  <2>1. passed' \in [SyncTasks -> 0..MaxRounds]
    BY <1>2, <1>4 DEF GroupInv, NobodyWaitsInVain, GroupTypeOK
  <2> QED BY <1>2, <1>3, <1>5, <2>1 DEF GroupInv, NobodyWaitsInVain, GroupTypeOK, Bits
<1>7. NobodyWaitsInVain'
  <2>1. ASSUME NEW u \in GroupTasks
        PROVE  /\ waiting'[u] = IF u = t THEN "no" ELSE waiting[u]
               /\ u # t => itemValue'[u] = itemValue[u] /\ unblockedWith'[u] = unblockedWith[u]
    BY <1>2 DEF GroupInv, NobodyWaitsInVain, GroupTypeOK
  <2> QED BY <1>5, <1>6, <2>1, ClearingWakesNobody DEF GroupInv, NobodyWaitsInVain
<1>8. Meeting(m)'
  <2>1. \A u \in SyncTasks :
           /\ waiting'[u] = IF u = t THEN "no" ELSE waiting[u]
           /\ u # t => itemValue'[u] = itemValue[u]
           /\ passed'[u] = IF u = t THEN m ELSE passed[u]
    BY <1>2, <1>4 DEF GroupInv, NobodyWaitsInVain, GroupTypeOK, GroupTasks
  <2>2. ASSUME NEW u \in SyncTasks
        PROVE  /\ waiting'[u] \in {"no", "blocked", "set"}
               /\ arrived'[u] = IF waiting'[u] = "blocked" THEN m + 1 ELSE m
               /\ passed'[u] = IF waiting'[u] = "set" THEN m - 1 ELSE m
               /\ u \in uxEventBits' <=> waiting'[u] = "blocked"
               /\ waiting'[u] = "blocked" => itemValue'[u] = Request(SyncBits, TRUE, TRUE)
    <3>1. CASE u = t
      <4>1. /\ waiting'[t] = "no" /\ arrived'[t] = m /\ passed'[t] = m
            /\ t \in SyncTasks /\ waiting[t] = "set"
        BY <1>2, <1>4, <2>1, <3>1
      <4>2. t \notin uxEventBits'
        BY <1>1, <1>5, <4>1 DEF Meeting
      <4> QED BY <3>1, <4>1, <4>2
    <3>2. CASE u # t
        BY <1>1, <1>2, <1>5, <2>1, <3>2 DEF Meeting
    <3> QED BY <3>1, <3>2
  <2>3. \E u \in SyncTasks : waiting'[u] # "blocked"
    BY <1>1, <2>1 DEF Meeting
  <2> QED BY <2>2, <2>3 DEF Meeting
<1>9. FlagsOnly'
    BY <1>2, <1>3 DEF GroupInv, FlagsOnly, NobodyWaitsInVain, GroupTypeOK, GroupTasks
<1> QED BY <1>7, <1>8, <1>9 DEF GroupInv, Meetings

(* A group is deleted and created while nobody is in the meeting. *)
LEMMA DeleteKeeps ==
    ASSUME GroupInv, vEventGroupDelete
    PROVE  GroupInv'
<1>1. /\ UNCHANGED <<uxEventBits, itemValue, pendedCalls, arrived, passed>>
      /\ groupExists' = FALSE
      /\ waiting' \in [GroupTasks -> {"no", "blocked", "set", "timeout", "deleted"}]
      /\ unblockedWith' \in [GroupTasks -> SUBSET Bits]
    BY DEF vEventGroupDelete, GroupInv, NobodyWaitsInVain, GroupTypeOK, Bits
<1>2. \A t \in GroupTasks :
         /\ waiting'[t] = IF waiting[t] = "blocked" THEN "deleted" ELSE waiting[t]
         /\ waiting[t] # "blocked" => unblockedWith'[t] = unblockedWith[t]
    BY DEF vEventGroupDelete
<1>3. \A t \in SyncTasks : waiting'[t] = waiting[t]
    BY <1>2 DEF vEventGroupDelete, GroupTasks
<1>4. GroupTypeOK'
  <2>1. groupExists' \in BOOLEAN
    BY <1>1, Zenon
  <2> QED BY <1>1, <2>1 DEF GroupInv, NobodyWaitsInVain, GroupTypeOK, Bits
<1>5. NobodyWaitsInVain'
    BY <1>1, <1>2, <1>4 DEF GroupInv, NobodyWaitsInVain
<1>6. Meetings'
    BY <1>1, <1>3, MeetingUntouched DEF GroupInv
<1> QED BY <1>1, <1>5, <1>6 DEF GroupInv, FlagsOnly

LEMMA CreateKeeps ==
    ASSUME GroupInv, xEventGroupCreate
    PROVE  GroupInv'
<1>1. /\ \A t \in GroupTasks : waiting[t] = "no"
      /\ uxEventBits' = {}
      /\ UNCHANGED <<waiting, itemValue, unblockedWith, pendedCalls, arrived, passed>>
    BY DEF xEventGroupCreate
<1>2. groupExists' \in BOOLEAN
    BY Zenon DEF xEventGroupCreate
<1>3. NobodyWaitsInVain'
    BY <1>1, <1>2 DEF GroupInv, NobodyWaitsInVain, GroupTypeOK
<1>4. Meetings'
  <2>1. PICK m \in 0..MaxRounds : Meeting(m)
    BY DEF GroupInv, Meetings
  <2>2. \A t \in SyncTasks : t \notin uxEventBits /\ t \notin uxEventBits'
    BY <1>1, <2>1 DEF Meeting, GroupTasks
  <2> QED BY <1>1, <2>2, MeetingUntouched DEF GroupInv
<1> QED BY <1>1, <1>3, <1>4 DEF GroupInv, FlagsOnly

(* An interrupt pends a call about flags. *)
LEMMA PendKeeps ==
    ASSUME GroupInv, NEW set \in BOOLEAN, NEW bits \in SUBSET FlagBits, PendFromISR(set, bits)
    PROVE  GroupInv'
<1> DEFINE Pended == [set : BOOLEAN, bits : SUBSET FlagBits]
           command == [set |-> set, bits |-> bits]
<1>1. /\ Len(pendedCalls) < MaxPended /\ pendedCalls' = Append(pendedCalls, command)
      /\ UNCHANGED <<uxEventBits, groupExists, waiting, itemValue, unblockedWith,
                     arrived, passed>>
    BY DEF PendFromISR
<1>2. command \in Pended /\ pendedCalls \in Seq(Pended)
    BY DEF GroupInv, FlagsOnly
<1>3. pendedCalls' \in Seq(Pended) /\ Len(pendedCalls') <= MaxPended
  <2> HIDE DEF Pended, command
  <2> QED BY <1>1, <1>2, GroupAssumption
<1>4. NobodyWaitsInVain'
    BY <1>1, <1>3 DEF GroupInv, NobodyWaitsInVain, GroupTypeOK
<1>5. Meetings'
    BY <1>1, MeetingUntouched DEF GroupInv
<1> QED BY <1>1, <1>3, <1>4, <1>5 DEF GroupInv, FlagsOnly

(* The timer task runs a pended call. *)
LEMMA RunPendedKeeps ==
    ASSUME GroupInv, RunPended
    PROVE  GroupInv'
<1> DEFINE Pended == [set : BOOLEAN, bits : SUBSET FlagBits]
<1>1. Head(pendedCalls) \in Pended
  <2>1. pendedCalls \in Seq(Pended) /\ pendedCalls # <<>>
    BY DEF GroupInv, FlagsOnly, RunPended
  <2> HIDE DEF Pended
  <2> QED BY <2>1
<1>2. Head(pendedCalls).bits \in SUBSET FlagBits
    BY <1>1
<1> QED BY <1>2, SetBitsKeeps, ClearBitsKeeps DEF RunPended

-----------------------------------------------------------------------------
LEMMA GroupInvInit == GroupInit => GroupInv
<1> SUFFICES ASSUME GroupInit PROVE GroupInv
    OBVIOUS
<1> DEFINE r == Request({}, TRUE, FALSE)
<1>1. r \in [bits : SUBSET Bits, all : BOOLEAN, clear : BOOLEAN] /\ r.bits = {}
    BY DEF Request
<1> HIDE DEF r
<1>2. /\ uxEventBits = {} /\ pendedCalls = <<>>
      /\ waiting = [t \in GroupTasks |-> "no"] /\ itemValue = [t \in GroupTasks |-> r]
      /\ unblockedWith = [t \in GroupTasks |-> {}]
      /\ arrived = [t \in SyncTasks |-> 0] /\ passed = [t \in SyncTasks |-> 0]
    BY DEF GroupInit, r
<1>3. groupExists \in BOOLEAN
    BY Zenon DEF GroupInit
<1>4. GroupTypeOK
    BY <1>1, <1>2, <1>3, GroupAssumption DEF GroupTypeOK, Bits
<1>5. NobodyWaitsInVain
    BY <1>2, <1>4 DEF NobodyWaitsInVain
<1>6. FlagsOnly
    BY <1>1, <1>2 DEF FlagsOnly, GroupTasks
<1>7. Meeting(0) /\ 0 \in 0..MaxRounds
    BY <1>2, GroupAssumption DEF Meeting, GroupTasks
<1> QED BY <1>5, <1>6, <1>7 DEF GroupInv, Meetings

LEMMA GroupInvStep == GroupInv /\ [GroupNext]_groupVars => GroupInv'
<1> SUFFICES ASSUME GroupInv, [GroupNext]_groupVars PROVE GroupInv'
    OBVIOUS
<1>1. CASE UNCHANGED groupVars
    BY <1>1 DEF groupVars, GroupInv, NobodyWaitsInVain, GroupTypeOK, FlagsOnly, Meetings, Meeting
<1>2. ASSUME NEW t \in WaitTasks, WaitTaskCalls(t)
      PROVE  GroupInv'
  <2>1. waiting[t] = "no" /\ t \in GroupTasks /\ FlagSets \subseteq SUBSET FlagBits
    BY <1>2 DEF WaitTaskCalls, GroupTasks, FlagSets
  <2>2. CASE \E b \in FlagSets, all, clear \in BOOLEAN :
                xEventGroupWaitBits(t, Request(b, all, clear))
    BY <2>1, <2>2, WaitBitsKeeps
  <2>3. CASE \E b, c \in FlagSets, blocks \in BOOLEAN : SyncWithTimeOut(t, b, c, blocks)
    BY <2>1, <2>3, SyncWithTimeOutKeeps
  <2>4. CASE \E b \in FlagSets : xEventGroupSetBits(b) /\ UNCHANGED pendedCalls
    BY <2>1, <2>4, SetBitsKeeps
  <2>5. CASE \E b \in FlagSets : xEventGroupClearBits(b) /\ UNCHANGED pendedCalls
    BY <2>1, <2>5, ClearBitsKeeps
  <2> QED BY <1>2, <2>2, <2>3, <2>4, <2>5 DEF WaitTaskCalls
<1>3. CASE GroupNext
  <2>1. FlagSets \subseteq SUBSET FlagBits
    BY DEF FlagSets
  <2> QED BY <1>2, <1>3, <2>1, SyncKeeps, PendKeeps, RunPendedKeeps, DeleteKeeps, CreateKeeps,
             TimeOutKeeps, WaitEndsKeeps DEF GroupNext
<1> QED BY <1>1, <1>3

(* Nobody sleeps beside the bits it waits for, and whoever was woken by    *)
(* bits gets a value that satisfies it (event_groups.c:524-600), for any   *)
(* tasks, flags and lengths of the timer task's queue.                     *)
THEOREM NobodyEverWaitsInVain == GroupSpec => []NobodyWaitsInVain
<1>1. GroupInv => NobodyWaitsInVain
    BY DEF GroupInv
<1> QED BY <1>1, GroupInvInit, GroupInvStep, PTL DEF GroupSpec

(* xEventGroupSync is a barrier (event_groups.c:176-267), for any number   *)
(* of tasks: nobody leaves a meeting before everybody has come to it, and  *)
(* when all have come nobody sleeps on.                                    *)
THEOREM SyncIsAlwaysABarrier == GroupSpec => []SyncIsABarrier
<1>1. GroupInv => SyncIsABarrier
  <2> SUFFICES ASSUME GroupInv PROVE SyncIsABarrier
    OBVIOUS
  <2>1. PICK m \in 0..MaxRounds : Meeting(m)
    BY DEF GroupInv, Meetings
  <2>2. \A t \in SyncTasks : /\ arrived[t] = m \/ arrived[t] = m + 1
                             /\ passed[t] = m \/ passed[t] = m - 1
                             /\ waiting[t] = "blocked" <=> arrived[t] = m + 1
    BY <2>1, m + 1 # m DEF Meeting
  <2>3. \A t, u \in SyncTasks : passed[t] <= arrived[u]
    BY <2>2
  <2>4. PICK u \in SyncTasks : waiting[u] # "blocked"
    BY <2>1 DEF Meeting
  <2>5. (\A t, v \in SyncTasks : arrived[t] = arrived[v])
            => \A t \in SyncTasks : waiting[t] # "blocked"
    BY <2>2, <2>4
  <2> QED BY <2>3, <2>5 DEF SyncIsABarrier
<1> QED BY <1>1, GroupInvInit, GroupInvStep, PTL DEF GroupSpec

-----------------------------------------------------------------------------
(* The port: one thread at a time runs the code of a task.                  *)

(* Where the code of a thread can be: in what the port does for its task    *)
(* with interrupts disabled, where a tick may stop it, and in a switch.     *)
Fenced == {"enter", "exit", "create", "wait", "add"}
Resting == {"task", "enable", "created", "yield", "spin"}
Turning == {"resume", "suspend", "kill"}
Making == {"exit", "create", "wait", "enable", "created", "add"}
Places == Fenced \cup Resting \cup Turning \cup {"none", "start"}
HandlerPlaces == {"none", "unlock", "sigwait", "enable", "disable", "tick", "tick resume",
                  "tick suspend", "tick unlock", "tick done"}

ThreadRecord == [pc : Places, handler : HandlerPlaces, signals : SUBSET {"SUSPEND", "RESUME"},
                 from : Nat, to : Nat, ret : {"task", "enable"}, own : Nat, making : Nat,
                 code : Nat, cancelled : BOOLEAN]
PortRecord == [xSingleThreadMutex : Threads \cup {None}, xSentinel : BOOLEAN,
               xInterruptsEnabled : BOOLEAN, xServicingTick : BOOLEAN, xPendYield : BOOLEAN,
               uxCriticalNesting : Nat, lIndexOfLastAddedTask : Threads]

Parked(x) == x.handler = "sigwait" /\ "RESUME" \notin x.signals
Leaving(x) ==
    \/ x.pc \in {"suspend", "kill"} \/ x.handler \in {"tick suspend", "unlock"}
    \/ "SUSPEND" \in x.signals
Giving(x) == x.pc = "resume" \/ x.handler = "tick resume"
Active(x) == x.pc \notin {"none", "start"} /\ ~Parked(x) /\ ~Leaving(x)
Holds(x) == Leaving(x) \/ Giving(x) \/ x.handler = "tick unlock"
Nesting(x) == x.own + IF x.pc = "wait" THEN 1 ELSE 0
Settled(x) == x.pc = "spin" /\ (Parked(x) \/ x.handler = "unlock")

Coherent(t, x) ==
    /\ x.pc \in {"none", "start"} => /\ x.handler = "none" /\ x.signals = {} /\ x.own = 0
                                     /\ x.making = None /\ ~x.cancelled /\ x.ret = "task"
    /\ x.pc \in Fenced => x.handler = "none" /\ x.signals = {}
    /\ x.pc \in Turning => x.handler \in {"none", "tick"} /\ x.signals = {} /\ x.from = t
    /\ x.handler \in {"tick resume", "tick suspend"} => x.from = t /\ x.signals = {}
    /\ x.handler \notin {"none", "tick"} => x.pc \in Resting
    /\ "RESUME" \in x.signals => x.handler = "sigwait"
    /\ "SUSPEND" \in x.signals => x.handler \in {"none", "tick done"} /\ x.pc \in Resting
    /\ x.own <= cast.nesting + 1
    /\ x.pc = "enter" => x.own < cast.nesting
    /\ x.pc \in Making \/ x.making # None => x.own = 0
    /\ x.pc \in {"create", "wait", "created", "add"} => x.making # None
    /\ x.pc \in Turning \cup {"yield", "spin"} /\ x.ret = "enable" => x.own = 0
    /\ x.making # None => \/ x.pc \in Making
                          \/ x.pc \in Turning \cup {"yield", "spin"} /\ x.ret = "enable"

PortTypes ==
    /\ cast \in Casts /\ port \in PortRecord
    /\ pxThreads \in [Threads -> [hTask : Nat, uxCriticalNesting : Nat]]
    /\ thread \in [Threads -> ThreadRecord]
    /\ current \in Nat /\ handles \in Nat

AllCoherent == \A t \in Threads : Coherent(t, thread[t])
OneActive ==
    /\ \E t \in Threads : Active(thread[t])
    /\ \A t, u \in Threads : Active(thread[t]) /\ Active(thread[u]) => t = u
MutexHeld == \A t \in Threads : Holds(thread[t]) <=> port.xSingleThreadMutex = t
Mapped ==
    /\ current \in readied /\ None \notin readied
    /\ \A h \in readied : \E i \in Threads : pxThreads[i].hTask = h
    /\ \A i \in Threads : pxThreads[i].hTask # None =>
          /\ thread[i].pc \notin {"none", "start"} /\ thread[i].code = pxThreads[i].hTask
          /\ pxThreads[i].hTask <= handles
    /\ \A i, j \in Threads :
          pxThreads[i].hTask = pxThreads[j].hTask /\ pxThreads[i].hTask # None => i = j
InTurn ==
    \A t \in Threads : Active(thread[t]) =>
        IF Giving(thread[t])
        THEN /\ pxThreads[t].uxCriticalNesting = Nesting(thread[t])
             /\ \E u \in Threads :
                   /\ thread[t].to = u /\ Parked(thread[u]) /\ pxThreads[u].hTask = current
                   /\ port.uxCriticalNesting = pxThreads[u].uxCriticalNesting
        ELSE pxThreads[t].hTask = current /\ port.uxCriticalNesting = Nesting(thread[t])
Saved ==
    \A t \in Threads : ~Active(thread[t]) => pxThreads[t].uxCriticalNesting = Nesting(thread[t])
Disabled ==
    \A t \in Threads :
        /\ thread[t].pc \in Fenced => ~port.xInterruptsEnabled
        /\ Active(thread[t]) /\ ~Giving(thread[t]) /\ thread[t].own > 0 =>
              /\ thread[t].handler # "enable"
              /\ thread[t].handler \notin {"sigwait", "disable"} => ~port.xInterruptsEnabled
Made ==
    /\ \A t \in Threads : thread[t].making # None =>
          /\ thread[t].making <= handles /\ \A i \in Threads : pxThreads[i].hTask # thread[t].making
          /\ thread[t].pc = "create" => \E i \in Threads : thread[i].pc = "none"
          /\ thread[t].pc # "create" =>
                LET s == port.lIndexOfLastAddedTask
                IN  /\ pxThreads[s].hTask = None /\ thread[s].code = thread[t].making
                    /\ thread[s].pc \in {"start", "suspend", "kill", "spin"} /\ ~Active(thread[s])
                    /\ thread[t].pc # "wait" \/ port.xSentinel => Settled(thread[s])
                    /\ thread[t].pc = "wait" => port.xSingleThreadMutex \in {None, s}
    /\ \A s \in Threads : thread[s].pc = "start" =>
          /\ port.lIndexOfLastAddedTask = s
          /\ \E t \in Threads : thread[t].pc = "wait"
Cancelled ==
    \A t \in Threads : thread[t].cancelled =>
        Parked(thread[t]) /\ pxThreads[t].hTask # None /\ pxThreads[t].hTask \notin readied

PortIInv ==
    /\ PortTypes /\ AllCoherent /\ OneActive /\ MutexHeld /\ Mapped
    /\ InTurn /\ Saved /\ Disabled /\ Made /\ Cancelled

LEMMA ThreadOfHandle ==
    ASSUME NEW i \in Threads, NEW h, pxThreads[i].hTask = h,
           \A j \in Threads : pxThreads[j].hTask = h => j = i
    PROVE  prvGetThreadHandle(h) = i
  <1>1. i \in Nat /\ i <= MAX_NUMBER_OF_TASKS /\ MAX_NUMBER_OF_TASKS \in Nat
    BY PortAssumption DEF Threads
  <1>2. PICK S : S = {j \in Threads : pxThreads[j].hTask = h} \cup {MAX_NUMBER_OF_TASKS + 1}
    OBVIOUS
  <1>3. S = {i, MAX_NUMBER_OF_TASKS + 1}
    BY <1>2
  <1>4. i \in S /\ \A y \in S : i <= y
    BY <1>1, <1>3
  <1>5. \A x \in S : (\A y \in S : x <= y) => x = i
    BY <1>1, <1>3
  <1>6. Min(S) = i
    BY <1>4, <1>5 DEF Min
  <1> QED BY <1>2, <1>6 DEF prvGetThreadHandle

(* A thread whose code goes on is the active one. *)
LEMMA CodeIsActive ==
    ASSUME PortIInv, NEW t \in Threads, NEW pc \in Fenced \cup Resting, At(t, pc)
    PROVE  /\ Active(thread[t]) /\ ~ Giving(thread[t]) /\ ~ Holds(thread[t])
           /\ thread[t].handler = "none" /\ thread[t].signals = {} /\ thread[t].pc = pc
  <1>1. PICK x : x = thread[t]
    OBVIOUS
  <1>2. x \in ThreadRecord /\ Coherent(t, x)
    BY <1>1 DEF PortIInv, PortTypes, AllCoherent
  <1>3. x.pc = pc /\ x.handler = "none" /\ "SUSPEND" \notin x.signals
    BY <1>1 DEF At
  <1>4. x.signals = {}
    BY <1>2, <1>3 DEF ThreadRecord, Coherent
  <1>5. pc \notin {"none", "start", "suspend", "kill", "resume"}
    BY DEF Fenced, Resting
  <1> QED BY <1>1, <1>3, <1>4, <1>5 DEF Active, Giving, Holds, Parked, Leaving

LEMMA FencedIsActive ==
    ASSUME PortIInv, NEW t \in Threads, thread[t].pc \in Fenced
    PROVE  /\ Active(thread[t]) /\ ~ Giving(thread[t]) /\ ~ Holds(thread[t])
           /\ thread[t].handler = "none" /\ ~ port.xInterruptsEnabled
  <1>1. PICK x : x = thread[t]
    OBVIOUS
  <1>2. Coherent(t, x) /\ x.pc \in Fenced /\ ~ port.xInterruptsEnabled
    BY <1>1 DEF PortIInv, AllCoherent, Disabled
  <1>3. x.handler = "none" /\ x.signals = {}
    BY <1>2 DEF Coherent
  <1> QED BY <1>1, <1>2, <1>3 DEF Active, Giving, Holds, Parked, Leaving, Fenced

(* While the mutex is free one thread is active, others are parked, start  *)
(* or are not there.                                                       *)
LEMMA FreeMutex ==
    ASSUME PortIInv, port.xSingleThreadMutex = None, NEW t \in Threads
    PROVE  /\ ~ Holds(thread[t]) /\ ~ Leaving(thread[t]) /\ ~ Giving(thread[t])
           /\ Active(thread[t]) \/ Parked(thread[t]) \/ thread[t].pc \in {"none", "start"}
  <1>1. t # None
    BY PortAssumption DEF Threads, None
  <1>2. ~ Holds(thread[t])
    BY <1>1 DEF PortIInv, MutexHeld
  <1> QED BY <1>2 DEF Holds, Active

LEMMA ActiveStays ==
    ASSUME PortIInv, NEW r \in Threads, NEW x \in ThreadRecord, x = thread[r], Active(x),
           NEW y \in ThreadRecord, Coherent(r, y), Active(y),
           y.code = x.code, ~ y.cancelled, y.pc = "wait" => x.pc = "wait",
           \/ /\ handles' = handles /\ y.making = x.making
              /\ y.pc = "create" <=> x.pc = "create"
           \/ /\ handles' = handles + 1 /\ y.making = handles' /\ x.pc = "task" /\ y.pc = "create"
              /\ \E i \in Threads : thread[i].pc = "none",
           x.pc = "wait" => y.pc = "wait" \/ port.xSentinel,
           IF Giving(x)
           THEN /\ Giving(y) /\ y.to = x.to /\ Nesting(y) = Nesting(x)
                /\ port'.uxCriticalNesting = port.uxCriticalNesting
           ELSE ~ Giving(y) /\ port'.uxCriticalNesting = Nesting(y),
           y.pc \in Fenced => ~ port'.xInterruptsEnabled,
           y.own > 0 /\ ~ Giving(y) =>
              /\ y.handler # "enable"
              /\ y.handler \notin {"sigwait", "disable"} => ~ port'.xInterruptsEnabled,
           \/ port'.xSingleThreadMutex = port.xSingleThreadMutex /\ (Holds(y) <=> Holds(x))
           \/ /\ port.xSingleThreadMutex = None /\ port'.xSingleThreadMutex = r
              /\ Holds(y) /\ y.pc # "wait"
           \/ port.xSingleThreadMutex = r /\ port'.xSingleThreadMutex = None /\ ~ Holds(y),
           thread' = [thread EXCEPT ![r] = y], port' \in PortRecord,
           port'.xSentinel = port.xSentinel,
           port'.lIndexOfLastAddedTask = port.lIndexOfLastAddedTask,
           UNCHANGED <<cast, pxThreads, current, readied>>
    PROVE  PortIInv'
  <1>1. /\ thread \in [Threads -> ThreadRecord] /\ thread' \in [Threads -> ThreadRecord]
        /\ thread'[r] = y /\ \A t \in Threads : t # r => thread'[t] = thread[t]
    BY DEF PortIInv, PortTypes
  <1>2. /\ cast' = cast /\ pxThreads' = pxThreads /\ current' = current /\ readied' = readied
        /\ handles \in Nat /\ handles' \in Nat /\ handles' >= handles
        /\ \A i \in Threads : pxThreads[i].hTask \in Nat
    BY DEF PortIInv, PortTypes
  <1>3. \A t \in Threads : Active(thread'[t]) <=> Active(thread[t])
    BY <1>1
  <1>4. \A t \in Threads : t # r => ~ Active(thread[t])
    BY DEF PortIInv, OneActive
  <1>5. \A t \in Threads : Nesting(thread'[t]) = Nesting(thread[t]) \/ t = r
    BY <1>1
  <1>6. PortTypes'
    BY <1>1, <1>2 DEF PortIInv, PortTypes
  <1>7. AllCoherent'
    <2>1. \A t \in Threads : Coherent(t, thread[t])' <=> Coherent(t, thread'[t])
      BY <1>2 DEF Coherent
    <2> QED BY <1>1, <1>2, <2>1 DEF PortIInv, AllCoherent
  <1>8. OneActive'
    BY <1>3 DEF PortIInv, OneActive, Active, Parked, Leaving
  <1>9. MutexHeld'
    <2>1. \A t \in Threads : Holds(thread[t]) <=> port.xSingleThreadMutex = t
      BY DEF PortIInv, MutexHeld
    <2>2. r # None /\ (Holds(x) <=> port.xSingleThreadMutex = r)
      BY <2>1, PortAssumption DEF Threads, None
    <2>3. Holds(y) <=> port'.xSingleThreadMutex = r
      BY <2>2
    <2>4. ASSUME NEW t \in Threads, t # r
          PROVE  Holds(thread'[t]) <=> port'.xSingleThreadMutex = t
      <3>1. t # None
        BY PortAssumption DEF Threads, None
      <3> QED BY <1>1, <2>1, <2>4, <3>1
    <2>5. \A t \in Threads : Holds(thread'[t]) <=> port'.xSingleThreadMutex = t
      BY <1>1, <2>3, <2>4
    <2> QED BY <2>5 DEF MutexHeld
  <1>10. Mapped'
    BY <1>1, <1>2 DEF PortIInv, Mapped, Active
  <1>11. InTurn'
    <2>1. IF Giving(x)
          THEN /\ pxThreads[r].uxCriticalNesting = Nesting(x)
               /\ \E u \in Threads :
                     /\ x.to = u /\ Parked(thread[u]) /\ pxThreads[u].hTask = current
                     /\ port.uxCriticalNesting = pxThreads[u].uxCriticalNesting
          ELSE pxThreads[r].hTask = current
      BY DEF PortIInv, InTurn
    <2>2. ASSUME Giving(y)
          PROVE  /\ pxThreads[r].uxCriticalNesting = Nesting(y)
                 /\ \E u \in Threads :
                       /\ y.to = u /\ Parked(thread'[u]) /\ pxThreads[u].hTask = current
                       /\ port'.uxCriticalNesting = pxThreads[u].uxCriticalNesting
      <3>1. Giving(x)
        BY <2>2
      <3>2. PICK u \in Threads :
               /\ x.to = u /\ Parked(thread[u]) /\ pxThreads[u].hTask = current
               /\ port.uxCriticalNesting = pxThreads[u].uxCriticalNesting
        BY <2>1, <3>1
      <3>3. u # r
        BY <3>2 DEF Active
      <3>4. thread'[u] = thread[u]
        BY <1>1, <3>3
      <3> QED BY <2>1, <3>1, <3>2, <3>4
    <2>3. ASSUME ~ Giving(y)
          PROVE  pxThreads[r].hTask = current /\ port'.uxCriticalNesting = Nesting(y)
      BY <2>1, <2>3
    <2>4. ASSUME NEW t \in Threads, Active(thread'[t])
          PROVE  IF Giving(thread'[t])
                 THEN /\ pxThreads[t].uxCriticalNesting = Nesting(thread'[t])
                      /\ \E u \in Threads :
                            /\ thread'[t].to = u /\ Parked(thread'[u]) /\ pxThreads[u].hTask = current
                            /\ port'.uxCriticalNesting = pxThreads[u].uxCriticalNesting
                 ELSE pxThreads[t].hTask = current /\ port'.uxCriticalNesting = Nesting(thread'[t])
      <3>1. t = r
        BY <1>3, <1>4, <2>4
      <3> QED BY <1>1, <2>2, <2>3, <3>1
    <2> QED BY <1>2, <2>4 DEF InTurn
  <1>12. Saved'
    BY <1>1, <1>2, <1>3, <1>4 DEF PortIInv, Saved
  <1>13. Disabled'
    <2>1. ASSUME NEW t \in Threads
          PROVE  /\ thread'[t].pc \in Fenced => ~ port'.xInterruptsEnabled
                 /\ Active(thread'[t]) /\ ~ Giving(thread'[t]) /\ thread'[t].own > 0 =>
                       /\ thread'[t].handler # "enable"
                       /\ thread'[t].handler \notin {"sigwait", "disable"} => ~ port'.xInterruptsEnabled
      <3>1. CASE t = r
        BY <1>1, <3>1
      <3>2. CASE t # r
        <4>1. ~ Active(thread'[t])
          BY <1>3, <1>4, <3>2
        <4>2. thread[t].pc \notin Fenced
          BY <1>4, <3>2, FencedIsActive
        <4> QED BY <1>1, <3>2, <4>1, <4>2
      <3> QED BY <3>1, <3>2
    <2> QED BY <2>1 DEF Disabled
  <1>14. Made'
    <2>1. PICK s : s = port.lIndexOfLastAddedTask
      OBVIOUS
    <2>2. port'.lIndexOfLastAddedTask = s /\ s \in Threads
      BY <2>1 DEF PortRecord
    <2>3. ASSUME NEW t \in Threads, thread'[t].making # None
          PROVE  /\ thread'[t].making <= handles'
                 /\ \A i \in Threads : pxThreads[i].hTask # thread'[t].making
                 /\ thread'[t].pc = "create" => \E i \in Threads : thread'[i].pc = "none"
                 /\ thread'[t].pc # "create" =>
                       /\ pxThreads[s].hTask = None /\ thread'[s].code = thread'[t].making
                       /\ thread'[s].pc \in {"start", "suspend", "kill", "spin"}
                       /\ ~ Active(thread'[s])
                       /\ thread'[t].pc # "wait" \/ port'.xSentinel => Settled(thread'[s])
                       /\ thread'[t].pc = "wait" => port'.xSingleThreadMutex \in {None, s}
      <3> SUFFICES ASSUME ~ (t = r /\ handles' = handles + 1 /\ y.making = handles' /\ y.pc = "create"
                               /\ \E i \in Threads : thread[i].pc = "none")
                   PROVE  /\ thread'[t].making <= handles'
                          /\ \A i \in Threads : pxThreads[i].hTask # thread'[t].making
                          /\ thread'[t].pc = "create" => \E i \in Threads : thread'[i].pc = "none"
                          /\ thread'[t].pc # "create" =>
                                /\ pxThreads[s].hTask = None /\ thread'[s].code = thread'[t].making
                                /\ thread'[s].pc \in {"start", "suspend", "kill", "spin"}
                                /\ ~ Active(thread'[s])
                                /\ thread'[t].pc # "wait" \/ port'.xSentinel => Settled(thread'[s])
                                /\ thread'[t].pc = "wait" => port'.xSingleThreadMutex \in {None, s}
        <4>1. CASE /\ t = r /\ handles' = handles + 1 /\ y.making = handles' /\ y.pc = "create"
                   /\ \E i \in Threads : thread[i].pc = "none"
          <5>1. thread'[t].making = handles + 1 /\ thread'[t].pc = "create"
            BY <1>1, <4>1
          <5>2. \A i \in Threads : pxThreads[i].hTask <= handles
            BY <1>2, PortAssumption DEF PortIInv, Mapped, None
          <5>3. \A i \in Threads : pxThreads[i].hTask # handles + 1
            BY <1>2, <5>2
          <5>4. \E i \in Threads : thread'[i].pc = "none"
            <6>1. PICK i \in Threads : thread[i].pc = "none"
              BY <4>1
            <6>2. i # r
              BY <6>1 DEF Active
            <6> QED BY <1>1, <6>1, <6>2
          <5> QED BY <1>2, <4>1, <5>1, <5>3, <5>4
        <4> QED BY <4>1
      <3>1. /\ thread[t].making = thread'[t].making
            /\ thread'[t].pc = "create" <=> thread[t].pc = "create"
            /\ thread'[t].pc = "wait" => thread[t].pc = "wait"
            /\ thread'[t].pc # "wait" => thread[t].pc # "wait" \/ port.xSentinel
        BY <1>1
      <3>2. /\ thread[t].making <= handles /\ \A i \in Threads : pxThreads[i].hTask # thread[t].making
            /\ thread[t].pc = "create" => \E i \in Threads : thread[i].pc = "none"
            /\ thread[t].pc # "create" =>
                  /\ pxThreads[s].hTask = None /\ thread[s].code = thread[t].making
                  /\ thread[s].pc \in {"start", "suspend", "kill", "spin"} /\ ~ Active(thread[s])
                  /\ thread[t].pc # "wait" \/ port.xSentinel => Settled(thread[s])
                  /\ thread[t].pc = "wait" => port.xSingleThreadMutex \in {None, s}
        BY <2>1, <2>3, <3>1 DEF PortIInv, Made
      <3>6. thread'[t].making <= handles'
        <4>1. thread[t].making \in Nat
          BY <1>1 DEF ThreadRecord
        <4> QED BY <1>2, <3>1, <3>2, <4>1
      <3>3. thread'[t].pc = "create" => \E i \in Threads : thread'[i].pc = "none"
        <4>1. x.pc # "none"
          BY DEF Active
        <4> QED BY <1>1, <3>1, <3>2, <4>1
      <3>4. ASSUME thread'[t].pc # "create"
            PROVE  thread'[s] = thread[s]
        BY <1>1, <2>2, <3>1, <3>2, <3>4
      <3>5. thread'[t].pc = "wait" => port'.xSingleThreadMutex \in {None, s}
        <4>1. CASE t = r
          BY <1>1, <3>1, <3>2, <4>1
        <4>2. CASE t # r
          <5>1. thread[t].pc # "wait"
            BY <1>4, <4>2, FencedIsActive DEF Fenced
          <5> QED BY <3>1, <5>1
        <4> QED BY <4>1, <4>2
      <3> QED BY <3>1, <3>2, <3>3, <3>4, <3>5, <3>6
    <2>4. ASSUME NEW t \in Threads, thread'[t].pc = "start"
          PROVE  s = t /\ \E u \in Threads : thread'[u].pc = "wait"
      <3>1. t # r /\ thread[t].pc = "start"
        BY <1>1, <2>4 DEF Active
      <3>2. PICK u \in Threads : s = t /\ thread[u].pc = "wait"
        BY <2>1, <3>1 DEF PortIInv, Made
      <3>3. u = r
        BY <1>4, <3>2, FencedIsActive DEF Fenced
      <3>4. ~ Settled(thread[s])
        BY <3>1, <3>2 DEF Settled
      <3>5. thread[u].making # None /\ thread[u].pc # "create"
        BY <3>2 DEF PortIInv, AllCoherent, Coherent
      <3>6. port.xSentinel => Settled(thread[s])
        BY <2>1, <3>5 DEF PortIInv, Made
      <3>7. y.pc = "wait"
        BY <3>2, <3>3, <3>4, <3>6
      <3> QED BY <1>1, <3>2, <3>7
    <2> QED BY <1>2, <2>2, <2>3, <2>4 DEF Made
  <1>15. Cancelled'
    BY <1>1, <1>2, <1>3 DEF PortIInv, Cancelled
  <1> QED BY <1>6, <1>7, <1>8, <1>9, <1>10, <1>11, <1>12, <1>13, <1>14, <1>15 DEF PortIInv

(* What the active thread finds when its code goes on. *)
LEMMA CodeFacts ==
    ASSUME PortIInv, NEW t \in Threads, NEW pc \in Fenced \cup Resting, At(t, pc),
           NEW x, x = thread[t]
    PROVE  /\ x \in ThreadRecord /\ Coherent(t, x) /\ x.pc = pc
           /\ x.handler = "none" /\ x.signals = {} /\ ~ x.cancelled
           /\ Active(x) /\ ~ Giving(x) /\ ~ Holds(x)
           /\ pxThreads[t].hTask = current /\ port.uxCriticalNesting = Nesting(x)
           /\ x.own > 0 \/ pc \in Fenced => ~ port.xInterruptsEnabled
           /\ x.own \in Nat /\ cast.nesting \in Nat /\ port \in PortRecord
           /\ \A u \in Threads : Active(thread[u]) => u = t
  <1>1. /\ Active(x) /\ ~ Giving(x) /\ ~ Holds(x)
        /\ x.handler = "none" /\ x.signals = {} /\ x.pc = pc
    BY CodeIsActive
  <1>2. x \in ThreadRecord /\ Coherent(t, x) /\ port \in PortRecord /\ cast \in Casts
    BY DEF PortIInv, PortTypes, AllCoherent
  <1>3. ~ x.cancelled
    BY <1>1 DEF PortIInv, Cancelled, Active
  <1>4. pxThreads[t].hTask = current /\ port.uxCriticalNesting = Nesting(x)
    BY <1>1 DEF PortIInv, InTurn
  <1>5. x.own > 0 \/ pc \in Fenced => ~ port.xInterruptsEnabled
    BY <1>1 DEF PortIInv, Disabled
  <1>6. \A u \in Threads : Active(thread[u]) => u = t
    BY <1>1 DEF PortIInv, OneActive
  <1> QED BY <1>1, <1>2, <1>3, <1>4, <1>5, <1>6, PortAssumption DEF ThreadRecord

(* The code goes on to another place, with no other thread involved. *)
GoesOn(t, pc, q, ret, own) ==
    /\ thread' = [thread EXCEPT ![t] = [thread[t] EXCEPT !.pc = q, !.ret = ret, !.own = own]]
    /\ port' \in PortRecord
    /\ port'.xSingleThreadMutex = port.xSingleThreadMutex
    /\ port'.xSentinel = port.xSentinel
    /\ port'.lIndexOfLastAddedTask = port.lIndexOfLastAddedTask
    /\ port'.uxCriticalNesting = own + IF q = "wait" THEN 1 ELSE 0
    /\ q \in Fenced \/ own > 0 => ~ port'.xInterruptsEnabled
    /\ q = "create" <=> pc = "create"
    /\ q = "wait" => pc = "wait"
    /\ pc = "wait" => q = "wait" \/ port.xSentinel
    /\ own <= cast.nesting + 1
    /\ q = "enter" => own < cast.nesting
    /\ q \in Making \/ thread[t].making # None => own = 0
    /\ q \in {"create", "wait", "created", "add"} => thread[t].making # None
    /\ q \in {"yield", "spin"} /\ ret = "enable" => own = 0
    /\ thread[t].making # None => q \in Making \/ (q \in {"yield", "spin"} /\ ret = "enable")
    /\ UNCHANGED <<cast, pxThreads, kernel>>

LEMMA CodeGoesOn ==
    ASSUME PortIInv, NEW t \in Threads, NEW pc \in Fenced \cup Resting, At(t, pc),
           NEW q \in Fenced \cup Resting, NEW ret \in {"task", "enable"}, NEW own \in Nat,
           GoesOn(t, pc, q, ret, own)
    PROVE  PortIInv'
  <1>1. PICK x, y : x = thread[t] /\ y = [x EXCEPT !.pc = q, !.ret = ret, !.own = own]
    OBVIOUS
  <1>2. /\ x \in ThreadRecord /\ Coherent(t, x) /\ x.pc = pc
        /\ x.handler = "none" /\ x.signals = {} /\ ~ x.cancelled
        /\ Active(x) /\ ~ Giving(x) /\ ~ Holds(x)
    BY <1>1, CodeFacts
  <1>3. /\ y.pc = q /\ y.ret = ret /\ y.own = own /\ y.handler = "none" /\ y.signals = {}
        /\ y.making = x.making /\ y.code = x.code /\ ~ y.cancelled /\ y.to = x.to
        /\ y \in ThreadRecord
    BY <1>1, <1>2 DEF ThreadRecord, Places
  <1>4. q \notin {"none", "start"} /\ q \notin Turning
    BY DEF Fenced, Resting, Turning
  <1>5. Coherent(t, y)
    <2>1. q \in Fenced => y.handler = "none" /\ y.signals = {}
      BY <1>3
    <2> QED BY <1>1, <1>3, <1>4, <2>1 DEF Coherent, GoesOn
  <1>6. Active(y) /\ ~ Giving(y) /\ ~ Holds(y)
    BY <1>3, <1>4 DEF Active, Giving, Holds, Parked, Leaving, Turning
  <1>7. Nesting(y) = own + IF q = "wait" THEN 1 ELSE 0
    BY <1>3 DEF Nesting
  <1>8. UNCHANGED <<cast, pxThreads, current, readied>> /\ handles' = handles
    BY DEF GoesOn, kernel
  <1>9. /\ y.pc = "wait" => x.pc = "wait"
        /\ x.pc = "wait" => y.pc = "wait" \/ port.xSentinel
        /\ y.pc \in Fenced => ~ port'.xInterruptsEnabled
        /\ y.own > 0 => ~ port'.xInterruptsEnabled
        /\ y.pc = "create" <=> x.pc = "create"
        /\ port'.uxCriticalNesting = Nesting(y)
        /\ port'.xSingleThreadMutex = port.xSingleThreadMutex /\ (Holds(y) <=> Holds(x))
    BY <1>2, <1>3, <1>6, <1>7 DEF GoesOn
  <1>10. /\ thread' = [thread EXCEPT ![t] = y] /\ port' \in PortRecord
         /\ port'.xSentinel = port.xSentinel
         /\ port'.lIndexOfLastAddedTask = port.lIndexOfLastAddedTask
    BY <1>1 DEF GoesOn
  <1> QED BY <1>1, <1>2, <1>3, <1>5, <1>6, <1>8, <1>9, <1>10, ActiveStays, ZenonT(60)

(* The steps of calls and of the port's code that involve one thread.       *)
LEMMA EnterKeeps ==
    ASSUME PortIInv, NEW t \in Threads, EnterCritical(t), cast' = cast PROVE PortIInv'
  <1>1. PICK x, y : x = thread[t] /\ y = [x EXCEPT !.pc = "enter"]
    OBVIOUS
  <1>2. At(t, "task") /\ "task" \in Fenced \cup Resting /\ "enter" \in Fenced \cup Resting
    BY DEF EnterCritical, Fenced, Resting
  <1>3. /\ x \in ThreadRecord /\ Coherent(t, x) /\ x.pc = "task" /\ port.uxCriticalNesting = Nesting(x)
        /\ x.own \in Nat /\ cast.nesting \in Nat /\ port \in PortRecord
    BY <1>1, <1>2, CodeFacts
  <1>4. x.own < cast.nesting
    BY <1>1 DEF EnterCritical
  <1>5. x.making = None
    BY <1>3 DEF Coherent, Making, Turning
  <1>6. y = [x EXCEPT !.pc = "enter", !.ret = x.ret, !.own = x.own] /\ x.ret \in {"task", "enable"}
    BY <1>1, <1>3 DEF ThreadRecord
  <1>7. thread' = [thread EXCEPT ![t] = y]
    BY <1>1 DEF EnterCritical, Goes
  <1>8. /\ port' \in PortRecord /\ ~ port'.xInterruptsEnabled
        /\ port'.xSingleThreadMutex = port.xSingleThreadMutex /\ port'.xSentinel = port.xSentinel
        /\ port'.lIndexOfLastAddedTask = port.lIndexOfLastAddedTask
        /\ port'.uxCriticalNesting = x.own
    <2>1. port.uxCriticalNesting = x.own
      BY <1>3 DEF Nesting
    <2> QED BY <1>3, <2>1 DEF EnterCritical, PortRecord
  <1>9. UNCHANGED <<cast, pxThreads, kernel>>
    BY DEF EnterCritical
  <1>10. x.own <= cast.nesting + 1
    BY <1>3, <1>4
  <1>11. GoesOn(t, "task", "enter", x.ret, x.own)
    <2>1. "enter" \notin Making
      BY DEF Making
    <2> QED BY <1>1, <1>3, <1>4, <1>5, <1>6, <1>7, <1>8, <1>9, <1>10, <2>1 DEF GoesOn
  <1> QED BY <1>2, <1>3, <1>6, <1>11, CodeGoesOn

LEMMA CountKeeps ==
    ASSUME PortIInv, NEW t \in Threads, CountEntry(t), cast' = cast PROVE PortIInv'
  <1>1. PICK x, y : x = thread[t] /\ y = [x EXCEPT !.pc = "task", !.own = @ + 1]
    OBVIOUS
  <1>2. At(t, "enter") /\ "task" \in Fenced \cup Resting /\ "enter" \in Fenced \cup Resting
    BY DEF CountEntry, Fenced, Resting
  <1>3. /\ x \in ThreadRecord /\ Coherent(t, x) /\ x.pc = "enter" /\ port.uxCriticalNesting = Nesting(x)
        /\ x.own \in Nat /\ cast.nesting \in Nat /\ port \in PortRecord /\ ~ port.xInterruptsEnabled
    BY <1>1, <1>2, CodeFacts DEF Fenced
  <1>4. x.own < cast.nesting
    BY <1>3 DEF Coherent
  <1>5. x.making = None
    BY <1>3 DEF Coherent, Making, Turning
  <1>6. /\ y = [x EXCEPT !.pc = "task", !.ret = x.ret, !.own = x.own + 1]
        /\ x.ret \in {"task", "enable"} /\ x.own + 1 \in Nat
    <2>1. x.ret \in {"task", "enable"} /\ x.own + 1 \in Nat /\ x = [x EXCEPT !.ret = x.ret]
      BY <1>3 DEF ThreadRecord
    <2> QED BY <1>1, <1>3, <2>1, ZenonT(60) DEF ThreadRecord
  <1>7. thread' = [thread EXCEPT ![t] = y]
    BY <1>1 DEF CountEntry
  <1>8. /\ port' \in PortRecord /\ ~ port'.xInterruptsEnabled
        /\ port'.xSingleThreadMutex = port.xSingleThreadMutex /\ port'.xSentinel = port.xSentinel
        /\ port'.lIndexOfLastAddedTask = port.lIndexOfLastAddedTask
        /\ port'.uxCriticalNesting = x.own + 1
    <2>1. port.uxCriticalNesting = x.own
      BY <1>3 DEF Nesting
    <2> QED BY <1>3, <2>1 DEF CountEntry, PortRecord
  <1>9. UNCHANGED <<cast, pxThreads, kernel>>
    BY DEF CountEntry
  <1>10. x.own + 1 <= cast.nesting + 1
    BY <1>3, <1>4
  <1>11. GoesOn(t, "enter", "task", x.ret, x.own + 1)
    BY <1>1, <1>5, <1>6, <1>7, <1>8, <1>9, <1>10 DEF GoesOn, Making
  <1> QED BY <1>2, <1>6, <1>11, CodeGoesOn

LEMMA OneLess ==
    ASSUME NEW n \in Nat
    PROVE  Max({n - 1, 0}) = IF n = 0 THEN 0 ELSE n - 1
  <1>1. CASE n = 0
    <2>1. \A a \in {n - 1, 0} : (\A b \in {n - 1, 0} : a >= b) <=> a = 0
      BY <1>1
    <2> QED BY <1>1, <2>1 DEF Max
  <1>2. CASE n # 0
    <2>1. \A a \in {n - 1, 0} : (\A b \in {n - 1, 0} : a >= b) <=> a = n - 1
      BY <1>2
    <2> QED BY <1>2, <2>1 DEF Max
  <1> QED BY <1>1, <1>2

LEMMA ExitKeeps ==
    ASSUME PortIInv, NEW t \in Threads, ExitCritical(t), cast' = cast PROVE PortIInv'
  <1>1. PICK x, n : x = thread[t] /\ n = x.own - 1
    OBVIOUS
  <1>2. PICK q, y : q = (IF n = 0 THEN "exit" ELSE "task") /\ y = [x EXCEPT !.pc = q, !.own = @ - 1]
    OBVIOUS
  <1>3. At(t, "task") /\ "task" \in Fenced \cup Resting /\ q \in Fenced \cup Resting
    BY <1>2 DEF ExitCritical, Fenced, Resting
  <1>4. /\ x \in ThreadRecord /\ Coherent(t, x) /\ x.pc = "task" /\ port.uxCriticalNesting = Nesting(x)
        /\ x.own \in Nat /\ cast.nesting \in Nat /\ port \in PortRecord
        /\ x.own > 0 => ~ port.xInterruptsEnabled
    BY <1>1, <1>3, CodeFacts DEF Fenced
  <1>5. x.own > 0 /\ n \in Nat /\ n <= cast.nesting + 1 /\ ~ port.xInterruptsEnabled
    <2>1. x.own > 0
      BY <1>1 DEF ExitCritical
    <2>2. x.own <= cast.nesting + 1
      BY <1>4 DEF Coherent
    <2> QED BY <1>1, <1>4, <2>1, <2>2
  <1>6. x.making = None
    BY <1>4 DEF Coherent, Making, Turning
  <1>7. y = [x EXCEPT !.pc = q, !.ret = x.ret, !.own = n] /\ x.ret \in {"task", "enable"}
    BY <1>1, <1>2, <1>4 DEF ThreadRecord
  <1>8. Max({port.uxCriticalNesting - 1, 0}) = n
    <2>1. port.uxCriticalNesting = x.own
      BY <1>4 DEF Nesting
    <2> QED BY <1>1, <1>4, <1>5, <2>1, OneLess
  <1>9. thread' = [thread EXCEPT ![t] = y]
    BY <1>1, <1>2, <1>8 DEF ExitCritical
  <1>10. /\ port' \in PortRecord /\ ~ port'.xInterruptsEnabled
         /\ port'.xSingleThreadMutex = port.xSingleThreadMutex /\ port'.xSentinel = port.xSentinel
         /\ port'.lIndexOfLastAddedTask = port.lIndexOfLastAddedTask
         /\ port'.uxCriticalNesting = n
    BY <1>4, <1>5, <1>8 DEF ExitCritical, PortRecord
  <1>11. UNCHANGED <<cast, pxThreads, kernel>>
    BY DEF ExitCritical
  <1>12. q \in Making => n = 0
    BY <1>2 DEF Making
  <1>13. q \notin {"create", "wait", "created", "add", "yield", "spin", "enter"}
    BY <1>2
  <1>14. GoesOn(t, "task", q, x.ret, n)
    BY <1>1, <1>5, <1>6, <1>7, <1>9, <1>10, <1>11, <1>12, <1>13 DEF GoesOn
  <1> QED BY <1>3, <1>5, <1>7, <1>14, CodeGoesOn

LEMMA PendedKeeps ==
    ASSUME PortIInv, NEW t \in Threads, PendedYield(t), cast' = cast PROVE PortIInv'
  <1>1. PICK x, q : x = thread[t] /\ q = (IF port.xPendYield THEN "yield" ELSE "enable")
    OBVIOUS
  <1>2. PICK y : y = [x EXCEPT !.pc = q, !.ret = "enable"]
    OBVIOUS
  <1>3. At(t, "exit") /\ "exit" \in Fenced \cup Resting /\ q \in Fenced \cup Resting
    BY <1>1 DEF PendedYield, Fenced, Resting
  <1>4. /\ x \in ThreadRecord /\ Coherent(t, x) /\ x.pc = "exit" /\ port.uxCriticalNesting = Nesting(x)
        /\ cast.nesting \in Nat /\ port \in PortRecord
    BY <1>1, <1>3, CodeFacts
  <1>5. x.own = 0
    BY <1>4 DEF Coherent, Making
  <1>6. y = [x EXCEPT !.pc = q, !.ret = "enable", !.own = 0]
    BY <1>2, <1>4, <1>5 DEF ThreadRecord
  <1>7. thread' = [thread EXCEPT ![t] = y]
    BY <1>1, <1>2 DEF PendedYield
  <1>12. port.uxCriticalNesting = 0
    BY <1>4, <1>5 DEF Nesting
  <1>8. /\ port' \in PortRecord
        /\ port'.xSingleThreadMutex = port.xSingleThreadMutex /\ port'.xSentinel = port.xSentinel
        /\ port'.lIndexOfLastAddedTask = port.lIndexOfLastAddedTask
        /\ port'.uxCriticalNesting = 0
    BY <1>4, <1>12 DEF PendedYield, PortRecord
  <1>9. UNCHANGED <<cast, pxThreads, kernel>>
    BY DEF PendedYield
  <1>10. q \in {"yield", "enable"} /\ q \notin Fenced /\ "enable" \in Making
    BY <1>1 DEF Fenced, Making
  <1>11. GoesOn(t, "exit", q, "enable", 0)
    BY <1>1, <1>4, <1>5, <1>6, <1>7, <1>8, <1>9, <1>10 DEF GoesOn
  <1> QED BY <1>3, <1>11, CodeGoesOn

LEMMA EnableKeeps ==
    ASSUME PortIInv, NEW t \in Threads, EnableInterrupts(t), cast' = cast PROVE PortIInv'
  <1>1. PICK x, q : x = thread[t] /\ q = (IF x.making # None THEN "created" ELSE "task")
    OBVIOUS
  <1>2. PICK y : y = [x EXCEPT !.pc = q]
    OBVIOUS
  <1>3. At(t, "enable") /\ "enable" \in Fenced \cup Resting /\ q \in Fenced \cup Resting
    BY <1>1 DEF EnableInterrupts, Fenced, Resting
  <1>4. /\ x \in ThreadRecord /\ Coherent(t, x) /\ x.pc = "enable" /\ port.uxCriticalNesting = Nesting(x)
        /\ cast.nesting \in Nat /\ port \in PortRecord
    BY <1>1, <1>3, CodeFacts
  <1>5. x.own = 0
    BY <1>4 DEF Coherent, Making
  <1>6. y = [x EXCEPT !.pc = q, !.ret = x.ret, !.own = 0] /\ x.ret \in {"task", "enable"}
    BY <1>2, <1>4, <1>5 DEF ThreadRecord
  <1>7. thread' = [thread EXCEPT ![t] = y]
    BY <1>1, <1>2 DEF EnableInterrupts, Goes
  <1>12. port.uxCriticalNesting = 0
    BY <1>4, <1>5 DEF Nesting
  <1>8. /\ port' \in PortRecord
        /\ port'.xSingleThreadMutex = port.xSingleThreadMutex /\ port'.xSentinel = port.xSentinel
        /\ port'.lIndexOfLastAddedTask = port.lIndexOfLastAddedTask
        /\ port'.uxCriticalNesting = 0
    BY <1>4, <1>12 DEF EnableInterrupts, PortRecord
  <1>9. UNCHANGED <<cast, pxThreads, kernel>>
    BY DEF EnableInterrupts
  <1>10. /\ q \in {"created", "task"} /\ q \notin Fenced /\ "created" \in Making
         /\ q = "created" <=> x.making # None
    BY <1>1 DEF Fenced, Making
  <1>11. GoesOn(t, "enable", q, x.ret, 0)
    BY <1>1, <1>4, <1>5, <1>6, <1>7, <1>8, <1>9, <1>10 DEF GoesOn
  <1> QED BY <1>3, <1>6, <1>11, CodeGoesOn

LEMMA CallYieldKeeps ==
    ASSUME PortIInv, NEW t \in Threads, CallYield(t), cast' = cast PROVE PortIInv'
  <1>1. PICK x, y : x = thread[t] /\ y = [x EXCEPT !.pc = "yield", !.ret = "task"]
    OBVIOUS
  <1>2. At(t, "task") /\ "task" \in Fenced \cup Resting /\ "yield" \in Fenced \cup Resting
    BY DEF CallYield, Resting
  <1>3. /\ x \in ThreadRecord /\ Coherent(t, x) /\ x.pc = "task" /\ port.uxCriticalNesting = Nesting(x)
        /\ cast.nesting \in Nat /\ port \in PortRecord /\ x.own \in Nat
        /\ x.own > 0 => ~ port.xInterruptsEnabled
    BY <1>1, <1>2, CodeFacts
  <1>4. x.making = None /\ x.own <= cast.nesting + 1
    BY <1>3 DEF Coherent, Making, Turning
  <1>5. y = [x EXCEPT !.pc = "yield", !.ret = "task", !.own = x.own]
    BY <1>1, <1>3 DEF ThreadRecord
  <1>6. thread' = [thread EXCEPT ![t] = y]
    BY <1>1 DEF CallYield
  <1>7. port' = port /\ port.uxCriticalNesting = x.own
    BY <1>3 DEF CallYield, Nesting
  <1>8. UNCHANGED <<cast, pxThreads, kernel>>
    BY DEF CallYield
  <1>9. "yield" \notin Fenced \cup Making
    BY DEF Fenced, Making
  <1>10. GoesOn(t, "task", "yield", "task", x.own)
    BY <1>1, <1>3, <1>4, <1>5, <1>6, <1>7, <1>8, <1>9 DEF GoesOn
  <1> QED BY <1>2, <1>3, <1>10, CodeGoesOn

(* From a switch, or from none, the code goes on where it was called.       *)
LEMMA ReturnsKeep ==
    ASSUME PortIInv, NEW t \in Threads, NEW pc \in {"yield", "spin"}, At(t, pc),
           Goes(t, thread[t].ret), UNCHANGED <<cast, port, pxThreads, kernel>>
    PROVE  PortIInv'
  <1>1. PICK x, y : x = thread[t] /\ y = [x EXCEPT !.pc = x.ret]
    OBVIOUS
  <1>2. pc \in Fenced \cup Resting /\ pc \notin {"wait", "create"}
    BY DEF Resting
  <1>3. /\ x \in ThreadRecord /\ Coherent(t, x) /\ x.pc = pc /\ port.uxCriticalNesting = Nesting(x)
        /\ cast.nesting \in Nat /\ port \in PortRecord /\ x.own \in Nat
        /\ x.own > 0 => ~ port.xInterruptsEnabled
    BY <1>1, <1>2, CodeFacts
  <1>4. x.ret \in {"task", "enable"} /\ x.ret \in Fenced \cup Resting /\ x.ret \notin Fenced
    BY <1>3 DEF ThreadRecord, Fenced, Resting
  <1>5. /\ x.own <= cast.nesting + 1
        /\ x.ret = "enable" => x.own = 0
        /\ x.making # None => x.own = 0 /\ x.ret = "enable"
    BY <1>3 DEF Coherent, Making
  <1>6. y = [x EXCEPT !.pc = x.ret, !.ret = x.ret, !.own = x.own]
    BY <1>1, <1>3 DEF ThreadRecord
  <1>7. thread' = [thread EXCEPT ![t] = y]
    BY <1>1 DEF Goes
  <1>8. port.uxCriticalNesting = x.own
    BY <1>2, <1>3 DEF Nesting
  <1>9. "task" \notin Making /\ "enable" \in Making
    BY DEF Making
  <1>10. GoesOn(t, pc, x.ret, x.ret, x.own)
    BY <1>1, <1>2, <1>3, <1>4, <1>5, <1>6, <1>7, <1>8, <1>9 DEF GoesOn
  <1> QED BY <1>2, <1>3, <1>4, <1>10, CodeGoesOn

LEMMA ThreadCreatedKeeps ==
    ASSUME PortIInv, NEW t \in Threads, ThreadCreated(t), cast' = cast PROVE PortIInv'
  <1>1. PICK x, y : x = thread[t] /\ y = [x EXCEPT !.pc = "exit"]
    OBVIOUS
  <1>2. At(t, "wait") /\ "wait" \in Fenced \cup Resting /\ "exit" \in Fenced \cup Resting
    BY DEF ThreadCreated, Fenced
  <1>3. /\ x \in ThreadRecord /\ Coherent(t, x) /\ x.pc = "wait" /\ port.uxCriticalNesting = Nesting(x)
        /\ cast.nesting \in Nat /\ port \in PortRecord /\ ~ port.xInterruptsEnabled
    BY <1>1, <1>2, CodeFacts DEF Fenced
  <1>4. x.own = 0 /\ port.uxCriticalNesting = 1
    <2>1. x.own = 0
      BY <1>3 DEF Coherent, Making
    <2> QED BY <1>3, <2>1 DEF Nesting
  <1>5. Max({port.uxCriticalNesting - 1, 0}) = 0
    BY <1>4, OneLess
  <1>6. y = [x EXCEPT !.pc = "exit", !.ret = x.ret, !.own = 0] /\ x.ret \in {"task", "enable"}
    BY <1>1, <1>3, <1>4 DEF ThreadRecord
  <1>7. thread' = [thread EXCEPT ![t] = y]
    BY <1>1, <1>5 DEF ThreadCreated, Goes
  <1>8. /\ port' \in PortRecord /\ ~ port'.xInterruptsEnabled /\ port.xSentinel
        /\ port'.xSingleThreadMutex = port.xSingleThreadMutex /\ port'.xSentinel = port.xSentinel
        /\ port'.lIndexOfLastAddedTask = port.lIndexOfLastAddedTask
        /\ port'.uxCriticalNesting = 0
    <2>1. port' = [port EXCEPT !.uxCriticalNesting = 0] /\ port.xSentinel
      BY <1>5 DEF ThreadCreated
    <2> QED BY <1>3, <2>1 DEF PortRecord
  <1>9. UNCHANGED <<cast, pxThreads, kernel>>
    BY DEF ThreadCreated
  <1>10. "exit" \in Making
    BY DEF Making
  <1>11. GoesOn(t, "wait", "exit", x.ret, 0)
    BY <1>1, <1>3, <1>6, <1>7, <1>8, <1>9, <1>10 DEF GoesOn
  <1> QED BY <1>2, <1>6, <1>11, CodeGoesOn

LEMMA AddNewKeeps ==
    ASSUME PortIInv, NEW t \in Threads, AddNewTask(t), cast' = cast PROVE PortIInv'
  <1>1. PICK x, y : x = thread[t] /\ y = [x EXCEPT !.pc = "add"]
    OBVIOUS
  <1>2. At(t, "created") /\ "created" \in Fenced \cup Resting /\ "add" \in Fenced \cup Resting
    BY DEF AddNewTask, Fenced, Resting
  <1>3. /\ x \in ThreadRecord /\ Coherent(t, x) /\ x.pc = "created" /\ port.uxCriticalNesting = Nesting(x)
        /\ cast.nesting \in Nat /\ port \in PortRecord
    BY <1>1, <1>2, CodeFacts
  <1>4. x.own = 0 /\ x.making # None /\ port.uxCriticalNesting = 0
    <2>1. x.own = 0 /\ x.making # None
      BY <1>3 DEF Coherent, Making
    <2> QED BY <1>3, <2>1 DEF Nesting
  <1>5. y = [x EXCEPT !.pc = "add", !.ret = x.ret, !.own = 0] /\ x.ret \in {"task", "enable"}
    BY <1>1, <1>3, <1>4 DEF ThreadRecord
  <1>6. thread' = [thread EXCEPT ![t] = y]
    BY <1>1 DEF AddNewTask, Goes
  <1>7. /\ port' \in PortRecord /\ ~ port'.xInterruptsEnabled
        /\ port'.xSingleThreadMutex = port.xSingleThreadMutex /\ port'.xSentinel = port.xSentinel
        /\ port'.lIndexOfLastAddedTask = port.lIndexOfLastAddedTask
        /\ port'.uxCriticalNesting = 0
    BY <1>3, <1>4 DEF AddNewTask, PortRecord
  <1>8. UNCHANGED <<cast, pxThreads, kernel>>
    BY DEF AddNewTask
  <1>9. "add" \in Making
    BY DEF Making
  <1>10. GoesOn(t, "created", "add", x.ret, 0)
    BY <1>1, <1>3, <1>4, <1>5, <1>6, <1>7, <1>8, <1>9 DEF GoesOn
  <1> QED BY <1>2, <1>5, <1>10, CodeGoesOn

LEMMA TaskCreateKeeps ==
    ASSUME PortIInv, NEW t \in Threads, xTaskCreate(t), cast' = cast PROVE PortIInv'
  <1>1. PICK x, y : x = thread[t] /\ y = [x EXCEPT !.pc = "create", !.making = handles + 1]
    OBVIOUS
  <1>2. At(t, "task") /\ "task" \in Fenced \cup Resting
    BY DEF xTaskCreate, Resting
  <1>3. /\ x \in ThreadRecord /\ Coherent(t, x) /\ x.pc = "task" /\ port.uxCriticalNesting = Nesting(x)
        /\ x.handler = "none" /\ x.signals = {} /\ ~ x.cancelled
        /\ Active(x) /\ ~ Giving(x) /\ ~ Holds(x)
        /\ cast.nesting \in Nat /\ port \in PortRecord
    BY <1>1, <1>2, CodeFacts
  <1>4. x.own = 0 /\ handles \in Nat
    BY <1>1 DEF xTaskCreate, PortIInv, PortTypes
  <1>5. /\ y \in ThreadRecord /\ y.pc = "create" /\ y.making = handles + 1 /\ y.own = 0
        /\ y.handler = "none" /\ y.signals = {} /\ ~ y.cancelled /\ y.code = x.code
    <2>1. "create" \in Places /\ handles + 1 \in Nat
      BY <1>4 DEF Places, Fenced
    <2> QED BY <1>1, <1>3, <1>4, <2>1 DEF ThreadRecord
  <1>6. Coherent(t, y)
    BY <1>3, <1>4, <1>5 DEF Coherent, Fenced, Resting, Turning, Making, None
  <1>7. Active(y) /\ ~ Giving(y) /\ ~ Holds(y)
    BY <1>5 DEF Active, Giving, Holds, Parked, Leaving
  <1>8. thread' = [thread EXCEPT ![t] = y] /\ handles' = handles + 1
    BY <1>1 DEF xTaskCreate
  <1>9. /\ port' \in PortRecord /\ ~ port'.xInterruptsEnabled
        /\ port'.xSingleThreadMutex = port.xSingleThreadMutex /\ port'.xSentinel = port.xSentinel
        /\ port'.lIndexOfLastAddedTask = port.lIndexOfLastAddedTask
        /\ port'.uxCriticalNesting = Nesting(y)
    BY <1>3, <1>4, <1>5 DEF xTaskCreate, PortRecord, Nesting
  <1>10. /\ UNCHANGED <<cast, pxThreads, current, readied>>
         /\ \E i \in Threads : thread[i].pc = "none"
    BY DEF xTaskCreate, FreeThreadStates
  <1> QED BY <1>1, <1>3, <1>5, <1>6, <1>7, <1>8, <1>9, <1>10, ActiveStays

(* A thread that was told to wait goes on until it does.                    *)
LEMMA LeavingStays ==
    ASSUME PortIInv, NEW t \in Threads, NEW x \in ThreadRecord, x = thread[t], Leaving(x),
           NEW y \in ThreadRecord, Coherent(t, y), Leaving(y) \/ Parked(y),
           y.own = x.own, y.making = x.making, y.code = x.code, ~ y.cancelled,
           x.pc \in Resting \cup Turning, y.pc \in Resting \cup Turning,
           x.pc \in {"suspend", "kill", "spin"} => y.pc \in {"suspend", "kill", "spin"},
           Settled(x) => Settled(y),
           \/ port'.xSingleThreadMutex = port.xSingleThreadMutex /\ Leaving(y)
           \/ port'.xSingleThreadMutex = None /\ ~ Holds(y),
           thread' = [thread EXCEPT ![t] = y], port' \in PortRecord,
           port'.xSentinel => port.xSentinel \/ y.handler = "unlock",
           port'.xInterruptsEnabled = port.xInterruptsEnabled,
           port'.uxCriticalNesting = port.uxCriticalNesting,
           port'.lIndexOfLastAddedTask = port.lIndexOfLastAddedTask,
           UNCHANGED <<cast, pxThreads, kernel>>
    PROVE  PortIInv'
  <1>1. /\ thread \in [Threads -> ThreadRecord] /\ thread' \in [Threads -> ThreadRecord]
        /\ thread'[t] = y /\ \A u \in Threads : u # t => thread'[u] = thread[u]
    BY DEF PortIInv, PortTypes
  <1>2. /\ cast' = cast /\ pxThreads' = pxThreads /\ current' = current /\ readied' = readied
        /\ handles' = handles
    BY DEF kernel
  <1>3. ~ Active(x) /\ ~ Active(y) /\ Holds(x)
    BY DEF Active, Holds
  <1>4. /\ x.pc \notin {"none", "start", "create", "wait"} /\ x.pc \notin Fenced
        /\ y.pc \notin {"none", "start", "create", "wait"} /\ y.pc \notin Fenced
    BY DEF Fenced, Resting, Turning
  <1>5. \A u \in Threads : Active(thread'[u]) <=> Active(thread[u])
    BY <1>1, <1>3
  <1>6. \A u \in Threads : Active(thread[u]) => u # t /\ thread'[u] = thread[u]
    BY <1>1, <1>3
  <1>7. port.xSingleThreadMutex = t /\ \A u \in Threads : u # t => ~ Holds(thread[u])
    <2>1. \A u \in Threads : Holds(thread[u]) <=> port.xSingleThreadMutex = u
      BY DEF PortIInv, MutexHeld
    <2>2. port.xSingleThreadMutex = t
      BY <1>3, <2>1
    <2>3. ASSUME NEW u \in Threads, u # t PROVE ~ Holds(thread[u])
      BY <2>1, <2>2, <2>3
    <2> QED BY <2>2, <2>3
  <1>8. Nesting(y) = Nesting(x)
    BY <1>4 DEF Nesting
  <1>9. PortTypes'
    BY <1>1, <1>2 DEF PortIInv, PortTypes
  <1>10. AllCoherent'
    <2>1. \A u \in Threads : Coherent(u, thread[u])' <=> Coherent(u, thread'[u])
      BY <1>2 DEF Coherent
    <2> QED BY <1>1, <1>2, <2>1 DEF PortIInv, AllCoherent
  <1>11. OneActive'
    BY <1>5 DEF PortIInv, OneActive
  <1>12. MutexHeld'
    <2>1. Holds(y) <=> port'.xSingleThreadMutex = t
      <3>1. t # None
        BY PortAssumption DEF Threads, None
      <3>2. CASE port'.xSingleThreadMutex = port.xSingleThreadMutex /\ Leaving(y)
        BY <1>7, <3>2 DEF Holds
      <3>3. CASE port'.xSingleThreadMutex = None /\ ~ Holds(y)
        BY <3>1, <3>3
      <3> QED BY <3>2, <3>3
    <2>2. ASSUME NEW u \in Threads, u # t
          PROVE  ~ Holds(thread'[u]) /\ port'.xSingleThreadMutex # u
      <3>1. u # None
        BY PortAssumption DEF Threads, None
      <3> QED BY <1>1, <1>7, <2>2, <3>1
    <2>3. \A u \in Threads : Holds(thread'[u]) <=> port'.xSingleThreadMutex = u
      BY <1>1, <2>1, <2>2
    <2> QED BY <2>3 DEF MutexHeld
  <1>13. Mapped'
    BY <1>1, <1>2, <1>4 DEF PortIInv, Mapped
  <1>14. InTurn'
    <2>1. ASSUME NEW u \in Threads, Active(thread'[u])
          PROVE  /\ ~ Giving(thread'[u]) /\ pxThreads[u].hTask = current
                 /\ port'.uxCriticalNesting = Nesting(thread'[u])
      <3>1. Active(thread[u]) /\ u # t /\ thread'[u] = thread[u]
        BY <1>5, <1>6, <2>1
      <3>2. ~ Giving(thread[u])
        BY <1>7, <3>1 DEF Holds
      <3>3. pxThreads[u].hTask = current /\ port.uxCriticalNesting = Nesting(thread[u])
        BY <3>1, <3>2 DEF PortIInv, InTurn
      <3> QED BY <3>1, <3>2, <3>3
    <2> QED BY <1>2, <2>1 DEF InTurn
  <1>15. Saved'
    BY <1>1, <1>2, <1>3, <1>8 DEF PortIInv, Saved
  <1>16. Disabled'
    <2>1. ASSUME NEW u \in Threads
          PROVE  /\ thread'[u].pc \in Fenced => ~ port'.xInterruptsEnabled
                 /\ Active(thread'[u]) /\ ~ Giving(thread'[u]) /\ thread'[u].own > 0 =>
                       /\ thread'[u].handler # "enable"
                       /\ thread'[u].handler \notin {"sigwait", "disable"} => ~ port'.xInterruptsEnabled
      BY <1>1, <1>3, <1>4 DEF PortIInv, Disabled
    <2> QED BY <2>1 DEF Disabled
  <1>17. Made'
    <2>1. PICK s : s = port.lIndexOfLastAddedTask
      OBVIOUS
    <2>2. port'.lIndexOfLastAddedTask = s /\ s \in Threads
      BY <2>1 DEF PortRecord
    <2>3. ASSUME NEW u \in Threads, thread'[u].making # None
          PROVE  /\ thread'[u].making <= handles
                 /\ \A i \in Threads : pxThreads[i].hTask # thread'[u].making
                 /\ thread'[u].pc = "create" => \E i \in Threads : thread'[i].pc = "none"
                 /\ thread'[u].pc # "create" =>
                       /\ pxThreads[s].hTask = None /\ thread'[s].code = thread'[u].making
                       /\ thread'[s].pc \in {"start", "suspend", "kill", "spin"}
                       /\ ~ Active(thread'[s])
                       /\ thread'[u].pc # "wait" \/ port'.xSentinel => Settled(thread'[s])
                       /\ thread'[u].pc = "wait" => port'.xSingleThreadMutex \in {None, s}
      <3>1. /\ thread[u].making = thread'[u].making
            /\ thread'[u].pc = "create" <=> thread[u].pc = "create"
            /\ thread'[u].pc = "wait" <=> thread[u].pc = "wait"
        BY <1>1, <1>4
      <3>2. /\ thread[u].making <= handles /\ \A i \in Threads : pxThreads[i].hTask # thread[u].making
            /\ thread[u].pc = "create" => \E i \in Threads : thread[i].pc = "none"
            /\ thread[u].pc # "create" =>
                  /\ pxThreads[s].hTask = None /\ thread[s].code = thread[u].making
                  /\ thread[s].pc \in {"start", "suspend", "kill", "spin"} /\ ~ Active(thread[s])
                  /\ thread[u].pc # "wait" \/ port.xSentinel => Settled(thread[s])
                  /\ thread[u].pc = "wait" => port.xSingleThreadMutex \in {None, s}
        BY <2>1, <2>3, <3>1 DEF PortIInv, Made
      <3>3. thread'[u].pc = "create" => \E i \in Threads : thread'[i].pc = "none"
        BY <1>1, <1>4, <3>1, <3>2
      <3>4. ASSUME thread'[u].pc # "create"
            PROVE  /\ thread'[s].code = thread'[u].making
                   /\ thread'[s].pc \in {"start", "suspend", "kill", "spin"}
                   /\ ~ Active(thread'[s])
        BY <1>1, <1>3, <1>4, <2>2, <3>1, <3>2, <3>4
      <3>5. ASSUME thread'[u].pc = "wait"
            PROVE  port'.xSingleThreadMutex \in {None, s} /\ (port'.xSentinel => Settled(thread'[s]))
        <4>1. port.xSingleThreadMutex \in {None, s} /\ (port.xSentinel => Settled(thread[s]))
          BY <3>1, <3>2, <3>5
        <4>2. t = s
          BY <1>7, <4>1, PortAssumption DEF Threads, None
        <4>3. y.handler = "unlock" => Settled(y)
          <5>1. x.pc \in {"suspend", "kill", "spin"}
            BY <1>4, <3>1, <3>2, <3>5, <4>2
          <5>2. y.handler = "unlock" => y.pc \in Resting
            BY DEF Coherent
          <5> QED BY <5>1, <5>2 DEF Settled, Resting
        <4> QED BY <1>1, <4>1, <4>2, <4>3
      <3>6. ASSUME thread'[u].pc # "create", thread'[u].pc # "wait"
            PROVE  Settled(thread'[s])
        BY <1>1, <2>2, <3>1, <3>2, <3>6
      <3> QED BY <3>1, <3>2, <3>3, <3>4, <3>5, <3>6
    <2>4. ASSUME NEW u \in Threads, thread'[u].pc = "start"
          PROVE  s = u /\ \E w \in Threads : thread'[w].pc = "wait"
      <3>1. thread[u].pc = "start"
        BY <1>1, <1>4, <2>4
      <3>2. PICK w \in Threads : s = u /\ thread[w].pc = "wait"
        BY <2>1, <3>1 DEF PortIInv, Made
      <3> QED BY <1>1, <1>4, <3>2
    <2> QED BY <1>2, <2>2, <2>3, <2>4 DEF Made
  <1>18. Cancelled'
    BY <1>1, <1>2 DEF PortIInv, Cancelled
  <1> QED BY <1>9, <1>10, <1>11, <1>12, <1>13, <1>14, <1>15, <1>16, <1>17, <1>18 DEF PortIInv

LEMMA LeavingFacts ==
    ASSUME PortIInv, NEW t \in Threads, NEW x, x = thread[t], Leaving(x)
    PROVE  /\ x \in ThreadRecord /\ Coherent(t, x) /\ ~ x.cancelled
           /\ x.pc \in Resting \cup Turning /\ port \in PortRecord
           /\ "RESUME" \notin x.signals /\ port.xSingleThreadMutex = t /\ t # None
  <1>1. x \in ThreadRecord /\ Coherent(t, x) /\ port \in PortRecord
    BY DEF PortIInv, PortTypes, AllCoherent
  <1>2. x.pc \in Resting \cup Turning
    BY <1>1 DEF Leaving, Coherent, Turning
  <1>3. x.handler # "sigwait"
    BY <1>1 DEF Leaving, Coherent, Resting
  <1>4. ~ x.cancelled
    BY <1>3 DEF PortIInv, Cancelled, Parked
  <1>5. port.xSingleThreadMutex = t
    BY DEF PortIInv, MutexHeld, Holds
  <1>6. "RESUME" \notin x.signals
    BY <1>1, <1>3 DEF Coherent
  <1>7. t # None
    BY PortAssumption DEF Threads, None
  <1> QED BY <1>1, <1>2, <1>4, <1>5, <1>6, <1>7

(* A thread that is leaving goes to q in its code and to h in its handler.  *)
LeavesTo(t, q, h, signals, from) ==
    /\ thread' = [thread EXCEPT ![t] = [thread[t] EXCEPT !.pc = q, !.handler = h,
                                                         !.signals = signals, !.from = from]]
    /\ q = thread[t].pc \/ (thread[t].pc \in {"suspend", "kill"} /\ q \in {"kill", "spin"})
    /\ q \in Turning => h \in {"none", "tick"} /\ signals = {} /\ from = t
    /\ q \in Resting => h \in {"none", "unlock", "sigwait", "tick done"}
    /\ signals # {} => h \in {"none", "tick done"} /\ q \in Resting
    /\ thread[t].handler = "unlock" => h = "sigwait"
    /\ \/ q \in {"kill", "suspend"} \/ h = "unlock" \/ signals = {"SUSPEND"}
       \/ q \in Resting /\ h = "sigwait" /\ signals = {}
    /\ port'.xSingleThreadMutex = IF h = "sigwait" THEN None ELSE port.xSingleThreadMutex
    /\ port'.xSentinel => port.xSentinel \/ h = "unlock"
    /\ port' \in PortRecord
    /\ port'.xInterruptsEnabled = port.xInterruptsEnabled
    /\ port'.uxCriticalNesting = port.uxCriticalNesting
    /\ port'.lIndexOfLastAddedTask = port.lIndexOfLastAddedTask
    /\ UNCHANGED <<cast, pxThreads, kernel>>

LEMMA LeavesToKeeps ==
    ASSUME PortIInv, NEW t \in Threads, Leaving(thread[t]), NEW q, NEW h \in HandlerPlaces,
           NEW signals \in {{}, {"SUSPEND"}}, NEW from \in Nat, LeavesTo(t, q, h, signals, from)
    PROVE  PortIInv'
  <1>1. PICK x : x = thread[t]
    OBVIOUS
  <1>2. PICK y : y = [x EXCEPT !.pc = q, !.handler = h, !.signals = signals, !.from = from]
    OBVIOUS
  <1>3. /\ x \in ThreadRecord /\ Coherent(t, x) /\ ~ x.cancelled
        /\ x.pc \in Resting \cup Turning /\ port \in PortRecord
    BY <1>1, LeavingFacts
  <1>4. q \in Resting \cup Turning
    BY <1>1, <1>3 DEF LeavesTo, Turning, Resting
  <1>5. /\ y \in ThreadRecord /\ y.pc = q /\ y.handler = h /\ y.signals = signals /\ y.from = from
        /\ y.own = x.own /\ y.making = x.making /\ y.code = x.code /\ y.cancelled = x.cancelled
        /\ y.ret = x.ret
    <2>1. q \in Places
      BY <1>4 DEF Places
    <2> QED BY <1>2, <1>3, <2>1 DEF ThreadRecord
  <1>6. Coherent(t, y)
    <2>1. CASE q = x.pc
      BY <1>1, <1>3, <1>4, <1>5, <2>1 DEF LeavesTo, Coherent, Turning, Resting, Fenced
    <2>2. CASE q # x.pc
      <3>1. x.pc \in {"suspend", "kill"} /\ q \in {"kill", "spin"} /\ q \notin Fenced \cup Making
        BY <1>1, <2>2 DEF LeavesTo, Fenced, Making
      <3>2. x.pc \notin Making /\ x.pc \in Turning
        BY <3>1 DEF Making, Turning
      <3> QED BY <1>1, <1>3, <1>4, <1>5, <3>1, <3>2 DEF LeavesTo, Coherent, Turning, Resting
    <2> QED BY <2>1, <2>2
  <1>7. Leaving(y) \/ Parked(y)
    BY <1>5 DEF LeavesTo, Leaving, Parked
  <1>8. Settled(x) => Settled(y)
    <2>1. ASSUME Settled(x) PROVE x.pc = "spin" /\ x.handler = "unlock"
      BY <1>1, <1>3, <2>1 DEF Settled, Parked, Leaving, Coherent, Resting
    <2>2. ASSUME Settled(x) PROVE q = "spin" /\ h = "sigwait" /\ signals = {}
      BY <1>1, <2>1, <2>2 DEF LeavesTo
    <2> QED BY <1>5, <2>2 DEF Settled, Parked
  <1>9. \/ port'.xSingleThreadMutex = port.xSingleThreadMutex /\ Leaving(y)
        \/ port'.xSingleThreadMutex = None /\ ~ Holds(y)
    <2>1. CASE h = "sigwait"
      BY <1>5, <2>1 DEF LeavesTo, Leaving, Holds, Giving, Resting, Turning
    <2>2. CASE h # "sigwait"
      BY <1>5, <2>2 DEF LeavesTo, Leaving
    <2> QED BY <2>1, <2>2
  <1>10. x.pc \in {"suspend", "kill", "spin"} => y.pc \in {"suspend", "kill", "spin"}
    BY <1>1, <1>5 DEF LeavesTo
  <1>11. /\ thread' = [thread EXCEPT ![t] = y] /\ port' \in PortRecord
         /\ port'.xSentinel => port.xSentinel \/ y.handler = "unlock"
         /\ port'.xInterruptsEnabled = port.xInterruptsEnabled
         /\ port'.uxCriticalNesting = port.uxCriticalNesting
         /\ port'.lIndexOfLastAddedTask = port.lIndexOfLastAddedTask
         /\ UNCHANGED <<cast, pxThreads, kernel>>
    BY <1>1, <1>2, <1>5 DEF LeavesTo
  <1> QED BY <1>1, <1>3, <1>4, <1>5, <1>6, <1>7, <1>8, <1>9, <1>10, <1>11, LeavingStays

(* The steps of a thread that is told to wait.                              *)
LEMMA SuspendThreadKeeps ==
    ASSUME PortIInv, NEW t \in Threads, prvSuspendThread(t), cast' = cast PROVE PortIInv'
  <1>1. PICK x : x = thread[t]
    OBVIOUS
  <1>2. x.pc = "suspend" /\ x.handler = "none" /\ Leaving(x)
    BY <1>1 DEF prvSuspendThread, At, Leaving
  <1>3. /\ x \in ThreadRecord /\ Coherent(t, x) /\ port \in PortRecord
    BY <1>1, <1>2, LeavingFacts
  <1>4. x.signals = {} /\ x.from = t /\ x.from \in Nat
    BY <1>2, <1>3 DEF Coherent, Turning, ThreadRecord
  <1>5. [x EXCEPT !.pc = "kill"] = [x EXCEPT !.pc = "kill", !.handler = "none", !.signals = {}, !.from = t]
    BY <1>2, <1>3, <1>4 DEF ThreadRecord
  <1>6. thread' = [thread EXCEPT ![t] = [x EXCEPT !.pc = "kill"]]
    BY <1>1 DEF prvSuspendThread, Goes
  <1>7. /\ port' \in PortRecord /\ ~ port'.xSentinel
        /\ port'.xSingleThreadMutex = port.xSingleThreadMutex
        /\ port'.xInterruptsEnabled = port.xInterruptsEnabled
        /\ port'.uxCriticalNesting = port.uxCriticalNesting
        /\ port'.lIndexOfLastAddedTask = port.lIndexOfLastAddedTask
    BY <1>3 DEF prvSuspendThread, PortRecord
  <1>8. UNCHANGED <<cast, pxThreads, kernel>>
    BY DEF prvSuspendThread
  <1>9. LeavesTo(t, "kill", "none", {}, t)
    BY <1>1, <1>2, <1>5, <1>6, <1>7, <1>8 DEF LeavesTo, Resting
  <1> QED BY <1>1, <1>2, <1>4, <1>9, LeavesToKeeps DEF HandlerPlaces

LEMMA KillKeeps ==
    ASSUME PortIInv, NEW t \in Threads, KillSelf(t), cast' = cast PROVE PortIInv'
  <1>1. PICK x : x = thread[t]
    OBVIOUS
  <1>2. x.pc = "kill" /\ x.handler = "none" /\ Leaving(x)
    BY <1>1 DEF KillSelf, At, Leaving
  <1>3. /\ x \in ThreadRecord /\ Coherent(t, x) /\ port \in PortRecord
    BY <1>1, <1>2, LeavingFacts
  <1>4. x.signals = {} /\ x.from = t
    BY <1>2, <1>3 DEF Coherent, Turning
  <1>5. PICK y : y = [x EXCEPT !.pc = "spin", !.handler = "none", !.signals = {"SUSPEND"}, !.from = None]
    OBVIOUS
  <1>6. thread' = [thread EXCEPT ![t] = y]
    <2>1. thread \in [Threads -> ThreadRecord] /\ thread[t].from = t /\ x.signals \cup {"SUSPEND"} = {"SUSPEND"}
      BY <1>1, <1>4 DEF PortIInv, PortTypes
    <2>2. Suspended(t) = [thread EXCEPT ![t] = [x EXCEPT !.signals = {"SUSPEND"}, !.from = None]]
      BY <1>1, <2>1 DEF Suspended, ThreadRecord
    <2>3. thread' = [thread EXCEPT ![t] = [x EXCEPT !.signals = {"SUSPEND"}, !.from = None, !.pc = "spin"]]
      BY <2>1, <2>2 DEF KillSelf
    <2>4. y = [x EXCEPT !.signals = {"SUSPEND"}, !.from = None, !.pc = "spin"]
      BY <1>2, <1>3, <1>5 DEF ThreadRecord
    <2> QED BY <2>3, <2>4
  <1>7. UNCHANGED <<cast, port, pxThreads, kernel>>
    BY DEF KillSelf
  <1>9. LeavesTo(t, "spin", "none", {"SUSPEND"}, None)
    BY <1>1, <1>2, <1>3, <1>5, <1>6, <1>7 DEF LeavesTo, Resting, Turning
  <1> QED BY <1>1, <1>2, <1>9, LeavesToKeeps DEF HandlerPlaces, None

LEMMA SuspendSignalKeeps ==
    ASSUME PortIInv, NEW t \in Threads, SuspendSignal(t), cast' = cast PROVE PortIInv'
  <1>1. PICK x : x = thread[t]
    OBVIOUS
  <1>2. "SUSPEND" \in x.signals /\ x.handler = "none" /\ Leaving(x)
    BY <1>1 DEF SuspendSignal, Leaving
  <1>3. /\ x \in ThreadRecord /\ Coherent(t, x) /\ port \in PortRecord /\ "RESUME" \notin x.signals
    BY <1>1, <1>2, LeavingFacts
  <1>4. x.signals \ {"SUSPEND"} = {} /\ x.from \in Nat
    BY <1>3 DEF ThreadRecord
  <1>5. x.pc \in Resting /\ x.pc \notin Turning
    BY <1>2, <1>3 DEF Coherent, Resting, Turning
  <1>6. PICK y : y = [x EXCEPT !.pc = x.pc, !.handler = "unlock", !.signals = {}, !.from = x.from]
    OBVIOUS
  <1>7. thread' = [thread EXCEPT ![t] = y]
    <2>1. thread' = [thread EXCEPT ![t] = [x EXCEPT !.handler = "unlock", !.signals = {}]]
      BY <1>1, <1>4 DEF SuspendSignal
    <2>2. y = [x EXCEPT !.handler = "unlock", !.signals = {}]
      BY <1>3, <1>6 DEF ThreadRecord
    <2> QED BY <2>1, <2>2
  <1>8. /\ port' \in PortRecord
        /\ port'.xSingleThreadMutex = port.xSingleThreadMutex
        /\ port'.xInterruptsEnabled = port.xInterruptsEnabled
        /\ port'.uxCriticalNesting = port.uxCriticalNesting
        /\ port'.lIndexOfLastAddedTask = port.lIndexOfLastAddedTask
    BY <1>3 DEF SuspendSignal, PortRecord
  <1>9. UNCHANGED <<cast, pxThreads, kernel>>
    BY DEF SuspendSignal
  <1>10. LeavesTo(t, x.pc, "unlock", {}, x.from)
    BY <1>1, <1>2, <1>5, <1>6, <1>7, <1>8, <1>9 DEF LeavesTo
  <1> QED BY <1>1, <1>2, <1>4, <1>10, LeavesToKeeps DEF HandlerPlaces

LEMMA UnlockKeeps ==
    ASSUME PortIInv, NEW t \in Threads, Unlock(t), cast' = cast PROVE PortIInv'
  <1>1. PICK x : x = thread[t]
    OBVIOUS
  <1>2. x.handler = "unlock" /\ Leaving(x)
    BY <1>1 DEF Unlock, Leaving
  <1>3. /\ x \in ThreadRecord /\ Coherent(t, x) /\ port \in PortRecord /\ "RESUME" \notin x.signals
    BY <1>1, <1>2, LeavingFacts
  <1>4. x.signals = {} /\ x.from \in Nat
    BY <1>2, <1>3 DEF ThreadRecord, Coherent
  <1>5. x.pc \in Resting /\ x.pc \notin Turning
    BY <1>2, <1>3 DEF Coherent, Resting, Turning
  <1>6. PICK y : y = [x EXCEPT !.pc = x.pc, !.handler = "sigwait", !.signals = {}, !.from = x.from]
    OBVIOUS
  <1>7. thread' = [thread EXCEPT ![t] = y]
    <2>1. thread' = [thread EXCEPT ![t] = [x EXCEPT !.handler = "sigwait"]]
      BY <1>1 DEF Unlock, Handler
    <2>2. y = [x EXCEPT !.handler = "sigwait"]
      BY <1>3, <1>4, <1>6 DEF ThreadRecord
    <2> QED BY <2>1, <2>2
  <1>8. /\ port' \in PortRecord
        /\ port'.xSingleThreadMutex = None
        /\ port'.xSentinel = port.xSentinel
        /\ port'.xInterruptsEnabled = port.xInterruptsEnabled
        /\ port'.uxCriticalNesting = port.uxCriticalNesting
        /\ port'.lIndexOfLastAddedTask = port.lIndexOfLastAddedTask
    BY <1>3 DEF Unlock, PortRecord
  <1>9. UNCHANGED <<cast, pxThreads, kernel>>
    BY DEF Unlock
  <1>10. LeavesTo(t, x.pc, "sigwait", {}, x.from)
    BY <1>1, <1>2, <1>5, <1>6, <1>7, <1>8, <1>9 DEF LeavesTo
  <1> QED BY <1>1, <1>2, <1>4, <1>10, LeavesToKeeps DEF HandlerPlaces

LEMMA TickSuspendsKeeps ==
    ASSUME PortIInv, NEW t \in Threads, TickSuspends(t), cast' = cast PROVE PortIInv'
  <1>1. PICK x : x = thread[t]
    OBVIOUS
  <1>2. x.handler = "tick suspend" /\ Leaving(x)
    BY <1>1 DEF TickSuspends, Leaving
  <1>3. /\ x \in ThreadRecord /\ Coherent(t, x) /\ port \in PortRecord
    BY <1>1, <1>2, LeavingFacts
  <1>4. x.signals = {} /\ x.from = t
    BY <1>2, <1>3 DEF Coherent
  <1>5. x.pc \in Resting /\ x.pc \notin Turning
    BY <1>2, <1>3 DEF Coherent, Resting, Turning
  <1>6. PICK y : y = [x EXCEPT !.pc = x.pc, !.handler = "tick done", !.signals = {"SUSPEND"}, !.from = None]
    OBVIOUS
  <1>7. thread' = [thread EXCEPT ![t] = y]
    <2>1. thread \in [Threads -> ThreadRecord] /\ thread[t].from = t /\ x.signals \cup {"SUSPEND"} = {"SUSPEND"}
      BY <1>1, <1>4 DEF PortIInv, PortTypes
    <2>2. Suspended(t) = [thread EXCEPT ![t] = [x EXCEPT !.signals = {"SUSPEND"}, !.from = None]]
      BY <1>1, <2>1 DEF Suspended, ThreadRecord
    <2>3. thread' = [thread EXCEPT ![t] = [x EXCEPT !.signals = {"SUSPEND"}, !.from = None, !.handler = "tick done"]]
      BY <2>1, <2>2 DEF TickSuspends
    <2>4. y = [x EXCEPT !.signals = {"SUSPEND"}, !.from = None, !.handler = "tick done"]
      BY <1>2, <1>3, <1>6 DEF ThreadRecord
    <2> QED BY <2>3, <2>4
  <1>8. /\ port' \in PortRecord /\ ~ port'.xSentinel
        /\ port'.xSingleThreadMutex = port.xSingleThreadMutex
        /\ port'.xInterruptsEnabled = port.xInterruptsEnabled
        /\ port'.uxCriticalNesting = port.uxCriticalNesting
        /\ port'.lIndexOfLastAddedTask = port.lIndexOfLastAddedTask
    BY <1>3 DEF TickSuspends, PortRecord
  <1>9. UNCHANGED <<cast, pxThreads, kernel>>
    BY DEF TickSuspends
  <1>10. LeavesTo(t, x.pc, "tick done", {"SUSPEND"}, None)
    BY <1>1, <1>2, <1>5, <1>6, <1>7, <1>8, <1>9 DEF LeavesTo
  <1> QED BY <1>1, <1>2, <1>10, LeavesToKeeps DEF HandlerPlaces, None

(* The active thread goes to h in its handler, in what interrupts the code. *)
HandlesOn(t, h, from, to) ==
    /\ thread' = [thread EXCEPT ![t] = [thread[t] EXCEPT !.handler = h, !.signals = {},
                                                         !.from = from, !.to = to]]
    /\ thread[t].handler # "tick resume" /\ thread[t].pc \notin Fenced
    /\ h \in {"none", "enable", "disable", "tick", "tick unlock", "tick done"}
    /\ h \in {"none", "tick"} \/ thread[t].pc \in Resting
    /\ thread[t].pc = "resume" => from = thread[t].from /\ to = thread[t].to
    /\ thread[t].own > 0 /\ thread[t].pc # "resume" =>
          h # "enable" /\ (h = "disable" \/ ~ port'.xInterruptsEnabled)
    /\ IF h = "tick unlock"
       THEN port.xSingleThreadMutex = None /\ port'.xSingleThreadMutex = t
       ELSE port'.xSingleThreadMutex =
               IF thread[t].handler = "tick unlock" THEN None ELSE port.xSingleThreadMutex
    /\ thread[t].handler = "tick unlock" => h = "tick done"
    /\ port' \in PortRecord /\ port'.xSentinel = port.xSentinel
    /\ port'.uxCriticalNesting = port.uxCriticalNesting
    /\ port'.lIndexOfLastAddedTask = port.lIndexOfLastAddedTask
    /\ UNCHANGED <<cast, pxThreads, kernel>>

LEMMA HandlesOnKeeps ==
    ASSUME PortIInv, NEW t \in Threads, Active(thread[t]), NEW h, NEW from \in Nat, NEW to \in Nat,
           HandlesOn(t, h, from, to)
    PROVE  PortIInv'
  <1>1. PICK x : x = thread[t]
    OBVIOUS
  <1>2. PICK y : y = [x EXCEPT !.handler = h, !.signals = {}, !.from = from, !.to = to]
    OBVIOUS
  <1>3. /\ x \in ThreadRecord /\ Coherent(t, x) /\ Active(x) /\ port \in PortRecord
        /\ ~ x.cancelled /\ x.own \in Nat
    <2>1. x \in ThreadRecord /\ Coherent(t, x) /\ Active(x) /\ port \in PortRecord
      BY <1>1 DEF PortIInv, PortTypes, AllCoherent
    <2>2. ~ x.cancelled
      BY <1>1, <2>1 DEF PortIInv, Cancelled, Active
    <2> QED BY <2>1, <2>2 DEF ThreadRecord
  <1>4. /\ y \in ThreadRecord /\ y.pc = x.pc /\ y.handler = h /\ y.signals = {}
        /\ y.from = from /\ y.to = to
        /\ y.own = x.own /\ y.making = x.making /\ y.code = x.code /\ y.cancelled = x.cancelled
        /\ y.ret = x.ret
    <2>1. h \in HandlerPlaces
      BY DEF HandlesOn, HandlerPlaces
    <2> QED BY <1>2, <1>3, <2>1 DEF ThreadRecord
  <1>5. /\ x.pc \notin {"none", "start", "suspend", "kill"} /\ x.pc \notin Fenced
        /\ x.handler \notin {"tick resume", "tick suspend", "unlock"}
    BY <1>1, <1>3 DEF Active, Leaving, HandlesOn
  <1>6. Coherent(t, y)
    <2>1. x.pc \in Turning => /\ h \in {"none", "tick"} /\ x.pc = "resume" /\ from = x.from /\ x.from = t
      BY <1>1, <1>3, <1>5 DEF HandlesOn, Coherent, Turning, Resting
    <2>2. /\ h \notin {"tick resume", "tick suspend"}
          /\ h \notin {"none", "tick"} => x.pc \in Resting
      BY <1>1 DEF HandlesOn
    <2> QED BY <1>3, <1>4, <1>5, <2>1, <2>2 DEF Coherent
  <1>7. h \notin {"tick resume", "tick suspend", "unlock", "sigwait"}
    BY DEF HandlesOn
  <1>8. Active(y) /\ (Giving(y) <=> Giving(x))
    BY <1>4, <1>5, <1>7 DEF Active, Parked, Leaving, Giving
  <1>9. Nesting(y) = Nesting(x)
    BY <1>4 DEF Nesting
  <1>10. IF Giving(x)
         THEN /\ Giving(y) /\ y.to = x.to /\ Nesting(y) = Nesting(x)
              /\ port'.uxCriticalNesting = port.uxCriticalNesting
         ELSE ~ Giving(y) /\ port'.uxCriticalNesting = Nesting(y)
    <2>1. ASSUME Giving(x) PROVE y.to = x.to
      BY <1>1, <1>4, <1>5, <2>1 DEF Giving, HandlesOn
    <2>2. ASSUME ~ Giving(x) PROVE port.uxCriticalNesting = Nesting(x)
      BY <1>1, <1>3, <2>2 DEF PortIInv, InTurn
    <2>3. port'.uxCriticalNesting = port.uxCriticalNesting
      BY DEF HandlesOn
    <2> QED BY <1>8, <1>9, <2>1, <2>2, <2>3
  <1>11. y.own > 0 /\ ~ Giving(y) =>
              /\ y.handler # "enable"
              /\ y.handler \notin {"sigwait", "disable"} => ~ port'.xInterruptsEnabled
    BY <1>1, <1>4 DEF HandlesOn, Giving
  <1>12. \/ port'.xSingleThreadMutex = port.xSingleThreadMutex /\ (Holds(y) <=> Holds(x))
         \/ /\ port.xSingleThreadMutex = None /\ port'.xSingleThreadMutex = t
            /\ Holds(y) /\ y.pc # "wait"
         \/ port.xSingleThreadMutex = t /\ port'.xSingleThreadMutex = None /\ ~ Holds(y)
    <2>1. CASE h = "tick unlock"
      BY <1>4, <1>5, <2>1 DEF HandlesOn, Holds, Fenced
    <2>2. CASE h # "tick unlock" /\ x.handler = "tick unlock"
      <3>1. port.xSingleThreadMutex = t
        BY <1>1, <2>2 DEF PortIInv, MutexHeld, Holds
      <3>2. x.pc \in Resting /\ x.pc # "resume"
        BY <1>3, <2>2 DEF Coherent, Resting
      <3>3. ~ Holds(y)
        BY <1>4, <1>7, <1>8, <2>2, <3>2 DEF Holds, Active, Giving
      <3>4. port'.xSingleThreadMutex = None
        BY <1>1, <2>2 DEF HandlesOn
      <3> QED BY <3>1, <3>3, <3>4
    <2>3. CASE h # "tick unlock" /\ x.handler # "tick unlock"
      <3>1. Holds(y) <=> Holds(x)
        BY <1>3, <1>4, <1>8, <2>3 DEF Holds, Active
      <3>2. port'.xSingleThreadMutex = port.xSingleThreadMutex
        BY <1>1, <2>3 DEF HandlesOn
      <3> QED BY <3>1, <3>2
    <2> QED BY <2>1, <2>2, <2>3
  <1>13. /\ thread' = [thread EXCEPT ![t] = y] /\ port' \in PortRecord
         /\ port'.xSentinel = port.xSentinel
         /\ port'.lIndexOfLastAddedTask = port.lIndexOfLastAddedTask
         /\ UNCHANGED <<cast, pxThreads, current, readied>> /\ handles' = handles
    BY <1>1, <1>2 DEF HandlesOn, kernel
  <1>14. x.pc \notin {"create", "wait"}
    BY <1>5 DEF Fenced
  <1> QED BY <1>1, <1>3, <1>4, <1>5, <1>6, <1>8, <1>9, <1>10, <1>11, <1>12, <1>13, <1>14, ActiveStays

(* Only the flags of the tick change. *)
LEMMA FlagsKeep ==
    ASSUME PortIInv, port' \in PortRecord, UNCHANGED <<cast, thread, pxThreads, kernel>>,
           port'.xSingleThreadMutex = port.xSingleThreadMutex, port'.xSentinel = port.xSentinel,
           port'.xInterruptsEnabled = port.xInterruptsEnabled,
           port'.uxCriticalNesting = port.uxCriticalNesting,
           port'.lIndexOfLastAddedTask = port.lIndexOfLastAddedTask
    PROVE  PortIInv'
  <1>1. PICK r \in Threads : Active(thread[r])
    BY DEF PortIInv, OneActive
  <1>2. PICK x : x = thread[r]
    OBVIOUS
  <1>3. x \in ThreadRecord /\ Coherent(r, x) /\ Active(x)
    BY <1>1, <1>2 DEF PortIInv, PortTypes, AllCoherent
  <1>4. ~ x.cancelled
    BY <1>1, <1>2 DEF PortIInv, Cancelled, Active
  <1>5. IF Giving(x) THEN TRUE ELSE port.uxCriticalNesting = Nesting(x)
    BY <1>1, <1>2 DEF PortIInv, InTurn
  <1>6. /\ x.pc \in Fenced => ~ port.xInterruptsEnabled
        /\ x.own > 0 /\ ~ Giving(x) =>
              /\ x.handler # "enable"
              /\ x.handler \notin {"sigwait", "disable"} => ~ port.xInterruptsEnabled
    BY <1>1, <1>2 DEF PortIInv, Disabled
  <1>7. thread' = [thread EXCEPT ![r] = x]
    BY <1>2 DEF PortIInv, PortTypes
  <1>8. UNCHANGED <<cast, pxThreads, current, readied>> /\ handles' = handles
    BY DEF kernel
  <1> QED BY <1>2, <1>3, <1>4, <1>5, <1>6, <1>7, <1>8, ActiveStays

(* A thread that takes a step in a handler, or may take the tick.           *)
LEMMA HandlerFacts ==
    ASSUME PortIInv, NEW t \in Threads, NEW x, x = thread[t]
    PROVE  /\ x \in ThreadRecord /\ Coherent(t, x) /\ port \in PortRecord
           /\ x.from \in Nat /\ x.to \in Nat
           /\ x.pc \in {"none", "start"} \cup Fenced => x.handler = "none"
           /\ x.handler \notin {"sigwait", "none"} => Active(x) \/ Leaving(x)
           /\ x.handler # "sigwait" => "RESUME" \notin x.signals
           /\ Active(x) => "SUSPEND" \notin x.signals
           /\ x.pc \in Fenced => ~ port.xInterruptsEnabled
  <1>1. x \in ThreadRecord /\ Coherent(t, x) /\ port \in PortRecord
    BY DEF PortIInv, PortTypes, AllCoherent
  <1>2. x.from \in Nat /\ x.to \in Nat
    BY <1>1 DEF ThreadRecord
  <1>3. /\ x.pc \in {"none", "start"} \cup Fenced => x.handler = "none"
        /\ x.handler # "sigwait" => "RESUME" \notin x.signals
    BY <1>1 DEF Coherent
  <1>4. x.handler \notin {"sigwait", "none"} => Active(x) \/ Leaving(x)
    BY <1>3 DEF Active, Parked
  <1>5. Active(x) => "SUSPEND" \notin x.signals
    BY DEF Active, Leaving
  <1>6. x.pc \in Fenced => ~ port.xInterruptsEnabled
    BY DEF PortIInv, Disabled
  <1> QED BY <1>1, <1>2, <1>3, <1>4, <1>5, <1>6

(* The handler of the tick is entered or left while the code waits.         *)
TickOnly(t, h) ==
    /\ thread' = [thread EXCEPT ![t].handler = h]
    /\ port' \in PortRecord /\ port'.xSentinel = port.xSentinel
    /\ port'.xSingleThreadMutex = port.xSingleThreadMutex
    /\ port'.xInterruptsEnabled = port.xInterruptsEnabled
    /\ port'.uxCriticalNesting = port.uxCriticalNesting
    /\ port'.lIndexOfLastAddedTask = port.lIndexOfLastAddedTask
    /\ UNCHANGED <<cast, pxThreads, kernel>>

LEMMA TickOnlyKeeps ==
    ASSUME PortIInv, NEW t \in Threads, NEW h \in {"none", "tick"}, TickOnly(t, h),
           thread[t].pc \notin {"none", "start"} \cup Fenced,
           \/ thread[t].handler \in {"tick", "tick done"} /\ h = "none"
           \/ /\ thread[t].handler = "none" /\ h = "tick"
              /\ port.xInterruptsEnabled /\ "SUSPEND" \notin thread[t].signals
    PROVE  PortIInv'
  <1>1. PICK x : x = thread[t]
    OBVIOUS
  <1>2. /\ x \in ThreadRecord /\ Coherent(t, x) /\ port \in PortRecord
        /\ x.from \in Nat /\ x.to \in Nat
        /\ x.handler # "sigwait" => "RESUME" \notin x.signals
        /\ Active(x) => "SUSPEND" \notin x.signals
    BY <1>1, HandlerFacts
  <1>3. x.handler \in {"none", "tick", "tick done"} /\ "RESUME" \notin x.signals
    BY <1>1, <1>2
  <1>4. Active(x) \/ Leaving(x)
    BY <1>1, <1>3 DEF Active, Parked
  <1>5. CASE Active(x)
    <2>1. x.signals = {}
      BY <1>2, <1>3, <1>5 DEF ThreadRecord
    <2>2. [x EXCEPT !.handler = h] = [x EXCEPT !.handler = h, !.signals = {}, !.from = x.from, !.to = x.to]
      BY <1>2, <2>1 DEF ThreadRecord
    <2>3. thread' = [thread EXCEPT ![t] = [x EXCEPT !.handler = h]]
      BY <1>1 DEF TickOnly
    <2>4. x.own > 0 /\ x.pc # "resume" => ~ port.xInterruptsEnabled
      <3>1. x.pc # "resume" => ~ Giving(x)
        BY <1>3 DEF Giving
      <3> QED BY <1>1, <1>3, <1>5, <3>1 DEF PortIInv, Disabled
    <2>5. HandlesOn(t, h, x.from, x.to)
      BY <1>1, <1>3, <2>2, <2>3, <2>4 DEF HandlesOn, TickOnly
    <2> QED BY <1>1, <1>2, <1>5, <2>5, HandlesOnKeeps
  <1>6. CASE Leaving(x)
    <2>1. x.pc \in Resting \cup Turning
      BY <1>1, <1>6, LeavingFacts
    <2>2. x.signals \in {{}, {"SUSPEND"}}
      <3>1. x.signals \subseteq {"SUSPEND", "RESUME"}
        BY <1>2 DEF ThreadRecord
      <3>2. CASE "SUSPEND" \in x.signals
        BY <1>3, <3>1, <3>2
      <3>3. CASE "SUSPEND" \notin x.signals
        BY <1>3, <3>1, <3>3
      <3> QED BY <3>2, <3>3
    <2>10. PICK y : y = [x EXCEPT !.pc = x.pc, !.handler = h, !.signals = x.signals, !.from = x.from]
      OBVIOUS
    <2>3. thread' = [thread EXCEPT ![t] = y]
      <3>1. [x EXCEPT !.handler = h] = y
        BY <1>2, <2>10 DEF ThreadRecord
      <3> QED BY <1>1, <3>1 DEF TickOnly
    <2>4. x.pc \in Turning => x.signals = {} /\ x.from = t
      BY <1>2 DEF Coherent
    <2>5. x.signals # {} => h = "none" /\ x.pc \in Resting
      <3>1. x.signals # {} => "SUSPEND" \in x.signals
        BY <2>2
      <3>2. x.signals # {} => x.pc \in Resting /\ x.handler \in {"none", "tick done"}
        BY <1>2, <3>1 DEF Coherent
      <3> QED BY <1>1, <3>1, <3>2
    <2>6. x.pc \in {"kill", "suspend"} \/ x.signals = {"SUSPEND"}
      BY <1>3, <1>6, <2>2 DEF Leaving
    <2>8. h = "tick" => x.pc \in Turning /\ x.pc \notin Resting
      BY <1>1, <1>6, <2>1, <2>2, <2>6 DEF Resting, Turning
    <2>7. LeavesTo(t, x.pc, h, x.signals, x.from)
      <3>1. h # "sigwait" /\ h # "unlock" /\ x.handler # "unlock"
        BY <1>3
      <3>2. /\ x.pc \in Turning => h \in {"none", "tick"} /\ x.signals = {} /\ x.from = t
            /\ x.pc \in Resting => h \in {"none", "unlock", "sigwait", "tick done"}
        BY <1>3, <2>4, <2>8
      <3> QED BY <1>1, <2>3, <2>10, <2>5, <2>6, <3>1, <3>2 DEF LeavesTo, TickOnly
    <2>9. h \in HandlerPlaces
      BY DEF HandlerPlaces
    <2>11. Leaving(thread[t]) /\ x.from \in Nat
      BY <1>1, <1>2, <1>6
    <2>12. CASE x.signals = {}
      <3>1. LeavesTo(t, x.pc, h, {}, x.from)
        BY <2>7, <2>12
      <3> QED BY <2>9, <2>11, <3>1, LeavesToKeeps
    <2>13. CASE x.signals = {"SUSPEND"}
      <3>1. LeavesTo(t, x.pc, h, {"SUSPEND"}, x.from)
        BY <2>7, <2>13
      <3> QED BY <2>9, <2>11, <3>1, LeavesToKeeps
    <2> QED BY <2>2, <2>12, <2>13
  <1> QED BY <1>4, <1>5, <1>6

LEMMA TickArrivesKeeps ==
    ASSUME PortIInv, NEW t \in Threads, TickArrives(t), cast' = cast PROVE PortIInv'
  <1>1. /\ thread[t].pc # "none" /\ thread[t].handler = "none" /\ "SUSPEND" \notin thread[t].signals
        /\ UNCHANGED <<pxThreads, kernel>> /\ port \in PortRecord
    BY DEF TickArrives, PortIInv, PortTypes
  <1>2. CASE port.xInterruptsEnabled /\ ~ port.xServicingTick
    <2>1. thread' = [thread EXCEPT ![t].handler = "tick"] /\ port' = port
      BY <1>2 DEF TickArrives, Handler
    <2>2. thread[t].pc \notin Fenced
      BY <1>2, HandlerFacts
    <2>3. thread[t].pc # "start"
      <3>1. ASSUME thread[t].pc = "start" PROVE FALSE
        <4>1. PICK u \in Threads : thread[u].pc = "wait"
          BY <3>1 DEF PortIInv, Made
        <4> QED BY <1>2, <4>1, FencedIsActive DEF Fenced
      <3> QED BY <3>1
    <2>4. TickOnly(t, "tick")
      BY <1>1, <2>1 DEF TickOnly
    <2> QED BY <1>1, <1>2, <2>2, <2>3, <2>4, TickOnlyKeeps
  <1>3. CASE ~ (port.xInterruptsEnabled /\ ~ port.xServicingTick)
    <2>1. port' = [port EXCEPT !.xPendYield = TRUE] /\ thread' = thread
      BY <1>3 DEF TickArrives
    <2>2. /\ port' \in PortRecord
          /\ port'.xSingleThreadMutex = port.xSingleThreadMutex /\ port'.xSentinel = port.xSentinel
          /\ port'.xInterruptsEnabled = port.xInterruptsEnabled
          /\ port'.uxCriticalNesting = port.uxCriticalNesting
          /\ port'.lIndexOfLastAddedTask = port.lIndexOfLastAddedTask
      BY <1>1, <2>1 DEF PortRecord
    <2> QED BY <1>1, <2>1, <2>2, FlagsKeep
  <1> QED BY <1>2, <1>3

LEMMA TickDoneKeeps ==
    ASSUME PortIInv, NEW t \in Threads, TickDone(t), cast' = cast PROVE PortIInv'
  <1>1. thread[t].handler = "tick done" /\ port \in PortRecord
    BY DEF TickDone, PortIInv, PortTypes
  <1>2. thread[t].pc \notin {"none", "start"} \cup Fenced
    BY <1>1, HandlerFacts
  <1>3. /\ port' \in PortRecord
        /\ port'.xSingleThreadMutex = port.xSingleThreadMutex /\ port'.xSentinel = port.xSentinel
        /\ port'.xInterruptsEnabled = port.xInterruptsEnabled
        /\ port'.uxCriticalNesting = port.uxCriticalNesting
        /\ port'.lIndexOfLastAddedTask = port.lIndexOfLastAddedTask
    BY <1>1 DEF TickDone, PortRecord
  <1>4. TickOnly(t, "none")
    BY <1>3 DEF TickDone, TickOnly, Handler
  <1> QED BY <1>1, <1>2, <1>4, TickOnlyKeeps

LEMMA TickMissesKeeps ==
    ASSUME PortIInv, NEW t \in Threads, thread[t].handler = "tick", Handler(t, "none"),
           port' = [port EXCEPT !.xPendYield = TRUE], UNCHANGED <<cast, pxThreads, kernel>>
    PROVE  PortIInv'
  <1>1. port \in PortRecord
    BY DEF PortIInv, PortTypes
  <1>2. thread[t].pc \notin {"none", "start"} \cup Fenced
    BY HandlerFacts
  <1>3. /\ port' \in PortRecord
        /\ port'.xSingleThreadMutex = port.xSingleThreadMutex /\ port'.xSentinel = port.xSentinel
        /\ port'.xInterruptsEnabled = port.xInterruptsEnabled
        /\ port'.uxCriticalNesting = port.uxCriticalNesting
        /\ port'.lIndexOfLastAddedTask = port.lIndexOfLastAddedTask
    BY <1>1 DEF PortRecord
  <1>4. TickOnly(t, "none")
    BY <1>3 DEF TickOnly, Handler
  <1> QED BY <1>2, <1>4, TickOnlyKeeps

(* The active thread leaves the handler of the tick that switched to nobody,*)
(* or that of SIG_SUSPEND.                                                  *)
LEMMA TickUnlocksKeeps ==
    ASSUME PortIInv, NEW t \in Threads, TickUnlocks(t), cast' = cast PROVE PortIInv'
  <1>1. PICK x : x = thread[t]
    OBVIOUS
  <1>2. x.handler = "tick unlock"
    BY <1>1 DEF TickUnlocks
  <1>3. /\ x \in ThreadRecord /\ Coherent(t, x) /\ port \in PortRecord
        /\ x.from \in Nat /\ x.to \in Nat /\ x.pc \notin Fenced
        /\ (Active(x) \/ Leaving(x)) /\ "RESUME" \notin x.signals
    BY <1>1, <1>2, HandlerFacts
  <1>4. x.pc \in Resting /\ x.pc \notin Turning /\ x.signals = {}
    BY <1>2, <1>3, ZenonT(60) DEF Coherent, Resting, Turning, ThreadRecord
  <1>5. Active(x)
    BY <1>2, <1>3, <1>4 DEF Leaving, Turning
  <1>6. PICK y : y = [x EXCEPT !.handler = "tick done", !.signals = {}, !.from = x.from, !.to = x.to]
    OBVIOUS
  <1>7. thread' = [thread EXCEPT ![t] = y]
    <2>1. [x EXCEPT !.handler = "tick done"] = y
      BY <1>3, <1>4, <1>6 DEF ThreadRecord
    <2> QED BY <1>1, <2>1 DEF TickUnlocks, Handler
  <1>8. x.own > 0 => ~ port.xInterruptsEnabled
    <2>1. ~ Giving(x)
      BY <1>2, <1>4 DEF Giving, Turning
    <2> QED BY <1>1, <1>2, <1>5, <2>1 DEF PortIInv, Disabled
  <1>9. /\ port' \in PortRecord /\ port'.xSingleThreadMutex = None
        /\ port'.xSentinel = port.xSentinel
        /\ port'.xInterruptsEnabled = port.xInterruptsEnabled
        /\ port'.uxCriticalNesting = port.uxCriticalNesting
        /\ port'.lIndexOfLastAddedTask = port.lIndexOfLastAddedTask
    BY <1>3 DEF TickUnlocks, PortRecord
  <1>10. UNCHANGED <<cast, pxThreads, kernel>>
    BY DEF TickUnlocks
  <1>11. HandlesOn(t, "tick done", x.from, x.to)
    BY <1>1, <1>2, <1>3, <1>4, <1>6, <1>7, <1>8, <1>9, <1>10 DEF HandlesOn, Turning
  <1> QED BY <1>1, <1>3, <1>5, <1>11, HandlesOnKeeps

LEMMA SigWaitKeeps ==
    ASSUME PortIInv, NEW t \in Threads, SigWait(t), cast' = cast PROVE PortIInv'
  <1>1. PICK x, h : x = thread[t] /\ h = (IF port.uxCriticalNesting = 0 THEN "enable" ELSE "disable")
    OBVIOUS
  <1>2. x.handler = "sigwait" /\ "RESUME" \in x.signals
    BY <1>1 DEF SigWait
  <1>3. /\ x \in ThreadRecord /\ Coherent(t, x) /\ port \in PortRecord
        /\ x.from \in Nat /\ x.to \in Nat /\ x.own \in Nat
    BY <1>1, HandlerFacts DEF ThreadRecord
  <1>4. x.pc \in Resting /\ x.pc \notin Turning \cup Fenced \cup {"none", "start"} /\ "SUSPEND" \notin x.signals
    BY <1>2, <1>3 DEF Coherent, Resting, Turning, Fenced
  <1>5. Active(x) /\ ~ Giving(x)
    BY <1>2, <1>3, <1>4 DEF Active, Parked, Leaving, Giving, Turning
  <1>6. PICK y : y = [x EXCEPT !.handler = h, !.signals = {}, !.from = x.from, !.to = x.to]
    OBVIOUS
  <1>7. thread' = [thread EXCEPT ![t] = y]
    <2>1. x.signals \ {"RESUME"} = {}
      <3>1. x.signals \subseteq {"SUSPEND", "RESUME"}
        BY <1>3 DEF ThreadRecord
      <3>2. ASSUME NEW s \in x.signals \ {"RESUME"} PROVE FALSE
        BY <1>4, <3>1, <3>2
      <3> QED BY <3>2
    <2>2. [x EXCEPT !.handler = h, !.signals = {}] = y
      BY <1>3, <1>6 DEF ThreadRecord
    <2> QED BY <1>1, <2>1, <2>2 DEF SigWait
  <1>8. x.own > 0 => h = "disable"
    <2>1. port.uxCriticalNesting = Nesting(x)
      BY <1>1, <1>5 DEF PortIInv, InTurn
    <2>2. port.uxCriticalNesting = x.own
      BY <1>3, <1>4, <2>1 DEF Nesting, Fenced
    <2> QED BY <1>1, <1>3, <2>2
  <1>9. UNCHANGED <<cast, port, pxThreads, kernel>>
    BY DEF SigWait
  <1>10. h \in {"enable", "disable"}
    BY <1>1
  <1>11. HandlesOn(t, h, x.from, x.to)
    BY <1>1, <1>2, <1>3, <1>4, <1>6, <1>7, <1>8, <1>9, <1>10 DEF HandlesOn, Turning
  <1> QED BY <1>1, <1>3, <1>5, <1>11, HandlesOnKeeps

LEMMA RestoreKeeps ==
    ASSUME PortIInv, NEW t \in Threads, Restore(t), cast' = cast PROVE PortIInv'
  <1>1. PICK x : x = thread[t]
    OBVIOUS
  <1>2. x.handler \in {"enable", "disable"}
    BY <1>1 DEF Restore
  <1>3. /\ x \in ThreadRecord /\ Coherent(t, x) /\ port \in PortRecord /\ "RESUME" \notin x.signals
        /\ x.from \in Nat /\ x.to \in Nat
        /\ Active(x) \/ Leaving(x)
    BY <1>1, <1>2, HandlerFacts
  <1>4. x.pc \in Resting /\ x.pc \notin Turning \cup Fenced \cup {"none", "start"} /\ x.signals = {}
    BY <1>2, <1>3, ZenonT(60) DEF Coherent, Resting, Turning, Fenced, ThreadRecord
  <1>5. Active(x) /\ ~ Giving(x)
    BY <1>2, <1>3, <1>4 DEF Active, Parked, Leaving, Giving, Turning
  <1>6. PICK y : y = [x EXCEPT !.handler = "none", !.signals = {}, !.from = x.from, !.to = x.to]
    OBVIOUS
  <1>7. thread' = [thread EXCEPT ![t] = y]
    <2>1. [x EXCEPT !.handler = "none"] = y
      BY <1>3, <1>4, <1>6 DEF ThreadRecord
    <2> QED BY <1>1, <2>1 DEF Restore, Handler
  <1>8. x.own > 0 => x.handler # "enable"
    BY <1>1, <1>2, <1>5 DEF PortIInv, Disabled
  <1>9. /\ port' \in PortRecord /\ port'.xSingleThreadMutex = port.xSingleThreadMutex
        /\ port'.xSentinel = port.xSentinel
        /\ port'.xInterruptsEnabled = (x.handler = "enable")
        /\ port'.uxCriticalNesting = port.uxCriticalNesting
        /\ port'.lIndexOfLastAddedTask = port.lIndexOfLastAddedTask
    BY <1>1, <1>3 DEF Restore, PortRecord
  <1>10. UNCHANGED <<cast, pxThreads, kernel>>
    BY DEF Restore
  <1>12. x.own > 0 => ~ port'.xInterruptsEnabled
    BY <1>8, <1>9
  <1>11. HandlesOn(t, "none", x.from, x.to)
    BY <1>1, <1>2, <1>3, <1>4, <1>6, <1>7, <1>9, <1>10, <1>12 DEF HandlesOn, Turning
  <1> QED BY <1>1, <1>3, <1>5, <1>11, HandlesOnKeeps

(* Whom a switch takes the processor from, and whom it gives it to.         *)
LEMMA SwitchFacts ==
    ASSUME PortIInv, NEW r \in Threads, Active(thread[r]), ~ Giving(thread[r]),
           NEW h \in readied, Switched(h), port.xSingleThreadMutex = None
    PROVE  /\ prvGetThreadHandle(current) = r /\ prvGetThreadHandle(h) \in Threads
           /\ current' = h /\ UNCHANGED <<readied, handles, deleted>>
           /\ h = current => prvGetThreadHandle(h) = r /\ pxThreads' = pxThreads
           /\ h # current =>
                 /\ prvGetThreadHandle(h) # r /\ Parked(thread[prvGetThreadHandle(h)])
                 /\ pxThreads[prvGetThreadHandle(h)].hTask = h
                 /\ pxThreads' = [pxThreads EXCEPT ![r].uxCriticalNesting = port.uxCriticalNesting]
                 /\ NestingAfter(h) = pxThreads[prvGetThreadHandle(h)].uxCriticalNesting
  <1>1. pxThreads[r].hTask = current
    BY DEF PortIInv, InTurn
  <1>2. current \in readied /\ \A g \in readied : g # None
    BY DEF PortIInv, Mapped
  <1>3. \A i, j \in Threads : pxThreads[i].hTask = pxThreads[j].hTask /\ pxThreads[i].hTask # None => i = j
    BY DEF PortIInv, Mapped
  <1>4. prvGetThreadHandle(current) = r
    BY <1>1, <1>2, <1>3, ThreadOfHandle
  <1>5. PICK u \in Threads : pxThreads[u].hTask = h
    BY DEF PortIInv, Mapped
  <1>6. prvGetThreadHandle(h) = u
    BY <1>2, <1>3, <1>5, ThreadOfHandle
  <1>7. h = current <=> u = r
    BY <1>1, <1>2, <1>3, <1>5
  <1>8. current' = h /\ UNCHANGED <<readied, handles, deleted>>
        /\ pxThreads' = IF u = r THEN pxThreads
                        ELSE [pxThreads EXCEPT ![r].uxCriticalNesting = port.uxCriticalNesting]
    BY <1>4, <1>6 DEF Switched
  <1>9. ASSUME h # current PROVE Parked(thread[u])
    <2>1. ~ Active(thread[u])
      BY <1>7, <1>9 DEF PortIInv, OneActive
    <2>2. thread[u].pc \notin {"none", "start"}
      BY <1>2, <1>5 DEF PortIInv, Mapped
    <2> QED BY <2>1, <2>2, FreeMutex
  <1>10. h # current => NestingAfter(h) = pxThreads[u].uxCriticalNesting
    BY <1>6 DEF NestingAfter
  <1> QED BY <1>4, <1>5, <1>6, <1>7, <1>8, <1>9, <1>10

Gives(x, t, u) ==
    [x EXCEPT !.pc = IF x.handler = "tick" THEN x.pc ELSE "resume",
              !.handler = IF x.handler = "tick" THEN "tick resume" ELSE "none",
              !.from = t, !.to = u]

(* The active thread t gives the processor to that of task h.               *)
LEMMA SwitchKeeps ==
    ASSUME PortIInv, NEW t \in Threads, NEW x \in ThreadRecord, x = thread[t],
           Active(x), ~ Giving(x), x.pc \notin Fenced, port.xSingleThreadMutex = None,
           NEW h \in readied, h # current, Switched(h),
           NEW y, y = Gives(x, t, prvGetThreadHandle(h)),
           x.handler = "tick" \/ (x.handler = "none" /\ x.pc = "yield"),
           thread' = [thread EXCEPT ![t] = y], port' \in PortRecord,
           port'.xSingleThreadMutex = t, port'.uxCriticalNesting = NestingAfter(h),
           port'.xSentinel = port.xSentinel,
           port'.xInterruptsEnabled = port.xInterruptsEnabled,
           port'.lIndexOfLastAddedTask = port.lIndexOfLastAddedTask, cast' = cast
    PROVE  PortIInv'
  <1>1. PICK u : u = prvGetThreadHandle(h)
    OBVIOUS
  <1>2. /\ u \in Threads /\ current' = h /\ UNCHANGED <<readied, handles, deleted>>
        /\ u # t /\ Parked(thread[u]) /\ pxThreads[u].hTask = h
        /\ pxThreads' = [pxThreads EXCEPT ![t].uxCriticalNesting = port.uxCriticalNesting]
        /\ port'.uxCriticalNesting = pxThreads[u].uxCriticalNesting
    BY <1>1, SwitchFacts
  <1>3. t \in Nat /\ u \in Nat /\ t # None /\ h \in Nat
    BY <1>2, PortAssumption DEF Threads, None, PortIInv, PortTypes
  <1>4. /\ pxThreads \in [Threads -> [hTask : Nat, uxCriticalNesting : Nat]]
        /\ port \in PortRecord /\ Coherent(t, x) /\ ~ x.cancelled
        /\ port.uxCriticalNesting = Nesting(x)
        /\ pxThreads[t].hTask = current
    BY DEF PortIInv, PortTypes, AllCoherent, Cancelled, Active, InTurn
  <1>5. /\ pxThreads' \in [Threads -> [hTask : Nat, uxCriticalNesting : Nat]]
        /\ pxThreads'[t].uxCriticalNesting = Nesting(x)
        /\ \A i \in Threads : pxThreads'[i].hTask = pxThreads[i].hTask
        /\ \A i \in Threads : i # t => pxThreads'[i] = pxThreads[i]
    <2>1. port.uxCriticalNesting \in Nat
      BY <1>4 DEF PortRecord
    <2> QED BY <1>2, <1>4, <2>1
  <1>6. x.signals = {} /\ x.pc \in Resting /\ x.own \in Nat
    <2>1. x.pc \notin {"none", "start", "resume", "suspend", "kill"} /\ "SUSPEND" \notin x.signals
      BY DEF Active, Leaving, Giving
    <2>2. x.pc \in Resting
      BY <2>1 DEF ThreadRecord, Places, Turning
    <2>3. "RESUME" \notin x.signals
      BY <1>4 DEF Coherent
    <2> QED BY <2>1, <2>2, <2>3 DEF ThreadRecord
  <1>7. /\ y.pc = IF x.handler = "tick" THEN x.pc ELSE "resume"
        /\ y.handler = IF x.handler = "tick" THEN "tick resume" ELSE "none"
        /\ y.signals = {} /\ y.from = t /\ y.to = u /\ y.own = x.own /\ y.making = x.making
        /\ y.code = x.code /\ y.cancelled = x.cancelled /\ y.ret = x.ret /\ y \in ThreadRecord
    BY <1>1, <1>3, <1>6, ZenonT(60) DEF Gives, ThreadRecord, Places, HandlerPlaces, Turning
  <1>8. /\ y.pc \in Resting \cup {"resume"} /\ y.pc \notin Fenced
        /\ y.pc \notin {"none", "start", "create", "wait", "suspend", "kill"}
        /\ x.pc \notin {"create", "wait"}
    BY <1>6, <1>7 DEF Resting, Fenced
  <1>9. Coherent(t, y)
    <2>1. CASE x.handler = "tick"
      BY <1>4, <1>6, <1>7, <1>8, <2>1, ZenonT(60) DEF Coherent, Turning, Resting
    <2>2. CASE x.handler = "none" /\ x.pc = "yield"
      <3>1. "yield" \notin Making /\ "resume" \notin Making /\ "resume" \notin Resting
        BY DEF Making, Resting
      <3> QED BY <1>4, <1>6, <1>7, <1>8, <2>2, <3>1 DEF Coherent, Turning
    <2> QED BY <2>1, <2>2
  <1>10. Active(y) /\ Giving(y) /\ Holds(y) /\ Nesting(y) = Nesting(x)
    <2>1. Giving(y) /\ y.handler \in {"none", "tick resume"}
      BY <1>7 DEF Giving
    <2>2. ~ Parked(y) /\ ~ Leaving(y)
      BY <1>7, <1>8, <2>1 DEF Parked, Leaving
    <2>3. Nesting(y) = Nesting(x)
      BY <1>7, <1>8 DEF Nesting
    <2> QED BY <1>8, <2>1, <2>2, <2>3 DEF Active, Holds
  <1>11. /\ thread \in [Threads -> ThreadRecord] /\ thread' \in [Threads -> ThreadRecord]
         /\ thread'[t] = y /\ \A v \in Threads : v # t => thread'[v] = thread[v]
    BY <1>7 DEF PortIInv, PortTypes
  <1>12. \A v \in Threads : v # t => ~ Active(thread[v]) /\ ~ Active(thread'[v])
    BY <1>11 DEF PortIInv, OneActive
  <1>13. \A v \in Threads : v # t => thread[v].pc \notin Fenced
    BY <1>12, FencedIsActive
  <1>14. PortTypes'
    BY <1>2, <1>3, <1>5, <1>11 DEF PortIInv, PortTypes
  <1>15. AllCoherent'
    <2>1. \A v \in Threads : Coherent(v, thread[v])' <=> Coherent(v, thread'[v])
      BY DEF Coherent
    <2> QED BY <1>9, <1>11, <2>1 DEF PortIInv, AllCoherent
  <1>16. OneActive'
    <2>1. Active(thread'[t])
      BY <1>10, <1>11
    <2> QED BY <1>12, <2>1 DEF OneActive
  <1>17. MutexHeld'
    <2>1. ASSUME NEW v \in Threads, v # t PROVE ~ Holds(thread'[v])
      BY <1>11, <2>1, FreeMutex
    <2> QED BY <1>10, <1>11, <2>1 DEF MutexHeld
  <1>18. Mapped'
    <2>1. current' \in readied' /\ None \notin readied'
      BY <1>2 DEF PortIInv, Mapped
    <2>2. \A g \in readied' : \E i \in Threads : pxThreads'[i].hTask = g
      BY <1>2, <1>5 DEF PortIInv, Mapped
    <2>3. ASSUME NEW i \in Threads, pxThreads'[i].hTask # None
          PROVE  /\ thread'[i].pc \notin {"none", "start"} /\ thread'[i].code = pxThreads'[i].hTask
                 /\ pxThreads'[i].hTask <= handles'
      <3>1. /\ thread[i].code = pxThreads[i].hTask /\ pxThreads[i].hTask <= handles
            /\ thread[i].pc \notin {"none", "start"}
        BY <1>5, <2>3 DEF PortIInv, Mapped
      <3>2. thread'[i].code = thread[i].code /\ thread'[i].pc \notin {"none", "start"}
        <4>1. CASE i = t
          BY <1>7, <1>8, <1>11, <4>1
        <4>2. CASE i # t
          BY <1>11, <3>1, <4>2
        <4> QED BY <4>1, <4>2
      <3> QED BY <1>2, <1>5, <3>1, <3>2
    <2>4. \A i, j \in Threads : pxThreads'[i].hTask = pxThreads'[j].hTask /\ pxThreads'[i].hTask # None => i = j
      BY <1>5 DEF PortIInv, Mapped
    <2> QED BY <2>1, <2>2, <2>3, <2>4 DEF Mapped
  <1>19. InTurn'
    <2>1. ASSUME NEW v \in Threads, Active(thread'[v])
          PROVE  /\ Giving(thread'[v])
                 /\ pxThreads'[v].uxCriticalNesting = Nesting(thread'[v])
                 /\ thread'[v].to = u /\ Parked(thread'[u]) /\ pxThreads'[u].hTask = current'
                 /\ port'.uxCriticalNesting = pxThreads'[u].uxCriticalNesting
      <3>1. v = t
        BY <1>12, <2>1
      <3>2. thread'[v] = y /\ thread'[u] = thread[u]
        BY <1>2, <1>11, <3>1
      <3>3. pxThreads'[u] = pxThreads[u] /\ pxThreads'[v].uxCriticalNesting = Nesting(y)
        BY <1>2, <1>5, <1>10, <3>1
      <3> QED BY <1>2, <1>7, <1>10, <3>2, <3>3
    <2> QED BY <1>2, <2>1 DEF InTurn
  <1>20. Saved'
    <2>1. ASSUME NEW v \in Threads, ~ Active(thread'[v])
          PROVE  pxThreads'[v].uxCriticalNesting = Nesting(thread'[v])
      <3>1. v # t
        BY <1>10, <1>11, <2>1
      <3> QED BY <1>5, <1>11, <1>12, <3>1 DEF PortIInv, Saved
    <2> QED BY <2>1 DEF Saved
  <1>21. Disabled'
    <2>1. ASSUME NEW v \in Threads
          PROVE  thread'[v].pc \notin Fenced /\ (Active(thread'[v]) => Giving(thread'[v]))
      BY <1>8, <1>10, <1>11, <1>12, <1>13
    <2> QED BY <2>1 DEF Disabled
  <1>22. Made'
    <2>1. PICK s : s = port.lIndexOfLastAddedTask
      OBVIOUS
    <2>2. port'.lIndexOfLastAddedTask = s /\ s \in Threads
      BY <2>1 DEF PortRecord
    <2>3. \A v \in Threads : thread[v].pc \notin {"create", "wait"} /\ thread'[v].pc \notin {"create", "wait"}
      <3>1. "create" \in Fenced /\ "wait" \in Fenced
        BY DEF Fenced
      <3> QED BY <1>8, <1>11, <1>13, <3>1
    <2>4. ASSUME NEW v \in Threads, thread'[v].making # None
          PROVE  /\ thread'[v].making <= handles'
                 /\ \A i \in Threads : pxThreads'[i].hTask # thread'[v].making
                 /\ pxThreads'[s].hTask = None /\ thread'[s].code = thread'[v].making
                 /\ thread'[s].pc \in {"start", "suspend", "kill", "spin"} /\ ~ Active(thread'[s])
                 /\ Settled(thread'[s])
      <3>1. thread[v].making = thread'[v].making
        BY <1>7, <1>11
      <3>2. /\ thread[v].making <= handles /\ \A i \in Threads : pxThreads[i].hTask # thread[v].making
            /\ pxThreads[s].hTask = None /\ thread[s].code = thread[v].making
            /\ thread[s].pc \in {"start", "suspend", "kill", "spin"} /\ ~ Active(thread[s])
            /\ Settled(thread[s])
        BY <2>1, <2>3, <2>4, <3>1 DEF PortIInv, Made
      <3>3. s # t
        BY <3>2
      <3> QED BY <1>2, <1>5, <1>11, <1>12, <2>2, <3>1, <3>2, <3>3
    <2>5. ASSUME NEW v \in Threads PROVE thread'[v].pc # "start"
      <3>1. thread[v].pc # "start"
        BY <2>3 DEF PortIInv, Made
      <3> QED BY <1>8, <1>11, <3>1
    <2> QED BY <2>2, <2>3, <2>4, <2>5 DEF Made
  <1>23. Cancelled'
    BY <1>2, <1>4, <1>5, <1>7, <1>11, ZenonT(60) DEF PortIInv, Cancelled
  <1> QED BY <1>14, <1>15, <1>16, <1>17, <1>18, <1>19, <1>20, <1>21, <1>22, <1>23 DEF PortIInv

LEMMA YieldKeeps ==
    ASSUME PortIInv, NEW t \in Threads, vPortYield(t), cast' = cast PROVE PortIInv'
  <1>1. PICK h \in readied :
           /\ At(t, "yield") /\ Free(port.xSingleThreadMutex)
           /\ Switched(h)
           /\ IF h = current
              THEN Goes(t, thread[t].ret) /\ UNCHANGED port
              ELSE /\ thread' = [thread EXCEPT ![t].pc = "resume",
                                 ![t].from = prvGetThreadHandle(current), ![t].to = prvGetThreadHandle(h)]
                   /\ port' = [port EXCEPT !.xSingleThreadMutex = t, !.uxCriticalNesting = NestingAfter(h)]
    BY DEF vPortYield
  <1>2. PICK x : x = thread[t]
    OBVIOUS
  <1>3. "yield" \in Fenced \cup Resting /\ "yield" \notin Fenced
    BY DEF Resting, Fenced
  <1>4. /\ x \in ThreadRecord /\ x.pc = "yield" /\ x.handler = "none"
        /\ Active(x) /\ ~ Giving(x) /\ port \in PortRecord
    BY <1>1, <1>2, <1>3, CodeFacts
  <1>5. port.xSingleThreadMutex = None
    BY <1>1 DEF Free
  <1>6. CASE h = current
    <2>1. pxThreads' = pxThreads /\ current' = current /\ UNCHANGED <<readied, handles, deleted>>
      BY <1>1, <1>2, <1>4, <1>5, <1>6, SwitchFacts
    <2>2. Goes(t, thread[t].ret) /\ port' = port /\ At(t, "yield")
      BY <1>1, <1>6
    <2>3. UNCHANGED <<cast, port, pxThreads, kernel>>
      BY <2>1, <2>2 DEF kernel
    <2> QED BY <2>2, <2>3, ReturnsKeep
  <1>7. CASE h # current
    <2>1. PICK y : y = Gives(x, t, prvGetThreadHandle(h))
      OBVIOUS
    <2>2. /\ prvGetThreadHandle(current) = t /\ prvGetThreadHandle(h) \in Threads
          /\ NestingAfter(h) = pxThreads[prvGetThreadHandle(h)].uxCriticalNesting
      BY <1>1, <1>2, <1>4, <1>5, <1>7, SwitchFacts
    <2>3. y = [x EXCEPT !.pc = "resume", !.from = t, !.to = prvGetThreadHandle(h)]
      <3>1. y = [x EXCEPT !.pc = "resume", !.handler = "none", !.from = t, !.to = prvGetThreadHandle(h)]
        BY <1>4, <2>1 DEF Gives
      <3>2. x = [x EXCEPT !.handler = "none"]
        BY <1>4 DEF ThreadRecord
      <3> QED BY <1>4, <3>1, <3>2 DEF ThreadRecord
    <2>4. thread' = [thread EXCEPT ![t] = y]
      BY <1>1, <1>2, <1>7, <2>2, <2>3
    <2>5. /\ port' \in PortRecord
          /\ port'.xSingleThreadMutex = t /\ port'.uxCriticalNesting = NestingAfter(h)
          /\ port'.xSentinel = port.xSentinel
          /\ port'.xInterruptsEnabled = port.xInterruptsEnabled
          /\ port'.lIndexOfLastAddedTask = port.lIndexOfLastAddedTask
      <3>1. NestingAfter(h) \in Nat
        BY <2>2 DEF PortIInv, PortTypes
      <3>2. port' = [port EXCEPT !.xSingleThreadMutex = t, !.uxCriticalNesting = NestingAfter(h)]
        BY <1>1, <1>7
      <3> QED BY <1>4, <3>1, <3>2 DEF PortRecord
    <2>6. x.pc \notin Fenced /\ (x.handler = "tick" \/ (x.handler = "none" /\ x.pc = "yield"))
      BY <1>3, <1>4
    <2>7. Switched(h) /\ h # current
      BY <1>1, <1>7
    <2> QED BY <1>2, <1>4, <1>5, <2>1, <2>4, <2>5, <2>6, <2>7, SwitchKeeps
  <1> QED BY <1>6, <1>7

LEMMA TickLocksKeeps ==
    ASSUME PortIInv, NEW t \in Threads, TickLocks(t), cast' = cast PROVE PortIInv'
  <1>1. thread[t].handler = "tick" /\ port \in PortRecord
    BY DEF TickLocks, PortIInv, PortTypes
  <1>2. CASE ~ Free(port.xSingleThreadMutex)
    BY <1>1, <1>2, TickMissesKeeps DEF TickLocks
  <1>3. CASE Free(port.xSingleThreadMutex)
    <2>1. PICK h \in readied :
             /\ Switched(h)
             /\ port' = [port EXCEPT !.xSingleThreadMutex = t, !.xServicingTick = TRUE,
                                     !.uxCriticalNesting = NestingAfter(h)]
             /\ thread' = [thread EXCEPT
                             ![t].handler = IF h = current THEN "tick unlock" ELSE "tick resume",
                             ![t].from = prvGetThreadHandle(current), ![t].to = prvGetThreadHandle(h)]
      BY <1>3 DEF TickLocks
    <2>2. PICK x : x = thread[t]
      OBVIOUS
    <2>3. port.xSingleThreadMutex = None
      BY <1>3 DEF Free
    <2>4. /\ x \in ThreadRecord /\ Coherent(t, x) /\ x.handler = "tick"
          /\ x.pc \notin {"none", "start"} \cup Fenced /\ "RESUME" \notin x.signals
          /\ Active(x) => "SUSPEND" \notin x.signals
      BY <1>1, <2>2, HandlerFacts
    <2>5. Active(x) /\ ~ Giving(x)
      BY <2>2, <2>3, <2>4, FreeMutex DEF Parked
    <2>6. x.pc \in Resting /\ x.pc # "resume" /\ x.signals = {}
      <3>1. x.pc \notin {"resume", "suspend", "kill"} /\ "SUSPEND" \notin x.signals
        BY <2>5 DEF Active, Leaving, Giving
      <3> QED BY <2>4, <3>1 DEF ThreadRecord, Places, Turning
    <2>7. /\ prvGetThreadHandle(current) = t /\ prvGetThreadHandle(h) \in Threads
          /\ current' = h /\ UNCHANGED <<readied, handles, deleted>>
          /\ h = current => pxThreads' = pxThreads
          /\ h # current => NestingAfter(h) = pxThreads[prvGetThreadHandle(h)].uxCriticalNesting
      BY <2>1, <2>2, <2>3, <2>5, SwitchFacts
    <2>8. t \in Nat /\ prvGetThreadHandle(h) \in Nat
      BY <2>7, PortAssumption DEF Threads
    <2>9. NestingAfter(h) \in Nat
      BY <1>1, <2>7 DEF NestingAfter, PortRecord, PortIInv, PortTypes
    <2>10. /\ port' \in PortRecord
           /\ port'.xSingleThreadMutex = t /\ port'.uxCriticalNesting = NestingAfter(h)
           /\ port'.xSentinel = port.xSentinel
           /\ port'.xInterruptsEnabled = port.xInterruptsEnabled
           /\ port'.lIndexOfLastAddedTask = port.lIndexOfLastAddedTask
      BY <1>1, <2>1, <2>9 DEF PortRecord
    <2>11. CASE h = current
      <3>1. PICK y : y = [x EXCEPT !.handler = "tick unlock", !.signals = {},
                                   !.from = t, !.to = prvGetThreadHandle(h)]
        OBVIOUS
      <3>2. thread' = [thread EXCEPT ![t] = y]
        <4>1. y = [x EXCEPT !.handler = "tick unlock", !.from = t, !.to = prvGetThreadHandle(h)]
          BY <2>4, <2>6, <3>1 DEF ThreadRecord
        <4> QED BY <2>1, <2>2, <2>7, <2>11, <4>1
      <3>3. x.own > 0 => ~ port.xInterruptsEnabled
        BY <2>2, <2>4, <2>5 DEF PortIInv, Disabled
      <3>4. UNCHANGED <<cast, pxThreads, kernel>> /\ NestingAfter(h) = port.uxCriticalNesting
        BY <2>7, <2>11 DEF kernel, NestingAfter
      <3>5. HandlesOn(t, "tick unlock", t, prvGetThreadHandle(h))
        BY <2>2, <2>3, <2>4, <2>6, <2>10, <3>1, <3>2, <3>3, <3>4 DEF HandlesOn
      <3> QED BY <2>2, <2>5, <2>8, <3>5, HandlesOnKeeps
    <2>12. CASE h # current
      <3>1. PICK y : y = Gives(x, t, prvGetThreadHandle(h))
        OBVIOUS
      <3>2. y = [x EXCEPT !.handler = "tick resume", !.from = t, !.to = prvGetThreadHandle(h)]
        <4>1. y = [x EXCEPT !.pc = x.pc, !.handler = "tick resume", !.from = t, !.to = prvGetThreadHandle(h)]
          BY <2>4, <3>1 DEF Gives
        <4>2. x = [x EXCEPT !.pc = x.pc]
          BY <2>4 DEF ThreadRecord
        <4> QED BY <2>4, <4>1, <4>2 DEF ThreadRecord
      <3>3. thread' = [thread EXCEPT ![t] = y]
        BY <2>1, <2>2, <2>7, <2>12, <3>2
      <3>4. x.pc \notin Fenced /\ (x.handler = "tick" \/ (x.handler = "none" /\ x.pc = "yield"))
        BY <2>4
      <3>5. Switched(h) /\ h # current
        BY <2>1, <2>12
      <3>6. x \in ThreadRecord
        BY <2>4
      <3> QED BY <2>2, <2>3, <2>5, <2>10, <3>1, <3>3, <3>4, <3>5, <3>6, SwitchKeeps
    <2> QED BY <2>11, <2>12
  <1> QED BY <1>2, <1>3

(* The thread that gives the processor has resumed the other one.           *)
Gave(x) ==
    [x EXCEPT !.pc = IF x.handler = "tick resume" THEN x.pc ELSE "suspend",
              !.handler = IF x.handler = "tick resume" THEN "tick suspend" ELSE "none",
              !.to = None]

Resumes(t) == thread[t].handler = "tick resume" \/ At(t, "resume")

LEMMA GivingFacts ==
    ASSUME PortIInv, NEW t \in Threads, NEW x, x = thread[t],
           Resumes(t)
    PROVE  /\ x \in ThreadRecord
           /\ Giving(x) /\ Active(x) /\ x.pc \in Resting \cup {"resume"} /\ x.signals = {} /\ x.from = t
           /\ x.handler = "tick resume" \/ (x.handler = "none" /\ x.pc = "resume")
           /\ Coherent(t, x) /\ pxThreads[t].uxCriticalNesting = Nesting(x)
  <1>1. x.handler = "tick resume" \/ (x.handler = "none" /\ x.pc = "resume" /\ "SUSPEND" \notin x.signals)
    BY DEF Resumes, At
  <1>2. /\ Giving(x) /\ Active(x) /\ x.pc \in Resting \cup {"resume"} /\ x.signals = {} /\ x.from = t
        /\ x.handler \in {"none", "tick resume"} /\ Coherent(t, x)
    <2>1. Coherent(t, x)
      BY DEF PortIInv, AllCoherent
    <2>2. CASE x.handler = "tick resume"
      <3>1. x.pc \in Resting /\ x.signals = {} /\ x.from = t
        BY <2>1, <2>2 DEF Coherent
      <3> QED BY <2>1, <2>2, <3>1 DEF Giving, Active, Parked, Leaving, Resting
    <2>3. CASE x.handler = "none" /\ x.pc = "resume"
      <3>1. x.signals = {} /\ x.from = t
        BY <2>1, <2>3 DEF Coherent, Turning
      <3> QED BY <2>1, <2>3, <3>1 DEF Giving, Active, Parked, Leaving
    <2> QED BY <1>1, <2>2, <2>3
  <1>4. pxThreads[t].uxCriticalNesting = Nesting(x)
    BY <1>2 DEF PortIInv, InTurn
  <1>5. x \in ThreadRecord
    BY DEF PortIInv, PortTypes
  <1> QED BY <1>1, <1>2, <1>4, <1>5

LEMMA GivingTo ==
    ASSUME PortIInv, NEW t \in Threads, Resumes(t)
    PROVE  /\ thread[t].to \in Threads /\ thread[t].to # t
           /\ Parked(thread[thread[t].to]) /\ pxThreads[thread[t].to].hTask = current
           /\ port.uxCriticalNesting = pxThreads[thread[t].to].uxCriticalNesting
  <1>1. Giving(thread[t]) /\ Active(thread[t])
    BY GivingFacts
  <1>2. PICK u \in Threads :
           /\ thread[t].to = u /\ Parked(thread[u]) /\ pxThreads[u].hTask = current
           /\ port.uxCriticalNesting = pxThreads[u].uxCriticalNesting
    BY <1>1 DEF PortIInv, InTurn
  <1>3. u # t
    BY <1>1, <1>2 DEF Active
  <1> QED BY <1>2, <1>3

LEMMA ResumeKeeps ==
    ASSUME PortIInv, NEW t \in Threads, NEW x \in ThreadRecord, x = thread[t],
           Resumes(t),
           NEW y, y = Gave(x),
           thread' = [thread EXCEPT ![x.to].signals = @ \cup {"RESUME"}, ![t] = y],
           UNCHANGED <<cast, port, pxThreads, kernel>>
    PROVE  PortIInv'
  <1>2. /\ Giving(x) /\ Active(x) /\ x.pc \in Resting \cup {"resume"} /\ x.signals = {} /\ x.from = t
        /\ x.handler = "tick resume" \/ (x.handler = "none" /\ x.pc = "resume")
        /\ Coherent(t, x) /\ pxThreads[t].uxCriticalNesting = Nesting(x)
    BY GivingFacts
  <1>1. x.handler = "tick resume" \/ (x.handler = "none" /\ x.pc = "resume")
    BY <1>2
  <1>3. PICK u \in Threads :
           /\ x.to = u /\ Parked(thread[u]) /\ pxThreads[u].hTask = current
           /\ port.uxCriticalNesting = pxThreads[u].uxCriticalNesting
           /\ u # t
    BY GivingTo
  <1>4. u # t /\ pxThreads[t].uxCriticalNesting = Nesting(x)
    BY <1>2, <1>3
  <1>5. PICK w, z : w = thread[u] /\ z = [w EXCEPT !.signals = {"RESUME"}]
    OBVIOUS
  <1>6. /\ w \in ThreadRecord /\ Coherent(u, w) /\ w.handler = "sigwait" /\ "RESUME" \notin w.signals
        /\ ~ Active(w) /\ thread \in [Threads -> ThreadRecord]
    BY <1>3, <1>5 DEF PortIInv, PortTypes, AllCoherent, Parked, Active
  <1>7. /\ w.signals = {} /\ w.pc \in Resting
        /\ w.pc \notin Fenced \cup Turning \cup {"none", "start"}
    <2>1. "SUSPEND" \notin w.signals /\ w.pc \in Resting
      BY <1>6 DEF Coherent
    <2>2. w.signals = {}
      BY <1>6, <2>1 DEF ThreadRecord
    <2> QED BY <2>1, <2>2 DEF Resting, Fenced, Turning
  <1>8. /\ z \in ThreadRecord /\ z.signals = {"RESUME"} /\ z.handler = "sigwait" /\ z.pc = w.pc
        /\ z.from = w.from /\ z.to = w.to /\ z.own = w.own /\ z.making = w.making
        /\ z.code = w.code /\ z.cancelled = w.cancelled /\ z.ret = w.ret
    BY <1>5, <1>6 DEF ThreadRecord
  <1>9. Coherent(u, z)
    BY <1>6, <1>7, <1>8 DEF Coherent
  <1>10. Active(z) /\ ~ Giving(z) /\ ~ Holds(z) /\ Nesting(z) = Nesting(w)
    BY <1>7, <1>8 DEF Active, Giving, Holds, Parked, Leaving, Nesting, Turning
  <1>11. /\ y.pc = IF x.handler = "tick resume" THEN x.pc ELSE "suspend"
         /\ y.handler = IF x.handler = "tick resume" THEN "tick suspend" ELSE "none"
         /\ y.signals = {} /\ y.from = t /\ y.own = x.own /\ y.making = x.making
         /\ y.code = x.code /\ y.cancelled = x.cancelled /\ y.ret = x.ret /\ y \in ThreadRecord
    BY <1>2 DEF Gave, ThreadRecord, Places, HandlerPlaces, Turning, None
  <1>12. /\ y.pc \in Resting \cup {"suspend"} /\ y.pc \notin Fenced
         /\ y.pc \notin {"none", "start", "create", "wait"} /\ x.pc \notin Fenced
         /\ x.pc \notin {"none", "start", "create", "wait"}
    <2>1. x.pc \notin Fenced \cup {"none", "start", "create", "wait"}
      BY <1>2 DEF Resting, Fenced
    <2>2. CASE x.handler = "tick resume"
      <3>1. x.pc \in Resting
        BY <1>2, <2>2 DEF Coherent
      <3> QED BY <1>11, <2>1, <2>2, <3>1
    <2>3. CASE x.handler # "tick resume"
      BY <1>11, <2>1, <2>3 DEF Fenced
    <2> QED BY <2>2, <2>3
  <1>13. Coherent(t, y)
    <2>1. CASE x.handler = "tick resume"
      BY <1>2, <1>11, <1>12, <2>1 DEF Coherent, Turning, Resting
    <2>2. CASE x.handler = "none" /\ x.pc = "resume"
      <3>1. "suspend" \notin Making /\ "resume" \notin Making /\ "suspend" \notin Resting
        BY DEF Making, Resting
      <3> QED BY <1>2, <1>11, <1>12, <2>2, <3>1 DEF Coherent, Turning
    <2> QED BY <1>1, <2>1, <2>2
  <1>14. Leaving(y) /\ ~ Active(y) /\ Holds(y) /\ Nesting(y) = Nesting(x)
    <2>1. Leaving(y)
      BY <1>11 DEF Leaving
    <2> QED BY <1>11, <1>12, <2>1 DEF Active, Holds, Nesting
  <1>15. thread' = [thread EXCEPT ![u] = z, ![t] = y]
    <2>1. w.signals \cup {"RESUME"} = {"RESUME"}
      BY <1>7
    <2> QED BY <1>3, <1>4, <1>5, <1>6, <2>1
  <1>16. /\ thread' \in [Threads -> ThreadRecord]
         /\ thread'[t] = y /\ thread'[u] = z
         /\ \A v \in Threads : v \notin {t, u} => thread'[v] = thread[v]
    <2>1. y \in ThreadRecord /\ z \in ThreadRecord
      BY <1>8, <1>11
    <2>2. thread' \in [Threads -> ThreadRecord]
      BY <1>6, <1>15, <2>1
    <2> QED BY <1>4, <1>6, <1>15, <2>2
  <1>17. \A v \in Threads : v # t => ~ Active(thread[v])
    BY <1>2 DEF PortIInv, OneActive
  <1>18. \A v \in Threads : v # t => thread[v].pc \notin Fenced
    BY <1>17, FencedIsActive
  <1>19. \A v \in Threads : Active(thread'[v]) <=> v = u
    BY <1>10, <1>14, <1>16, <1>17
  <1>20. UNCHANGED <<cast, port, pxThreads, current, readied, handles, deleted>>
    BY DEF kernel
  <1>21. /\ current # None /\ current \in readied
         /\ ~ w.cancelled /\ ~ x.cancelled
    BY <1>2, <1>3, <1>5 DEF PortIInv, Mapped, Cancelled, Active
  <1>22. PortTypes'
    BY <1>16, <1>20 DEF PortIInv, PortTypes
  <1>23. AllCoherent'
    <2>1. \A v \in Threads : Coherent(v, thread[v])' <=> Coherent(v, thread'[v])
      BY DEF Coherent
    <2> QED BY <1>9, <1>13, <1>16, <2>1 DEF PortIInv, AllCoherent
  <1>24. OneActive'
    BY <1>19 DEF OneActive
  <1>25. MutexHeld'
    <2>1. ASSUME NEW v \in Threads PROVE Holds(thread'[v]) <=> Holds(thread[v])
      <3>1. Holds(x) /\ ~ Holds(w)
        BY <1>2, <1>6, <1>7 DEF Holds, Leaving, Giving, Turning, Coherent
      <3> QED BY <1>5, <1>10, <1>14, <1>16, <3>1
    <2> QED BY <1>20, <2>1 DEF PortIInv, MutexHeld
  <1>26. \A v \in Threads : thread'[v].code = thread[v].code /\ thread'[v].making = thread[v].making
                            /\ Nesting(thread'[v]) = Nesting(thread[v])
                            /\ thread'[v].own = thread[v].own /\ thread'[v].cancelled = thread[v].cancelled
    BY <1>5, <1>8, <1>10, <1>11, <1>14, <1>16
  <1>27. Mapped'
    <2>1. ASSUME NEW v \in Threads, thread[v].pc \notin {"none", "start"}
          PROVE  thread'[v].pc \notin {"none", "start"}
      <3>1. CASE v = t
        BY <1>12, <1>16, <3>1
      <3>2. CASE v = u
        BY <1>5, <1>8, <1>16, <2>1, <3>2
      <3>3. CASE v \notin {t, u}
        BY <1>16, <2>1, <3>3
      <3> QED BY <3>1, <3>2, <3>3
    <2>2. ASSUME NEW i \in Threads, pxThreads[i].hTask # None
          PROVE  /\ thread'[i].pc \notin {"none", "start"} /\ thread'[i].code = pxThreads[i].hTask
                 /\ pxThreads[i].hTask <= handles
      <3>1. /\ thread[i].pc \notin {"none", "start"} /\ thread[i].code = pxThreads[i].hTask
            /\ pxThreads[i].hTask <= handles
        BY <2>2 DEF PortIInv, Mapped
      <3> QED BY <1>26, <2>1, <3>1
    <2>3. /\ current \in readied /\ None \notin readied
          /\ \A h \in readied : \E i \in Threads : pxThreads[i].hTask = h
          /\ \A i, j \in Threads :
                pxThreads[i].hTask = pxThreads[j].hTask /\ pxThreads[i].hTask # None => i = j
      BY DEF PortIInv, Mapped
    <2>4. current' = current /\ readied' = readied /\ pxThreads' = pxThreads /\ handles' = handles
      BY <1>20
    <2>5. /\ current' \in readied' /\ None \notin readied'
          /\ \A h \in readied' : \E i \in Threads : pxThreads'[i].hTask = h
          /\ \A i, j \in Threads :
                pxThreads'[i].hTask = pxThreads'[j].hTask /\ pxThreads'[i].hTask # None => i = j
      BY <2>3, <2>4
    <2>6. \A i \in Threads : pxThreads'[i].hTask # None =>
             /\ thread'[i].pc \notin {"none", "start"} /\ thread'[i].code = pxThreads'[i].hTask
             /\ pxThreads'[i].hTask <= handles'
      BY <2>2, <2>4
    <2> QED BY <2>5, <2>6 DEF Mapped
  <1>28. InTurn'
    <2>1. pxThreads[u].uxCriticalNesting = Nesting(w)
      BY <1>5, <1>6 DEF PortIInv, Saved
    <2> QED BY <1>3, <1>10, <1>16, <1>19, <1>20, <2>1 DEF InTurn
  <1>29. Saved'
    <2>1. ASSUME NEW v \in Threads, v # u PROVE pxThreads[v].uxCriticalNesting = Nesting(thread'[v])
      <3>1. CASE v = t
        BY <1>4, <1>14, <1>16, <3>1
      <3>2. CASE v # t
        BY <1>16, <1>17, <2>1, <3>2 DEF PortIInv, Saved
      <3> QED BY <3>1, <3>2
    <2> QED BY <1>19, <1>20, <2>1 DEF Saved
  <1>30. \A v \in Threads : thread'[v].pc \notin Fenced
    BY <1>7, <1>8, <1>12, <1>16, <1>18, ZenonT(60)
  <1>31. Disabled'
    <2>1. \A v \in Threads : Active(thread'[v]) => thread'[v].handler = "sigwait"
      BY <1>8, <1>16, <1>19
    <2> QED BY <1>30, <2>1 DEF Disabled
  <1>32. Made'
    <2>1. PICK s : s = port.lIndexOfLastAddedTask
      OBVIOUS
    <2>2. port'.lIndexOfLastAddedTask = s /\ s \in Threads
      BY <1>20, <2>1 DEF PortRecord, PortIInv, PortTypes
    <2>3. \A v \in Threads : thread[v].pc \notin {"create", "wait"} /\ thread'[v].pc \notin {"create", "wait"}
      <3>1. "create" \in Fenced /\ "wait" \in Fenced
        BY DEF Fenced
      <3> QED BY <1>12, <1>18, <1>30, <3>1
    <2>4. ASSUME NEW v \in Threads, thread'[v].making # None
          PROVE  /\ thread'[v].making <= handles'
                 /\ \A i \in Threads : pxThreads'[i].hTask # thread'[v].making
                 /\ pxThreads'[s].hTask = None /\ thread'[s].code = thread'[v].making
                 /\ thread'[s].pc \in {"start", "suspend", "kill", "spin"} /\ ~ Active(thread'[s])
                 /\ Settled(thread'[s])
      <3>1. thread[v].making = thread'[v].making
        BY <1>26
      <3>2. /\ thread[v].making <= handles /\ \A i \in Threads : pxThreads[i].hTask # thread[v].making
            /\ pxThreads[s].hTask = None /\ thread[s].code = thread[v].making
            /\ thread[s].pc \in {"start", "suspend", "kill", "spin"} /\ ~ Active(thread[s])
            /\ Settled(thread[s])
        BY <2>1, <2>3, <2>4, <3>1 DEF PortIInv, Made
      <3>3. s # t /\ s # u
        BY <1>2, <1>3, <1>21, <3>2
      <3>4. thread'[s] = thread[s]
        BY <1>16, <2>2, <3>3
      <3> QED BY <1>20, <3>1, <3>2, <3>4
    <2>5. ASSUME NEW v \in Threads PROVE thread'[v].pc # "start"
      <3>1. thread[v].pc # "start"
        BY <2>3 DEF PortIInv, Made
      <3>2. CASE v = t
        BY <1>12, <1>16, <3>2
      <3>3. CASE v = u
        BY <1>5, <1>8, <1>16, <3>1, <3>3
      <3>4. CASE v \notin {t, u}
        BY <1>16, <3>1, <3>4
      <3> QED BY <3>2, <3>3, <3>4
    <2> QED BY <2>2, <2>3, <2>4, <2>5 DEF Made
  <1>33. Cancelled'
    <2>1. ASSUME NEW v \in Threads, thread'[v].cancelled
          PROVE  Parked(thread'[v]) /\ pxThreads[v].hTask # None /\ pxThreads[v].hTask \notin readied
      <3>1. thread[v].cancelled
        BY <1>26, <2>1
      <3>2. v # t /\ v # u
        BY <1>5, <1>21, <3>1
      <3> QED BY <1>16, <3>1, <3>2 DEF PortIInv, Cancelled
    <2> QED BY <1>20, <2>1 DEF Cancelled
  <1> QED BY <1>22, <1>23, <1>24, <1>25, <1>27, <1>28, <1>29, <1>31, <1>32, <1>33 DEF PortIInv

LEMMA ResumeThreadKeeps ==
    ASSUME PortIInv, NEW t \in Threads, prvResumeThread(t), cast' = cast PROVE PortIInv'
  <1>1. PICK x, y : x = thread[t] /\ y = Gave(x)
    OBVIOUS
  <1>2. /\ x \in ThreadRecord /\ x.pc = "resume" /\ x.handler = "none" /\ At(t, "resume")
        /\ thread \in [Threads -> ThreadRecord]
    BY <1>1 DEF prvResumeThread, At, PortIInv, PortTypes
  <1>3. y = [x EXCEPT !.to = None, !.pc = "suspend"]
    <2>1. y = [x EXCEPT !.pc = "suspend", !.handler = "none", !.to = None]
      BY <1>1, <1>2 DEF Gave
    <2>2. x = [x EXCEPT !.handler = "none"]
      BY <1>2 DEF ThreadRecord
    <2> QED BY <1>2, <2>1, <2>2 DEF ThreadRecord
  <1>4. thread' = [Resumed(t) EXCEPT ![t].pc = "suspend"]
    BY DEF prvResumeThread
  <1>5. UNCHANGED <<cast, port, pxThreads, kernel>>
    BY DEF prvResumeThread
  <1>8. Resumes(t)
    BY <1>1, <1>2 DEF Resumes
  <1>6. x.to \in Threads /\ x.to # t
    BY <1>1, <1>8, GivingTo
  <1>7. thread' = [thread EXCEPT ![x.to].signals = @ \cup {"RESUME"}, ![t] = y]
    BY <1>1, <1>2, <1>3, <1>4, <1>6 DEF Resumed, ThreadRecord
  <1> QED BY <1>1, <1>2, <1>5, <1>7, <1>8, ResumeKeeps

LEMMA TickResumesKeeps ==
    ASSUME PortIInv, NEW t \in Threads, TickResumes(t), cast' = cast PROVE PortIInv'
  <1>1. PICK x, y : x = thread[t] /\ y = Gave(x)
    OBVIOUS
  <1>2. /\ x \in ThreadRecord /\ x.handler = "tick resume"
        /\ thread \in [Threads -> ThreadRecord]
    BY <1>1 DEF TickResumes, PortIInv, PortTypes
  <1>3. y = [x EXCEPT !.to = None, !.handler = "tick suspend"]
    <2>1. y = [x EXCEPT !.pc = x.pc, !.handler = "tick suspend", !.to = None]
      BY <1>1, <1>2 DEF Gave
    <2>2. x = [x EXCEPT !.pc = x.pc]
      BY <1>2 DEF ThreadRecord
    <2> QED BY <1>2, <2>1, <2>2 DEF ThreadRecord
  <1>4. thread' = [Resumed(t) EXCEPT ![t].handler = "tick suspend"]
    BY DEF TickResumes
  <1>5. UNCHANGED <<cast, port, pxThreads, kernel>>
    BY DEF TickResumes
  <1>8. Resumes(t)
    BY <1>1, <1>2 DEF Resumes
  <1>6. x.to \in Threads /\ x.to # t
    BY <1>1, <1>8, GivingTo
  <1>7. thread' = [thread EXCEPT ![x.to].signals = @ \cup {"RESUME"}, ![t] = y]
    BY <1>1, <1>2, <1>3, <1>4, <1>6 DEF Resumed, ThreadRecord
  <1> QED BY <1>1, <1>2, <1>5, <1>7, <1>8, ResumeKeeps

(* Two tasks would overwrite lIndexOfLastAddedTask for one another. *)
OneCreates ==
    \A t, u \in Threads : thread[t].making # None /\ thread[u].making # None => t = u

(* A new thread waits until the one that creates it has let go the mutex.   *)
LEMMA WaitForStartKeeps ==
    ASSUME PortIInv, NEW t \in Threads, prvWaitForStart(t), cast' = cast PROVE PortIInv'
  <1>1. PICK x, y : x = thread[t] /\ y = [x EXCEPT !.pc = "suspend", !.from = t]
    OBVIOUS
  <1>2. /\ x \in ThreadRecord /\ Coherent(t, x) /\ x.pc = "start" /\ port \in PortRecord
        /\ thread \in [Threads -> ThreadRecord] /\ port.xSingleThreadMutex = None
    BY <1>1 DEF prvWaitForStart, At, Free, PortIInv, PortTypes, AllCoherent
  <1>3. /\ x.handler = "none" /\ x.signals = {} /\ x.own = 0
        /\ x.making = None /\ ~ x.cancelled /\ x.ret = "task"
    BY <1>2 DEF Coherent
  <1>4. t \in Nat /\ t # None
    BY PortAssumption DEF Threads, None
  <1>5. /\ y \in ThreadRecord /\ y.pc = "suspend" /\ y.handler = "none" /\ y.signals = {} /\ y.own = 0
        /\ y.making = None /\ ~ y.cancelled /\ y.ret = "task" /\ y.from = t /\ y.code = x.code
    BY <1>1, <1>2, <1>3, <1>4 DEF ThreadRecord, Places, Turning
  <1>6. Coherent(t, y)
    <2>1. "suspend" \notin Fenced \cup Resting \cup Making /\ cast.nesting \in Nat
      BY PortAssumption DEF Fenced, Resting, Making, PortIInv, PortTypes
    <2> QED BY <1>5, <2>1 DEF Coherent
  <1>7. /\ ~ Active(x) /\ ~ Active(y) /\ Holds(y)
        /\ Nesting(x) = 0 /\ Nesting(y) = 0
    BY <1>2, <1>3, <1>5 DEF Active, Holds, Leaving, Nesting
  <1>8. /\ thread' = [thread EXCEPT ![t] = y] /\ thread' \in [Threads -> ThreadRecord]
        /\ thread'[t] = y /\ \A v \in Threads : v # t => thread'[v] = thread[v]
    <2>1. thread' = [thread EXCEPT ![t] = y]
      BY <1>1 DEF prvWaitForStart
    <2> QED BY <1>2, <1>5, <2>1
  <1>9. /\ port' \in PortRecord /\ port'.xSingleThreadMutex = t
        /\ port'.xSentinel = port.xSentinel
        /\ port'.xInterruptsEnabled = port.xInterruptsEnabled
        /\ port'.uxCriticalNesting = port.uxCriticalNesting
        /\ port'.lIndexOfLastAddedTask = port.lIndexOfLastAddedTask
    BY <1>2 DEF prvWaitForStart, PortRecord
  <1>10. /\ cast' = cast /\ pxThreads' = pxThreads /\ current' = current /\ readied' = readied
         /\ handles' = handles
    BY DEF prvWaitForStart, kernel
  <1>11. \A v \in Threads : Active(thread'[v]) <=> Active(thread[v])
    BY <1>1, <1>7, <1>8
  <1>12. \A v \in Threads : Nesting(thread'[v]) = Nesting(thread[v])
    BY <1>1, <1>7, <1>8
  <1>13. port.lIndexOfLastAddedTask = t /\ \A v \in Threads : thread[v].pc = "start" => v = t
    BY <1>1, <1>2 DEF PortIInv, Made
  <1>14. pxThreads[t].hTask = None
    BY <1>1, <1>2 DEF PortIInv, Mapped
  <1>15. PortTypes'
    BY <1>8, <1>9, <1>10 DEF PortIInv, PortTypes
  <1>16. AllCoherent'
    <2>1. \A v \in Threads : Coherent(v, thread[v])' <=> Coherent(v, thread'[v])
      BY <1>10 DEF Coherent
    <2> QED BY <1>6, <1>8, <2>1 DEF PortIInv, AllCoherent
  <1>17. OneActive'
    BY <1>11 DEF PortIInv, OneActive
  <1>18. MutexHeld'
    <2>1. ASSUME NEW v \in Threads, v # t PROVE ~ Holds(thread'[v])
      BY <1>2, <1>8, <2>1, FreeMutex
    <2> QED BY <1>7, <1>8, <1>9, <2>1 DEF MutexHeld
  <1>19. Mapped'
    <2>1. ASSUME NEW i \in Threads, pxThreads[i].hTask # None PROVE thread'[i] = thread[i]
      BY <1>8, <1>14, <2>1
    <2> QED BY <1>10, <2>1 DEF PortIInv, Mapped
  <1>20. InTurn'
    <2>1. ASSUME NEW v \in Threads, Active(thread'[v])
          PROVE  /\ ~ Giving(thread'[v]) /\ pxThreads[v].hTask = current
                 /\ port'.uxCriticalNesting = Nesting(thread'[v])
      <3>1. Active(thread[v]) /\ v # t /\ thread'[v] = thread[v] /\ ~ Giving(thread[v])
        BY <1>1, <1>2, <1>7, <1>8, <1>11, <2>1, FreeMutex
      <3>2. pxThreads[v].hTask = current /\ port.uxCriticalNesting = Nesting(thread[v])
        BY <3>1 DEF PortIInv, InTurn
      <3> QED BY <1>9, <3>1, <3>2
    <2> QED BY <1>10, <2>1 DEF InTurn
  <1>21. Saved'
    BY <1>10, <1>11, <1>12 DEF PortIInv, Saved
  <1>22. Disabled'
    <2>1. ASSUME NEW v \in Threads
          PROVE  /\ thread'[v].pc \in Fenced => ~ port'.xInterruptsEnabled
                 /\ Active(thread'[v]) /\ ~ Giving(thread'[v]) /\ thread'[v].own > 0 =>
                       /\ thread'[v].handler # "enable"
                       /\ thread'[v].handler \notin {"sigwait", "disable"} => ~ port'.xInterruptsEnabled
      <3>1. CASE v = t
        BY <1>5, <1>7, <1>8, <3>1 DEF Fenced
      <3>2. CASE v # t
        BY <1>8, <1>9, <3>2 DEF PortIInv, Disabled
      <3> QED BY <3>1, <3>2
    <2> QED BY <2>1 DEF Disabled
  <1>23. Made'
    <2>1. ASSUME NEW v \in Threads, thread'[v].making # None
          PROVE  /\ thread'[v].making <= handles
                 /\ \A i \in Threads : pxThreads[i].hTask # thread'[v].making
                 /\ thread'[v].pc = "create" => \E i \in Threads : thread'[i].pc = "none"
                 /\ thread'[v].pc # "create" =>
                       /\ pxThreads[t].hTask = None /\ thread'[t].code = thread'[v].making
                       /\ thread'[t].pc \in {"start", "suspend", "kill", "spin"}
                       /\ ~ Active(thread'[t])
                       /\ thread'[v].pc # "wait" \/ port'.xSentinel => Settled(thread'[t])
                       /\ thread'[v].pc = "wait" => port'.xSingleThreadMutex \in {None, t}
      <3>1. v # t /\ thread'[v] = thread[v]
        BY <1>5, <1>8, <2>1
      <3>2. /\ thread[v].making <= handles /\ \A i \in Threads : pxThreads[i].hTask # thread[v].making
            /\ thread[v].pc = "create" => \E i \in Threads : thread[i].pc = "none"
            /\ thread[v].pc # "create" =>
                  /\ thread[t].code = thread[v].making
                  /\ thread[v].pc # "wait" \/ port.xSentinel => Settled(thread[t])
        BY <1>13, <2>1, <3>1 DEF PortIInv, Made
      <3>3. ~ Settled(thread[t])
        BY <1>1, <1>2 DEF Settled
      <3>4. thread[v].pc = "create" => \E i \in Threads : thread'[i].pc = "none"
        BY <1>1, <1>2, <1>8, <3>2
      <3> QED BY <1>1, <1>5, <1>7, <1>8, <1>9, <1>14, <3>1, <3>2, <3>3, <3>4
    <2>2. ASSUME NEW v \in Threads PROVE thread'[v].pc # "start"
      BY <1>5, <1>8, <1>13
    <2> QED BY <1>9, <1>10, <1>13, <2>1, <2>2 DEF Made
  <1>24. Cancelled'
    BY <1>5, <1>8, <1>10 DEF PortIInv, Cancelled
  <1> QED BY <1>15, <1>16, <1>17, <1>18, <1>19, <1>20, <1>21, <1>22, <1>23, <1>24 DEF PortIInv

(* pthread_create: the thread of the new task is there, and starts.         *)
LEMMA CreateThreadKeeps ==
    ASSUME PortIInv, OneCreates, NEW t \in Threads, CreateThread(t), cast' = cast PROVE PortIInv'
  <1>1. PICK x, i : x = thread[t] /\ i = Min(FreeThreadStates)
    OBVIOUS
  <1>2. At(t, "create") /\ "create" \in Fenced \cup Resting /\ "create" \in Fenced
    BY DEF CreateThread, Fenced
  <1>3. /\ x \in ThreadRecord /\ Coherent(t, x) /\ x.pc = "create"
        /\ x.handler = "none" /\ x.signals = {} /\ ~ x.cancelled
        /\ Active(x) /\ ~ Giving(x) /\ ~ Holds(x)
        /\ pxThreads[t].hTask = current /\ port.uxCriticalNesting = Nesting(x)
        /\ ~ port.xInterruptsEnabled
        /\ port \in PortRecord /\ \A u \in Threads : Active(thread[u]) => u = t
    BY <1>1, <1>2, CodeFacts
  <1>4. /\ x.own = 0 /\ x.making # None /\ x.making \in Nat /\ port.xSingleThreadMutex = None
        /\ thread \in [Threads -> ThreadRecord]
    <2>1. x.own = 0 /\ x.making # None
      BY <1>3 DEF Coherent, Making
    <2> QED BY <1>3, <2>1 DEF ThreadRecord, CreateThread, Free, PortIInv, PortTypes
  <1>5. /\ x.making <= handles /\ \A j \in Threads : pxThreads[j].hTask # x.making
        /\ \E j \in Threads : thread[j].pc = "none"
    BY <1>1, <1>3, <1>4 DEF PortIInv, Made
  <1>6. i \in Threads /\ thread[i].pc = "none" /\ i # t
    <2>1. FreeThreadStates # {} /\ FreeThreadStates \in SUBSET Nat
      BY <1>5 DEF FreeThreadStates, Threads
    <2>2. i \in FreeThreadStates
      BY <1>1, <2>1, LeastIsIn
    <2> QED BY <1>1, <1>3, <2>2 DEF FreeThreadStates
  <1>7. PICK w, y, z : w = thread[i] /\ y = [x EXCEPT !.pc = "wait"] /\ z = Thread("start", "none", {}, x.making)
    OBVIOUS
  <1>8. /\ y \in ThreadRecord /\ y.pc = "wait" /\ y.handler = "none" /\ y.signals = {} /\ y.own = 0
        /\ y.making = x.making /\ ~ y.cancelled /\ y.ret = x.ret /\ y.code = x.code
    BY <1>3, <1>4, <1>7 DEF ThreadRecord, Places, Fenced
  <1>9. /\ z \in ThreadRecord /\ z.pc = "start" /\ z.handler = "none" /\ z.signals = {} /\ z.own = 0
        /\ z.making = None /\ ~ z.cancelled /\ z.ret = "task" /\ z.code = x.making
    BY <1>4, <1>7 DEF Thread, ThreadRecord, Places, HandlerPlaces, None
  <1>10. /\ w \in ThreadRecord /\ w.pc = "none" /\ w.handler = "none" /\ w.signals = {} /\ w.own = 0
         /\ w.making = None /\ ~ w.cancelled /\ pxThreads[i].hTask = None
    BY <1>4, <1>6, <1>7 DEF PortIInv, AllCoherent, Coherent, Mapped
  <1>11. /\ thread' = [thread EXCEPT ![t] = y, ![i] = z] /\ thread' \in [Threads -> ThreadRecord]
         /\ thread'[t] = y /\ thread'[i] = z
         /\ \A v \in Threads : v \notin {t, i} => thread'[v] = thread[v]
    <2>1. thread' = [thread EXCEPT ![t] = y, ![i] = z]
      BY <1>1, <1>4, <1>7 DEF CreateThread
    <2>2. thread' \in [Threads -> ThreadRecord]
      BY <1>4, <1>8, <1>9, <2>1
    <2> QED BY <1>4, <1>6, <2>1, <2>2
  <1>12. /\ port' \in PortRecord /\ port'.xSingleThreadMutex = None
         /\ ~ port'.xSentinel /\ ~ port'.xInterruptsEnabled
         /\ port'.uxCriticalNesting = 1
         /\ port'.lIndexOfLastAddedTask = i
    <2>1. port.uxCriticalNesting = 0
      BY <1>3, <1>4 DEF Nesting
    <2>2. port' = [port EXCEPT !.uxCriticalNesting = 1, !.lIndexOfLastAddedTask = i, !.xSentinel = FALSE]
      BY <1>1, <2>1 DEF CreateThread
    <2> QED BY <1>3, <1>4, <1>6, <2>2 DEF PortRecord
  <1>13. /\ pxThreads' = pxThreads /\ current' = current /\ readied' = readied /\ handles' = handles
    BY DEF CreateThread, kernel
  <1>14. Active(y) /\ ~ Giving(y) /\ ~ Holds(y) /\ Nesting(y) = 1
    BY <1>8 DEF Active, Giving, Holds, Parked, Leaving, Nesting
  <1>15. ~ Active(z) /\ ~ Active(w) /\ ~ Holds(z) /\ Nesting(z) = 0 /\ Nesting(w) = 0
    BY <1>9, <1>10 DEF Active, Giving, Holds, Parked, Leaving, Nesting
  <1>16. \A v \in Threads : v # t => ~ Active(thread[v]) /\ ~ Active(thread'[v])
    BY <1>3, <1>11, <1>15
  <1>17. \A v \in Threads : v # t => thread[v].pc \notin Fenced /\ thread'[v].pc \notin Fenced
    <2>1. \A v \in Threads : v # t => thread[v].pc \notin Fenced
      BY <1>16, FencedIsActive
    <2> QED BY <1>9, <1>11, <2>1 DEF Fenced
  <1>18. PortTypes'
    BY <1>11, <1>12, <1>13 DEF PortIInv, PortTypes
  <1>19. Coherent(t, y)
    BY <1>3, <1>4, <1>8 DEF Coherent, Fenced, Turning, Making
  <1>20. Coherent(i, z)
    <2>1. "start" \notin Fenced \cup Resting \cup Making \cup Turning /\ cast.nesting \in Nat
      BY PortAssumption DEF Fenced, Resting, Making, Turning, PortIInv, PortTypes
    <2> QED BY <1>9, <2>1 DEF Coherent
  <1>21. AllCoherent'
    <2>1. \A v \in Threads : Coherent(v, thread[v])' <=> Coherent(v, thread'[v])
      BY DEF Coherent
    <2>2. ASSUME NEW v \in Threads PROVE Coherent(v, thread'[v])
      <3>1. CASE v = t
        BY <1>11, <1>19, <3>1
      <3>2. CASE v = i
        BY <1>11, <1>20, <3>2
      <3>3. CASE v \notin {t, i}
        BY <1>11, <3>3 DEF PortIInv, AllCoherent
      <3> QED BY <3>1, <3>2, <3>3
    <2> QED BY <2>1, <2>2 DEF AllCoherent
  <1>22. OneActive'
    <2>1. Active(thread'[t])
      BY <1>11, <1>14
    <2> QED BY <1>16, <2>1 DEF OneActive
  <1>23. MutexHeld'
    <2>1. ASSUME NEW v \in Threads PROVE ~ Holds(thread'[v])
      BY <1>4, <1>11, <1>14, <1>15, <2>1, FreeMutex
    <2>2. \A v \in Threads : v # None
      BY PortAssumption DEF Threads, None
    <2> QED BY <1>12, <2>1, <2>2 DEF MutexHeld
  <1>24. Mapped'
    <2>1. ASSUME NEW v \in Threads, pxThreads[v].hTask # None
          PROVE  /\ thread'[v].pc \notin {"none", "start"} /\ thread'[v].code = thread[v].code
      <3>1. v # i /\ thread[v].pc \notin {"none", "start"}
        BY <1>10, <2>1 DEF PortIInv, Mapped
      <3>2. CASE v = t
        BY <1>1, <1>8, <1>11, <3>2
      <3>3. CASE v # t
        BY <1>11, <3>1, <3>3
      <3> QED BY <3>2, <3>3
    <2> QED BY <1>13, <2>1 DEF PortIInv, Mapped
  <1>25. InTurn'
    <2>1. ASSUME NEW v \in Threads, Active(thread'[v])
          PROVE  /\ ~ Giving(thread'[v]) /\ pxThreads[v].hTask = current
                 /\ port'.uxCriticalNesting = Nesting(thread'[v])
      <3>1. v = t
        BY <1>16, <2>1
      <3> QED BY <1>3, <1>11, <1>12, <1>14, <3>1
    <2> QED BY <1>13, <2>1 DEF InTurn
  <1>26. Saved'
    <2>1. ASSUME NEW v \in Threads, ~ Active(thread'[v])
          PROVE  pxThreads[v].uxCriticalNesting = Nesting(thread'[v])
      <3>1. v # t /\ ~ Active(thread[v])
        BY <1>11, <1>14, <1>16, <2>1
      <3>2. Nesting(thread'[v]) = Nesting(thread[v])
        BY <1>7, <1>11, <1>15, <3>1
      <3> QED BY <3>1, <3>2 DEF PortIInv, Saved
    <2> QED BY <1>13, <2>1 DEF Saved
  <1>27. Disabled'
    <2>1. \A v \in Threads : Active(thread'[v]) => thread'[v].handler = "none"
      BY <1>8, <1>11, <1>16
    <2> QED BY <1>12, <2>1 DEF Disabled
  <1>28. Made'
    <2>1. ASSUME NEW v \in Threads, thread'[v].making # None PROVE v = t
      <3>1. v # i
        BY <1>9, <1>11, <2>1
      <3>2. v # t => thread[v].making # None
        BY <1>11, <2>1, <3>1
      <3> QED BY <1>1, <1>4, <3>2 DEF OneCreates
    <2>2. /\ y.making <= handles /\ \A j \in Threads : pxThreads[j].hTask # y.making
          /\ y.pc # "create" /\ pxThreads[i].hTask = None /\ z.code = y.making
          /\ z.pc \in {"start", "suspend", "kill", "spin"} /\ ~ Active(z)
          /\ ~ (y.pc # "wait" \/ port'.xSentinel)
          /\ port'.xSingleThreadMutex \in {None, i}
      BY <1>5, <1>8, <1>9, <1>10, <1>12, <1>15
    <2>3. ASSUME NEW v \in Threads, thread'[v].pc = "start"
          PROVE  v = i /\ \E u \in Threads : thread'[u].pc = "wait"
      <3>1. ASSUME v # i PROVE FALSE
        <4>1. v # t /\ thread[v].pc = "start"
          BY <1>8, <1>11, <2>3, <3>1
        <4>2. PICK u \in Threads : thread[u].pc = "wait"
          BY <4>1 DEF PortIInv, Made
        <4>3. u # t
          BY <1>1, <1>3, <4>2
        <4> QED BY <1>17, <4>2, <4>3 DEF Fenced
      <3> QED BY <1>8, <1>11, <3>1
    <2>4. ASSUME NEW v \in Threads, thread'[v].making # None
          PROVE  /\ thread'[v].making <= handles'
                 /\ \A j \in Threads : pxThreads'[j].hTask # thread'[v].making
                 /\ thread'[v].pc # "create"
                 /\ pxThreads'[i].hTask = None /\ thread'[i].code = thread'[v].making
                 /\ thread'[i].pc \in {"start", "suspend", "kill", "spin"}
                 /\ ~ Active(thread'[i])
                 /\ ~ (thread'[v].pc # "wait" \/ port'.xSentinel)
                 /\ port'.xSingleThreadMutex \in {None, i}
      <3>1. thread'[v] = y /\ thread'[i] = z
        BY <1>11, <2>1, <2>4
      <3> QED BY <1>13, <2>2, <3>1
    <2> QED BY <1>12, <2>3, <2>4 DEF Made
  <1>29. Cancelled'
    <2>1. ASSUME NEW v \in Threads, thread'[v].cancelled
          PROVE  thread'[v] = thread[v]
      BY <1>8, <1>9, <1>11, <2>1
    <2> QED BY <1>13, <2>1 DEF PortIInv, Cancelled
  <1> QED BY <1>18, <1>21, <1>22, <1>23, <1>24, <1>25, <1>26, <1>27, <1>28, <1>29 DEF PortIInv

(* The new task is known to the port and to the kernel.                     *)
LEMMA AddTaskHandleKeeps ==
    ASSUME PortIInv, OneCreates, NEW t \in Threads, vPortAddTaskHandle(t), cast' = cast PROVE PortIInv'
  <1>1. PICK x, m, s : x = thread[t] /\ m = x.making /\ s = port.lIndexOfLastAddedTask
    OBVIOUS
  <1>2. At(t, "add") /\ "add" \in Fenced \cup Resting /\ "add" \in Fenced
    BY DEF vPortAddTaskHandle, Fenced
  <1>3. /\ x \in ThreadRecord /\ Coherent(t, x) /\ x.pc = "add"
        /\ x.handler = "none" /\ x.signals = {} /\ ~ x.cancelled
        /\ Active(x) /\ ~ Giving(x) /\ ~ Holds(x)
        /\ pxThreads[t].hTask = current /\ port.uxCriticalNesting = Nesting(x)
        /\ ~ port.xInterruptsEnabled /\ cast.nesting \in Nat
        /\ port \in PortRecord /\ \A u \in Threads : Active(thread[u]) => u = t
    BY <1>1, <1>2, CodeFacts
  <1>4. /\ x.own = 0 /\ m # None /\ m \in Nat /\ port.uxCriticalNesting = 0
        /\ thread \in [Threads -> ThreadRecord]
        /\ pxThreads \in [Threads -> [hTask : Nat, uxCriticalNesting : Nat]]
    <2>1. x.own = 0 /\ x.making # None
      BY <1>3 DEF Coherent, Making
    <2> QED BY <1>1, <1>3, <2>1 DEF ThreadRecord, Nesting, PortIInv, PortTypes
  <1>5. /\ m <= handles /\ s \in Threads /\ s # t
        /\ \A i \in Threads : pxThreads[i].hTask # m
        /\ pxThreads[s].hTask = None /\ thread[s].code = m /\ ~ Active(thread[s]) /\ Settled(thread[s])
    <2>1. s \in Threads
      BY <1>1, <1>3 DEF PortRecord
    <2>2. /\ m <= handles /\ \A i \in Threads : pxThreads[i].hTask # m
          /\ pxThreads[s].hTask = None /\ thread[s].code = m /\ ~ Active(thread[s]) /\ Settled(thread[s])
      BY <1>1, <1>3, <1>4 DEF PortIInv, Made
    <2> QED BY <1>1, <1>3, <2>1, <2>2
  <1>6. PICK y : y = [x EXCEPT !.pc = "task", !.own = @ + 1, !.making = None]
    OBVIOUS
  <1>7. /\ y \in ThreadRecord /\ y.pc = "task" /\ y.handler = "none" /\ y.signals = {} /\ y.own = 1
        /\ y.making = None /\ ~ y.cancelled /\ y.ret = x.ret /\ y.code = x.code
    <2>1. y = [x EXCEPT !.pc = "task", !.own = 1, !.making = None]
      BY <1>3, <1>4, <1>6
    <2>2. "task" \in Places /\ None \in Nat
      BY DEF Places, Resting, None
    <2> QED BY <1>3, <2>1, <2>2 DEF ThreadRecord
  <1>8. /\ thread' = [thread EXCEPT ![t] = y] /\ thread' \in [Threads -> ThreadRecord]
        /\ thread'[t] = y /\ \A v \in Threads : v # t => thread'[v] = thread[v]
    <2>1. thread' = [thread EXCEPT ![t] = y]
      BY <1>1, <1>6 DEF vPortAddTaskHandle
    <2> QED BY <1>4, <1>7, <2>1
  <1>9. /\ port' \in PortRecord /\ port'.xSingleThreadMutex = port.xSingleThreadMutex
        /\ ~ port'.xInterruptsEnabled /\ port'.uxCriticalNesting = 1
        /\ port'.lIndexOfLastAddedTask = s
    <2>1. port' = [port EXCEPT !.uxCriticalNesting = 1]
      BY <1>4 DEF vPortAddTaskHandle
    <2> QED BY <1>1, <1>3, <2>1 DEF PortRecord
  <1>10. /\ pxThreads' = [pxThreads EXCEPT ![s].hTask = m]
         /\ pxThreads' \in [Threads -> [hTask : Nat, uxCriticalNesting : Nat]]
         /\ pxThreads'[s].hTask = m
         /\ \A v \in Threads : v # s => pxThreads'[v] = pxThreads[v]
         /\ \A v \in Threads : pxThreads'[v].uxCriticalNesting = pxThreads[v].uxCriticalNesting
    <2>1. pxThreads' = [pxThreads EXCEPT ![s].hTask = m]
      BY <1>1 DEF vPortAddTaskHandle
    <2> QED BY <1>4, <1>5, <2>1
  <1>11. readied' = readied \cup {m} /\ current' = current /\ handles' = handles
    BY <1>1 DEF vPortAddTaskHandle
  <1>12. Active(y) /\ ~ Giving(y) /\ ~ Holds(y) /\ Nesting(y) = 1
    BY <1>7 DEF Active, Giving, Holds, Parked, Leaving, Nesting
  <1>13. \A v \in Threads : v # t => ~ Active(thread[v]) /\ ~ Active(thread'[v])
    BY <1>3, <1>8
  <1>14. \A v \in Threads : v # t => thread[v].pc \notin Fenced
    BY <1>13, FencedIsActive
  <1>15. PortTypes'
    BY <1>8, <1>9, <1>10, <1>11 DEF PortIInv, PortTypes
  <1>16. AllCoherent'
    <2>1. \A v \in Threads : Coherent(v, thread[v])' <=> Coherent(v, thread'[v])
      BY DEF Coherent
    <2>2. Coherent(t, y)
      BY <1>3, <1>7 DEF Coherent, Fenced, Resting, Turning, Making
    <2> QED BY <1>8, <2>1, <2>2 DEF PortIInv, AllCoherent
  <1>17. OneActive'
    <2>1. Active(thread'[t])
      BY <1>8, <1>12
    <2> QED BY <1>13, <2>1 DEF OneActive
  <1>18. MutexHeld'
    <2>1. \A v \in Threads : Holds(thread'[v]) <=> Holds(thread[v])
      BY <1>1, <1>3, <1>8, <1>12
    <2> QED BY <1>9, <2>1 DEF PortIInv, MutexHeld
  <1>19. Mapped'
    <2>1. current' \in readied' /\ None \notin readied'
      BY <1>4, <1>11 DEF PortIInv, Mapped
    <2>2. ASSUME NEW h \in readied' PROVE \E i \in Threads : pxThreads'[i].hTask = h
      <3>1. CASE h = m
        BY <1>5, <1>10, <3>1
      <3>2. CASE h # m
        <4>1. h \in readied /\ h # None
          BY <1>11, <2>1, <2>2, <3>2
        <4>2. PICK i \in Threads : pxThreads[i].hTask = h
          BY <4>1 DEF PortIInv, Mapped
        <4> QED BY <1>5, <1>10, <4>1, <4>2
      <3> QED BY <3>1, <3>2
    <2>3. ASSUME NEW i \in Threads, pxThreads'[i].hTask # None
          PROVE  /\ thread'[i].pc \notin {"none", "start"} /\ thread'[i].code = pxThreads'[i].hTask
                 /\ pxThreads'[i].hTask <= handles
      <3>1. CASE i = s
        BY <1>5, <1>8, <1>10, <3>1 DEF Settled
      <3>2. CASE i # s
        <4>1. /\ thread[i].pc \notin {"none", "start"} /\ thread[i].code = pxThreads[i].hTask
              /\ pxThreads[i].hTask <= handles
          BY <1>10, <2>3, <3>2 DEF PortIInv, Mapped
        <4>2. CASE i = t
          BY <1>1, <1>7, <1>8, <1>10, <3>2, <4>1, <4>2
        <4>3. CASE i # t
          BY <1>8, <1>10, <3>2, <4>1, <4>3
        <4> QED BY <4>2, <4>3
      <3> QED BY <3>1, <3>2
    <2>4. ASSUME NEW i \in Threads, NEW j \in Threads,
                 pxThreads'[i].hTask = pxThreads'[j].hTask, pxThreads'[i].hTask # None
          PROVE  i = j
      <3>1. (i = s <=> pxThreads'[i].hTask = m) /\ (j = s <=> pxThreads'[j].hTask = m)
        BY <1>5, <1>10
      <3>2. CASE i = s
        BY <2>4, <3>1, <3>2
      <3>3. CASE i # s
        <4>1. j # s
          BY <2>4, <3>1, <3>3
        <4> QED BY <1>10, <2>4, <3>3, <4>1 DEF PortIInv, Mapped
      <3> QED BY <3>2, <3>3
    <2> QED BY <1>11, <2>1, <2>2, <2>3, <2>4 DEF Mapped
  <1>20. InTurn'
    <2>1. ASSUME NEW v \in Threads, Active(thread'[v])
          PROVE  /\ ~ Giving(thread'[v]) /\ pxThreads'[v].hTask = current
                 /\ port'.uxCriticalNesting = Nesting(thread'[v])
      <3>1. v = t
        BY <1>13, <2>1
      <3> QED BY <1>3, <1>5, <1>8, <1>9, <1>10, <1>12, <3>1
    <2> QED BY <1>11, <2>1 DEF InTurn
  <1>21. Saved'
    <2>1. ASSUME NEW v \in Threads, ~ Active(thread'[v])
          PROVE  pxThreads'[v].uxCriticalNesting = Nesting(thread'[v])
      <3>1. v # t /\ ~ Active(thread[v]) /\ thread'[v] = thread[v]
        BY <1>8, <1>12, <1>13, <2>1
      <3> QED BY <1>10, <3>1 DEF PortIInv, Saved
    <2> QED BY <2>1 DEF Saved
  <1>22. Disabled'
    <2>1. ASSUME NEW v \in Threads, Active(thread'[v]) PROVE thread'[v].handler = "none"
      BY <1>7, <1>8, <1>13, <2>1
    <2> QED BY <1>9, <2>1 DEF Disabled
  <1>23. Made'
    <2>1. ASSUME NEW v \in Threads PROVE thread'[v].making = None
      <3>1. CASE v = t
        BY <1>7, <1>8, <3>1
      <3>2. CASE v # t
        BY <1>1, <1>4, <1>8, <3>2 DEF OneCreates
      <3> QED BY <3>1, <3>2
    <2>2. ASSUME NEW v \in Threads PROVE thread'[v].pc # "start"
      <3>1. CASE v = t
        BY <1>7, <1>8, <3>1
      <3>2. ASSUME v # t, thread[v].pc = "start" PROVE FALSE
        <4>1. PICK u \in Threads : thread[u].pc = "wait"
          BY <3>2 DEF PortIInv, Made
        <4>2. u = t
          BY <1>14, <4>1 DEF Fenced
        <4> QED BY <1>1, <1>3, <4>1, <4>2
      <3> QED BY <1>8, <3>1, <3>2
    <2> QED BY <2>1, <2>2 DEF Made
  <1>24. Cancelled'
    <2>1. ASSUME NEW v \in Threads, thread'[v].cancelled
          PROVE  /\ Parked(thread'[v]) /\ pxThreads'[v].hTask # None /\ pxThreads'[v].hTask \notin readied'
      <3>1. v # t /\ thread'[v] = thread[v]
        BY <1>7, <1>8, <2>1
      <3>2. Parked(thread[v]) /\ pxThreads[v].hTask # None /\ pxThreads[v].hTask \notin readied
        BY <2>1, <3>1 DEF PortIInv, Cancelled
      <3>3. pxThreads'[v] = pxThreads[v]
        BY <1>5, <1>10, <3>2
      <3> QED BY <1>5, <1>11, <3>1, <3>2, <3>3
    <2> QED BY <2>1 DEF Cancelled
  <1> QED BY <1>15, <1>16, <1>17, <1>18, <1>19, <1>20, <1>21, <1>22, <1>23, <1>24 DEF PortIInv

(* vPortForciblyEndThread of a thread that waits: it is cancelled.          *)
LEMMA EndOtherKeeps ==
    ASSUME PortIInv, NEW t \in Threads, NEW h \in readied, EndOther(t, h), cast' = cast PROVE PortIInv'
  <1>1. PICK x : x = thread[t]
    OBVIOUS
  <1>2. At(t, "task") /\ "task" \in Fenced \cup Resting
    BY DEF EndOther, Resting
  <1>3. /\ Active(x) /\ ~ Giving(x) /\ pxThreads[t].hTask = current
        /\ \A v \in Threads : Active(thread[v]) => v = t
    BY <1>1, <1>2, CodeFacts
  <1>4. h # current /\ h # None /\ port.xSingleThreadMutex = None
    BY DEF EndOther, Free, PortIInv, Mapped
  <1>5. PICK u \in Threads : pxThreads[u].hTask = h
    BY DEF PortIInv, Mapped
  <1>6. prvGetThreadHandle(h) = u
    <2>1. \A j \in Threads : pxThreads[j].hTask = h => j = u
      BY <1>4, <1>5 DEF PortIInv, Mapped
    <2> QED BY <1>5, <2>1, ThreadOfHandle
  <1>7. PICK w, z : w = thread[u] /\ z = [w EXCEPT !.cancelled = TRUE]
    OBVIOUS
  <1>8. u # t /\ w.pc \notin {"none", "start"} /\ Parked(w)
    <2>1. u # t
      BY <1>3, <1>4, <1>5
    <2>2. thread[u].pc \notin {"none", "start"}
      BY <1>4, <1>5 DEF PortIInv, Mapped
    <2> QED BY <1>3, <1>4, <1>7, <2>1, <2>2, FreeMutex
  <1>9. thread \in [Threads -> ThreadRecord] /\ w \in ThreadRecord /\ Coherent(u, w)
    BY <1>7 DEF PortIInv, PortTypes, AllCoherent
  <1>10. /\ z \in ThreadRecord /\ z.pc = w.pc /\ z.handler = w.handler /\ z.signals = w.signals
         /\ z.from = w.from /\ z.to = w.to /\ z.ret = w.ret /\ z.own = w.own
         /\ z.making = w.making /\ z.code = w.code
    BY <1>7, <1>9 DEF ThreadRecord
  <1>11. /\ thread' = [thread EXCEPT ![u] = z] /\ thread' \in [Threads -> ThreadRecord]
         /\ thread'[u] = z /\ \A v \in Threads : v # u => thread'[v] = thread[v]
    <2>1. thread' = [thread EXCEPT ![u] = z]
      BY <1>6, <1>7 DEF EndOther
    <2> QED BY <1>9, <1>10, <2>1
  <1>12. /\ port' = port /\ pxThreads' = pxThreads /\ current' = current /\ handles' = handles
         /\ readied' = readied \ {h}
    BY DEF EndOther
  <1>13. /\ Active(z) <=> Active(w)
         /\ Holds(z) <=> Holds(w)
         /\ Parked(z) <=> Parked(w)
         /\ Settled(z) <=> Settled(w)
         /\ Nesting(z) = Nesting(w)
    BY <1>10 DEF Active, Holds, Giving, Parked, Leaving, Settled, Nesting
  <1>14. \A v \in Threads :
            /\ Active(thread'[v]) <=> Active(thread[v])
            /\ Holds(thread'[v]) <=> Holds(thread[v])
            /\ Settled(thread'[v]) <=> Settled(thread[v])
            /\ Nesting(thread'[v]) = Nesting(thread[v])
            /\ thread'[v].pc = thread[v].pc /\ thread'[v].code = thread[v].code
            /\ thread'[v].making = thread[v].making
    BY <1>7, <1>10, <1>11, <1>13
  <1>15. ~ Active(w)
    BY <1>8 DEF Active
  <1>16. PortTypes'
    BY <1>11, <1>12 DEF PortIInv, PortTypes
  <1>17. AllCoherent'
    <2>1. \A v \in Threads : Coherent(v, thread[v])' <=> Coherent(v, thread'[v])
      BY DEF Coherent
    <2>2. Coherent(u, z)
      BY <1>8, <1>9, <1>10 DEF Coherent
    <2> QED BY <1>11, <2>1, <2>2 DEF PortIInv, AllCoherent
  <1>18. OneActive'
    BY <1>14 DEF PortIInv, OneActive
  <1>19. MutexHeld'
    BY <1>12, <1>14 DEF PortIInv, MutexHeld
  <1>20. Mapped'
    <2>1. current' \in readied' /\ None \notin readied'
      BY <1>4, <1>12 DEF PortIInv, Mapped
    <2>2. \A g \in readied' : \E i \in Threads : pxThreads'[i].hTask = g
      BY <1>12 DEF PortIInv, Mapped
    <2>3. \A i \in Threads : pxThreads'[i].hTask # None =>
             /\ thread'[i].pc \notin {"none", "start"} /\ thread'[i].code = pxThreads'[i].hTask
             /\ pxThreads'[i].hTask <= handles'
      BY <1>12, <1>14 DEF PortIInv, Mapped
    <2>4. \A i, j \in Threads :
             pxThreads'[i].hTask = pxThreads'[j].hTask /\ pxThreads'[i].hTask # None => i = j
      BY <1>12 DEF PortIInv, Mapped
    <2> QED BY <2>1, <2>2, <2>3, <2>4 DEF Mapped
  <1>21. InTurn'
    <2>1. ASSUME NEW v \in Threads, Active(thread'[v])
          PROVE  /\ ~ Giving(thread'[v]) /\ pxThreads[v].hTask = current
                 /\ port.uxCriticalNesting = Nesting(thread'[v])
      <3>1. v = t /\ thread'[v] = x
        BY <1>1, <1>3, <1>8, <1>11, <1>14, <2>1
      <3>2. port.uxCriticalNesting = Nesting(x)
        BY <1>1, <1>3 DEF PortIInv, InTurn
      <3> QED BY <1>3, <3>1, <3>2
    <2> QED BY <1>12, <2>1 DEF InTurn
  <1>22. Saved'
    BY <1>12, <1>14 DEF PortIInv, Saved
  <1>23. Disabled'
    <2>1. ASSUME NEW v \in Threads
          PROVE  /\ thread'[v].pc \in Fenced => ~ port.xInterruptsEnabled
                 /\ Active(thread'[v]) /\ ~ Giving(thread'[v]) /\ thread'[v].own > 0 =>
                       /\ thread'[v].handler # "enable"
                       /\ thread'[v].handler \notin {"sigwait", "disable"} => ~ port.xInterruptsEnabled
      <3>1. CASE v = u
        BY <1>7, <1>11, <1>13, <1>14, <1>15, <3>1 DEF PortIInv, Disabled
      <3>2. CASE v # u
        BY <1>11, <3>2 DEF PortIInv, Disabled
      <3> QED BY <3>1, <3>2
    <2> QED BY <1>12, <2>1 DEF Disabled
  <1>24. Made'
    <2>1. PICK s : s = port.lIndexOfLastAddedTask
      OBVIOUS
    <2>2. s \in Threads
      BY <2>1 DEF PortIInv, PortTypes, PortRecord
    <2>3. ASSUME NEW v \in Threads, thread'[v].making # None
          PROVE  /\ thread'[v].making <= handles
                 /\ \A i \in Threads : pxThreads[i].hTask # thread'[v].making
                 /\ thread'[v].pc = "create" => \E i \in Threads : thread'[i].pc = "none"
                 /\ thread'[v].pc # "create" =>
                       /\ pxThreads[s].hTask = None /\ thread'[s].code = thread'[v].making
                       /\ thread'[s].pc \in {"start", "suspend", "kill", "spin"}
                       /\ ~ Active(thread'[s])
                       /\ thread'[v].pc # "wait" \/ port.xSentinel => Settled(thread'[s])
                       /\ thread'[v].pc = "wait" => port.xSingleThreadMutex \in {None, s}
      <3>1. thread[v].making # None /\ thread'[v].making = thread[v].making /\ thread'[v].pc = thread[v].pc
        BY <1>14, <2>3
      <3>2. /\ thread[v].making <= handles
            /\ \A i \in Threads : pxThreads[i].hTask # thread[v].making
            /\ thread[v].pc = "create" => \E i \in Threads : thread[i].pc = "none"
            /\ thread[v].pc # "create" =>
                  /\ pxThreads[s].hTask = None /\ thread[s].code = thread[v].making
                  /\ thread[s].pc \in {"start", "suspend", "kill", "spin"}
                  /\ ~ Active(thread[s])
                  /\ thread[v].pc # "wait" \/ port.xSentinel => Settled(thread[s])
                  /\ thread[v].pc = "wait" => port.xSingleThreadMutex \in {None, s}
        BY <2>1, <3>1 DEF PortIInv, Made
      <3> QED BY <1>14, <2>2, <3>1, <3>2
    <2>4. ASSUME NEW v \in Threads, thread'[v].pc = "start"
          PROVE  s = v /\ \E r \in Threads : thread'[r].pc = "wait"
      BY <1>14, <2>1, <2>4 DEF PortIInv, Made
    <2> QED BY <1>12, <2>1, <2>3, <2>4 DEF Made
  <1>25. Cancelled'
    <2>1. ASSUME NEW v \in Threads, thread'[v].cancelled
          PROVE  /\ Parked(thread'[v]) /\ pxThreads[v].hTask # None /\ pxThreads[v].hTask \notin readied'
      <3>1. CASE v = u
        BY <1>4, <1>5, <1>8, <1>11, <1>12, <1>13, <3>1
      <3>2. CASE v # u
        BY <1>11, <1>12, <2>1, <3>2 DEF PortIInv, Cancelled
      <3> QED BY <3>1, <3>2
    <2> QED BY <1>12, <2>1 DEF Cancelled
  <1> QED BY <1>16, <1>17, <1>18, <1>19, <1>20, <1>21, <1>22, <1>23, <1>24, <1>25 DEF PortIInv

(* No task is deleted while it waits in a critical section.                 *)
DeletedOutside == \A t \in Threads : thread[t].cancelled => pxThreads[t].uxCriticalNesting = 0

(* The thread of a deleted task ends.                                       *)
LEMMA DeleteThreadKeeps ==
    ASSUME PortIInv, DeletedOutside, NEW t \in Threads, prvDeleteThread(t), cast' = cast PROVE PortIInv'
  <1>1. PICK x, z : x = thread[t] /\ z = NoThread
    OBVIOUS
  <1>2. /\ x.cancelled /\ Parked(x) /\ pxThreads[t].hTask # None /\ pxThreads[t].hTask \notin readied
        /\ pxThreads[t].uxCriticalNesting = 0
    BY <1>1 DEF prvDeleteThread, DeletedOutside, PortIInv, Cancelled
  <1>3. /\ thread \in [Threads -> ThreadRecord] /\ x \in ThreadRecord /\ Coherent(t, x)
        /\ pxThreads \in [Threads -> [hTask : Nat, uxCriticalNesting : Nat]]
        /\ cast \in Casts
    BY <1>1 DEF PortIInv, PortTypes, AllCoherent
  <1>4. x.handler = "sigwait" /\ x.pc \in Resting /\ "SUSPEND" \notin x.signals
    BY <1>2, <1>3 DEF Parked, Coherent
  <1>5. ~ Active(x) /\ ~ Holds(x)
    BY <1>2, <1>4 DEF Active, Holds, Giving, Leaving, Resting
  <1>6. /\ z \in ThreadRecord /\ z.pc = "none" /\ z.handler = "none" /\ z.signals = {} /\ z.own = 0
        /\ z.making = None /\ ~ z.cancelled /\ z.ret = "task"
    BY <1>1 DEF NoThread, Thread, ThreadRecord, Places, HandlerPlaces, None
  <1>7. ~ Active(z) /\ ~ Holds(z) /\ Nesting(z) = 0
    BY <1>6 DEF Active, Holds, Giving, Leaving, Nesting
  <1>8. /\ thread' = [thread EXCEPT ![t] = z] /\ thread' \in [Threads -> ThreadRecord]
        /\ thread'[t] = z /\ \A v \in Threads : v # t => thread'[v] = thread[v]
    <2>1. thread' = [thread EXCEPT ![t] = z]
      BY <1>1 DEF prvDeleteThread
    <2> QED BY <1>3, <1>6, <2>1
  <1>9. /\ pxThreads' \in [Threads -> [hTask : Nat, uxCriticalNesting : Nat]]
        /\ pxThreads'[t].hTask = None /\ pxThreads'[t].uxCriticalNesting = 0
        /\ \A v \in Threads : v # t => pxThreads'[v] = pxThreads[v]
    <2>1. pxThreads' = [pxThreads EXCEPT ![t] = [hTask |-> None, uxCriticalNesting |-> 0]]
      BY DEF prvDeleteThread
    <2>2. None \in Nat
      BY DEF None
    <2> QED BY <1>3, <2>1, <2>2
  <1>10. /\ port' = port /\ current' = current /\ readied' = readied /\ handles' = handles
    BY <1>2 DEF prvDeleteThread, kernel
  <1>11. \A v \in Threads : (Active(thread'[v]) <=> Active(thread[v])) /\ (Holds(thread'[v]) <=> Holds(thread[v]))
    BY <1>1, <1>5, <1>7, <1>8
  <1>12. PortTypes'
    BY <1>8, <1>9, <1>10 DEF PortIInv, PortTypes
  <1>13. AllCoherent'
    <2>1. \A v \in Threads : Coherent(v, thread[v])' <=> Coherent(v, thread'[v])
      BY DEF Coherent
    <2>2. Coherent(t, z)
      <3>1. "none" \notin Fenced \cup Resting \cup Making \cup Turning /\ cast.nesting \in Nat
        BY <1>3, PortAssumption DEF Fenced, Resting, Making, Turning
      <3> QED BY <1>6, <3>1 DEF Coherent
    <2> QED BY <1>8, <2>1, <2>2 DEF PortIInv, AllCoherent
  <1>14. OneActive'
    BY <1>11 DEF PortIInv, OneActive
  <1>15. MutexHeld'
    BY <1>10, <1>11 DEF PortIInv, MutexHeld
  <1>16. Mapped'
    <2>1. current' \in readied' /\ None \notin readied'
      BY <1>10 DEF PortIInv, Mapped
    <2>2. ASSUME NEW g \in readied' PROVE \E i \in Threads : pxThreads'[i].hTask = g
      <3>1. PICK i \in Threads : pxThreads[i].hTask = g
        BY <1>10, <2>2 DEF PortIInv, Mapped
      <3>2. i # t
        BY <1>2, <1>10, <2>2, <3>1
      <3> QED BY <1>9, <3>1, <3>2
    <2>3. ASSUME NEW i \in Threads, pxThreads'[i].hTask # None
          PROVE  /\ thread'[i].pc \notin {"none", "start"} /\ thread'[i].code = pxThreads'[i].hTask
                 /\ pxThreads'[i].hTask <= handles'
      <3>1. i # t
        BY <1>9, <2>3
      <3> QED BY <1>8, <1>9, <1>10, <2>3, <3>1 DEF PortIInv, Mapped
    <2>4. ASSUME NEW i \in Threads, NEW j \in Threads,
                 pxThreads'[i].hTask = pxThreads'[j].hTask, pxThreads'[i].hTask # None
          PROVE  i = j
      <3>1. i # t /\ j # t
        BY <1>9, <2>4
      <3> QED BY <1>9, <2>4, <3>1 DEF PortIInv, Mapped
    <2> QED BY <2>1, <2>2, <2>3, <2>4 DEF Mapped
  <1>17. InTurn'
    <2>1. ASSUME NEW v \in Threads, Active(thread'[v])
          PROVE  IF Giving(thread'[v])
                 THEN /\ pxThreads'[v].uxCriticalNesting = Nesting(thread'[v])
                      /\ \E u \in Threads :
                            /\ thread'[v].to = u /\ Parked(thread'[u]) /\ pxThreads'[u].hTask = current
                            /\ port.uxCriticalNesting = pxThreads'[u].uxCriticalNesting
                 ELSE pxThreads'[v].hTask = current /\ port.uxCriticalNesting = Nesting(thread'[v])
      <3>1. v # t /\ Active(thread[v])
        BY <1>7, <1>8, <1>11, <2>1
      <3>2. thread'[v] = thread[v] /\ pxThreads'[v] = pxThreads[v]
        BY <1>8, <1>9, <3>1
      <3>3. CASE Giving(thread[v])
        <4>1. pxThreads[v].uxCriticalNesting = Nesting(thread[v])
          BY <3>1, <3>3 DEF PortIInv, InTurn
        <4>2. PICK u \in Threads :
                 /\ thread[v].to = u /\ Parked(thread[u]) /\ pxThreads[u].hTask = current
                 /\ port.uxCriticalNesting = pxThreads[u].uxCriticalNesting
          BY <3>1, <3>3 DEF PortIInv, InTurn
        <4>3. u # t
          BY <1>2, <4>2 DEF PortIInv, Mapped
        <4>4. thread'[u] = thread[u] /\ pxThreads'[u] = pxThreads[u]
          BY <1>8, <1>9, <4>3
        <4> QED BY <3>2, <3>3, <4>1, <4>2, <4>4
      <3>4. CASE ~ Giving(thread[v])
        BY <3>1, <3>2, <3>4 DEF PortIInv, InTurn
      <3> QED BY <3>3, <3>4
    <2> QED BY <1>10, <2>1 DEF InTurn
  <1>18. Saved'
    <2>1. ASSUME NEW v \in Threads, ~ Active(thread'[v])
          PROVE  pxThreads'[v].uxCriticalNesting = Nesting(thread'[v])
      <3>1. CASE v = t
        BY <1>7, <1>8, <1>9, <3>1
      <3>2. CASE v # t
        BY <1>8, <1>9, <2>1, <3>2 DEF PortIInv, Saved
      <3> QED BY <3>1, <3>2
    <2> QED BY <2>1 DEF Saved
  <1>19. Disabled'
    <2>1. ASSUME NEW v \in Threads
          PROVE  /\ thread'[v].pc \in Fenced => ~ port.xInterruptsEnabled
                 /\ Active(thread'[v]) /\ ~ Giving(thread'[v]) /\ thread'[v].own > 0 =>
                       /\ thread'[v].handler # "enable"
                       /\ thread'[v].handler \notin {"sigwait", "disable"} => ~ port.xInterruptsEnabled
      <3>1. CASE v = t
        BY <1>6, <1>7, <1>8, <3>1 DEF Fenced
      <3>2. CASE v # t
        BY <1>8, <3>2 DEF PortIInv, Disabled
      <3> QED BY <3>1, <3>2
    <2> QED BY <1>10, <2>1 DEF Disabled
  <1>20. Made'
    <2>1. PICK s : s = port.lIndexOfLastAddedTask
      OBVIOUS
    <2>2. s \in Threads
      BY <2>1 DEF PortIInv, PortTypes, PortRecord
    <2>3. ASSUME NEW v \in Threads, thread'[v].making # None
          PROVE  /\ thread'[v].making <= handles
                 /\ \A i \in Threads : pxThreads'[i].hTask # thread'[v].making
                 /\ thread'[v].pc = "create" => \E i \in Threads : thread'[i].pc = "none"
                 /\ thread'[v].pc # "create" =>
                       /\ pxThreads'[s].hTask = None /\ thread'[s].code = thread'[v].making
                       /\ thread'[s].pc \in {"start", "suspend", "kill", "spin"}
                       /\ ~ Active(thread'[s])
                       /\ thread'[v].pc # "wait" \/ port.xSentinel => Settled(thread'[s])
                       /\ thread'[v].pc = "wait" => port.xSingleThreadMutex \in {None, s}
      <3>1. v # t /\ thread'[v] = thread[v] /\ thread[v].making # None
        BY <1>6, <1>8, <2>3
      <3>2. /\ thread[v].making <= handles
            /\ \A i \in Threads : pxThreads[i].hTask # thread[v].making
            /\ thread[v].pc # "create" =>
                  /\ pxThreads[s].hTask = None /\ thread[s].code = thread[v].making
                  /\ thread[s].pc \in {"start", "suspend", "kill", "spin"}
                  /\ ~ Active(thread[s])
                  /\ thread[v].pc # "wait" \/ port.xSentinel => Settled(thread[s])
                  /\ thread[v].pc = "wait" => port.xSingleThreadMutex \in {None, s}
        BY <2>1, <3>1 DEF PortIInv, Made
      <3>3. \A i \in Threads : pxThreads'[i].hTask # thread'[v].making
        BY <1>9, <3>1, <3>2
      <3>4. thread'[v].pc = "create" => \E i \in Threads : thread'[i].pc = "none"
        BY <1>6, <1>8
      <3>5. ASSUME thread'[v].pc # "create"
            PROVE  thread'[s] = thread[s] /\ pxThreads'[s] = pxThreads[s]
        <4>1. pxThreads[s].hTask = None
          BY <3>1, <3>2, <3>5
        <4>2. s # t
          BY <1>2, <4>1
        <4> QED BY <1>8, <1>9, <2>2, <4>2
      <3> QED BY <3>1, <3>2, <3>3, <3>4, <3>5
    <2>4. ASSUME NEW v \in Threads, thread'[v].pc = "start"
          PROVE  s = v /\ \E r \in Threads : thread'[r].pc = "wait"
      <3>1. v # t /\ thread[v].pc = "start"
        BY <1>6, <1>8, <2>4
      <3>2. PICK r \in Threads : s = v /\ thread[r].pc = "wait"
        BY <2>1, <3>1 DEF PortIInv, Made
      <3>3. r # t
        BY <1>1, <1>4, <3>2 DEF Resting
      <3> QED BY <1>8, <3>2, <3>3
    <2> QED BY <1>10, <2>1, <2>3, <2>4 DEF Made
  <1>21. Cancelled'
    <2>1. ASSUME NEW v \in Threads, thread'[v].cancelled
          PROVE  v # t /\ thread'[v] = thread[v] /\ pxThreads'[v] = pxThreads[v]
      BY <1>6, <1>8, <1>9, <2>1
    <2> QED BY <1>10, <2>1 DEF PortIInv, Cancelled
  <1> QED BY <1>12, <1>13, <1>14, <1>15, <1>16, <1>17, <1>18, <1>19, <1>20, <1>21 DEF PortIInv

LEMMA SpinKeeps ==
    ASSUME PortIInv, NEW t \in Threads, Spin(t), cast' = cast PROVE PortIInv'
  <1>1. At(t, "spin") /\ Goes(t, thread[t].ret) /\ UNCHANGED <<cast, port, pxThreads, kernel>>
    BY DEF Spin
  <1>2. "spin" \in {"yield", "spin"}
    OBVIOUS
  <1> QED BY <1>1, <1>2, ReturnsKeep

(* A task that does not end itself is nowhere in the code of one that does. *)
LEMMA NobodyEndsItself ==
    ASSUME PortIInv, cast.ending = {}, NEW t \in Threads
    PROVE  ~ (EndSelf(t) \/ EndResumes(t) \/ EndResets(t) \/ EndEnables(t) \/ EndUnlocks(t))
  <1>1. thread[t].pc \in Places
    BY DEF PortIInv, PortTypes, ThreadRecord
  <1>2. {"end resume", "end reset", "end enable", "end unlock"} \cap Places = {}
    BY DEF Places, Fenced, Resting, Turning
  <1> QED BY <1>1, <1>2 DEF EndSelf, EndResumes, EndResets, EndEnables, EndUnlocks, At

LEMMA PortStepKeeps ==
    ASSUME PortIInv, cast.ending = {}, DeletedOutside, OneCreates, [PortNext]_portVars
    PROVE  PortIInv'
  <1>1. CASE UNCHANGED portVars
    <2>1. UNCHANGED <<cast, port, pxThreads, thread, current, readied, handles>>
      BY <1>1 DEF portVars, kernel
    <2>2. PortTypes' /\ AllCoherent'
      BY <2>1, ZenonT(60) DEF PortIInv, PortTypes, AllCoherent, Coherent
    <2>3. OneActive' /\ MutexHeld' /\ Mapped'
      BY <2>1 DEF PortIInv, OneActive, MutexHeld, Mapped
    <2>4. InTurn' /\ Saved' /\ Disabled'
      BY <2>1 DEF PortIInv, InTurn, Saved, Disabled
    <2>5. Made' /\ Cancelled'
      BY <2>1 DEF PortIInv, Made, Cancelled
    <2> QED BY <2>2, <2>3, <2>4, <2>5 DEF PortIInv
  <1>2. CASE PortNext
    <2>1. PICK t \in Threads : TaskCalls(t) \/ PortCode(t) \/ Handlers(t) \/ TickArrives(t)
      BY <1>2 DEF PortNext
    <2>2. cast' = cast
      BY <1>2 DEF PortNext
    <2>3. CASE TaskCalls(t)
      <3>1. CASE EnterCritical(t) \/ ExitCritical(t)
        BY <2>2, <3>1, EnterKeeps, ExitKeeps
      <3>2. CASE CallYield(t) \/ xTaskCreate(t)
        BY <2>2, <3>2, CallYieldKeeps, TaskCreateKeeps
      <3>3. CASE \E h \in readied : EndOther(t, h)
        BY <2>2, <3>3, EndOtherKeeps
      <3> QED BY <2>3, <3>1, <3>2, <3>3, NobodyEndsItself DEF TaskCalls
    <2>4. CASE PortCode(t)
      <3>1. CASE CountEntry(t) \/ PendedYield(t) \/ EnableInterrupts(t)
        BY <2>2, <3>1, CountKeeps, PendedKeeps, EnableKeeps
      <3>2. CASE vPortYield(t) \/ prvResumeThread(t) \/ prvSuspendThread(t)
        BY <2>2, <3>2, YieldKeeps, ResumeThreadKeeps, SuspendThreadKeeps
      <3>3. CASE KillSelf(t) \/ Spin(t)
        BY <2>2, <3>3, KillKeeps, SpinKeeps
      <3>4. CASE CreateThread(t) \/ prvWaitForStart(t) \/ ThreadCreated(t)
        BY <2>2, <3>4, CreateThreadKeeps, WaitForStartKeeps, ThreadCreatedKeeps
      <3>5. CASE AddNewTask(t) \/ vPortAddTaskHandle(t)
        BY <2>2, <3>5, AddNewKeeps, AddTaskHandleKeeps
      <3>6. CASE prvDeleteThread(t)
        BY <2>2, <3>6, DeleteThreadKeeps
      <3> QED BY <2>4, <3>1, <3>2, <3>3, <3>4, <3>5, <3>6, NobodyEndsItself DEF PortCode
    <2>5. CASE Handlers(t)
      <3>1. CASE SuspendSignal(t) \/ Unlock(t)
        BY <2>2, <3>1, SuspendSignalKeeps, UnlockKeeps
      <3>2. CASE SigWait(t) \/ Restore(t)
        BY <2>2, <3>2, SigWaitKeeps, RestoreKeeps
      <3>3. CASE TickLocks(t) \/ TickResumes(t)
        BY <2>2, <3>3, TickLocksKeeps, TickResumesKeeps
      <3>4. CASE TickSuspends(t) \/ TickUnlocks(t) \/ TickDone(t)
        BY <2>2, <3>4, TickSuspendsKeeps, TickUnlocksKeeps, TickDoneKeeps
      <3> QED BY <2>5, <3>1, <3>2, <3>3, <3>4 DEF Handlers
    <2>6. CASE TickArrives(t)
      BY <2>2, <2>6, TickArrivesKeeps
    <2> QED BY <2>1, <2>3, <2>4, <2>5, <2>6
  <1> QED BY <1>1, <1>2

(* The scheduler starts the first of the tasks made so far.                 *)
LEMMA PortStarts ==
    ASSUME PortInit PROVE PortIInv
  <1>1. /\ cast \in Casts /\ cast.first \in Nat /\ 1 \in Threads /\ 1 <= cast.first
        /\ cast.first \in Threads /\ cast.nesting \in Nat
        /\ \A i \in Threads : i \in Nat /\ i # None
    BY PortAssumption DEF PortInit, Threads, None
  <1>2. /\ thread \in [Threads -> ThreadRecord]
        /\ \A i \in Threads :
              /\ thread[i].own = 0 /\ thread[i].making = None /\ ~ thread[i].cancelled
              /\ thread[i].ret = "task" /\ thread[i].handler \in {"none", "sigwait"}
        /\ \A i \in Threads : i <= cast.first =>
              /\ thread[i].pc = "spin" /\ thread[i].handler = "sigwait" /\ thread[i].code = i
              /\ thread[i].signals = IF i = 1 THEN {"RESUME"} ELSE {}
        /\ \A i \in Threads : ~ (i <= cast.first) =>
              thread[i].pc = "none" /\ thread[i].handler = "none" /\ thread[i].signals = {}
    <2>1. thread = [i \in Threads |->
                      IF i > cast.first THEN NoThread
                      ELSE Thread("spin", "sigwait", IF i = 1 THEN {"RESUME"} ELSE {}, i)]
      BY DEF PortInit
    <2>2. \A i \in Threads : i > cast.first <=> ~ (i <= cast.first)
      BY <1>1
    <2>3. "spin" \in Places /\ "none" \in Places /\ {"none", "sigwait"} \subseteq HandlerPlaces /\ None \in Nat
      BY DEF Places, Resting, HandlerPlaces, None
    <2>4. ASSUME NEW i \in Threads, i <= cast.first
          PROVE  /\ thread[i] \in ThreadRecord
                 /\ thread[i].own = 0 /\ thread[i].making = None /\ ~ thread[i].cancelled
                 /\ thread[i].ret = "task"
                 /\ thread[i].pc = "spin" /\ thread[i].handler = "sigwait" /\ thread[i].code = i
                 /\ thread[i].signals = IF i = 1 THEN {"RESUME"} ELSE {}
      <3>1. PICK S : S = IF i = 1 THEN {"RESUME"} ELSE {}
        OBVIOUS
      <3>2. thread[i] = Thread("spin", "sigwait", S, i) /\ S \in SUBSET {"SUSPEND", "RESUME"}
        BY <2>1, <2>2, <2>4, <3>1
      <3> QED BY <1>1, <2>3, <3>1, <3>2 DEF Thread, ThreadRecord
    <2>5. ASSUME NEW i \in Threads, ~ (i <= cast.first)
          PROVE  /\ thread[i] \in ThreadRecord
                 /\ thread[i].own = 0 /\ thread[i].making = None /\ ~ thread[i].cancelled
                 /\ thread[i].ret = "task"
                 /\ thread[i].pc = "none" /\ thread[i].handler = "none" /\ thread[i].signals = {}
      <3>1. thread[i] = NoThread
        BY <2>1, <2>2, <2>5
      <3> QED BY <2>3, <3>1 DEF NoThread, Thread, ThreadRecord
    <2>6. \A i \in Threads : thread[i] \in ThreadRecord
      BY <2>4, <2>5
    <2>7. thread \in [Threads -> ThreadRecord]
      BY <2>1, <2>6
    <2> QED BY <2>4, <2>5, <2>7
  <1>3. /\ pxThreads \in [Threads -> [hTask : Nat, uxCriticalNesting : Nat]]
        /\ \A i \in Threads : /\ pxThreads[i].hTask = IF i <= cast.first THEN i ELSE None
                              /\ pxThreads[i].uxCriticalNesting = 0
    <2>1. pxThreads = [i \in Threads |-> [hTask |-> IF i <= cast.first THEN i ELSE None,
                                          uxCriticalNesting |-> 0]]
      BY DEF PortInit
    <2>2. \A i \in Threads : (IF i <= cast.first THEN i ELSE None) \in Nat
      BY <1>1 DEF None
    <2> QED BY <2>1, <2>2
  <1>4. /\ port \in PortRecord /\ port.xSingleThreadMutex = None /\ port.uxCriticalNesting = 0
        /\ current = 1 /\ readied = 1..cast.first /\ handles = cast.first
    BY <1>1 DEF PortInit, PortRecord
  <1>5. \A i \in Threads :
           /\ ~ Leaving(thread[i]) /\ ~ Giving(thread[i]) /\ ~ Holds(thread[i])
           /\ Nesting(thread[i]) = 0
           /\ Active(thread[i]) <=> i = 1
    <2>1. ASSUME NEW i \in Threads
          PROVE  /\ thread[i].pc \in {"none", "spin"}
                 /\ thread[i].handler \in {"none", "sigwait"} /\ "SUSPEND" \notin thread[i].signals
                 /\ thread[i].own = 0
      BY <1>2
    <2>2. ASSUME NEW i \in Threads
          PROVE  /\ ~ Leaving(thread[i]) /\ ~ Giving(thread[i]) /\ ~ Holds(thread[i])
                 /\ Nesting(thread[i]) = 0
      <3>1. PICK x : x = thread[i]
        OBVIOUS
      <3>2. /\ x.pc \in {"none", "spin"} /\ x.handler \in {"none", "sigwait"}
            /\ "SUSPEND" \notin x.signals /\ x.own = 0
        BY <2>1, <3>1
      <3>3. x.pc \notin {"suspend", "kill", "resume", "wait"}
        BY <3>2
      <3>4. x.handler \notin {"tick suspend", "unlock", "tick resume", "tick unlock"}
        BY <3>2
      <3>5. ~ Leaving(x) /\ ~ Giving(x) /\ ~ Holds(x)
        BY <3>2, <3>3, <3>4 DEF Leaving, Giving, Holds
      <3>6. Nesting(x) = 0
        BY <3>2, <3>3 DEF Nesting
      <3> QED BY <3>1, <3>5, <3>6
    <2>3. ASSUME NEW i \in Threads PROVE Active(thread[i]) <=> i = 1
      <3>1. CASE i = 1
        BY <1>1, <1>2, <2>2, <3>1 DEF Active, Parked
      <3>2. CASE i # 1 /\ i <= cast.first
        BY <1>2, <3>2 DEF Active, Parked
      <3>3. CASE ~ (i <= cast.first)
        BY <1>1, <1>2, <3>3 DEF Active
      <3> QED BY <3>1, <3>2, <3>3
    <2> QED BY <2>2, <2>3
  <1>6. PortTypes
    BY <1>1, <1>2, <1>3, <1>4 DEF PortTypes
  <1>7. AllCoherent
    <2>1. ASSUME NEW i \in Threads PROVE Coherent(i, thread[i])
      <3>1. CASE i <= cast.first
        <4>1. "spin" \in Resting /\ "spin" \notin Fenced \cup Turning \cup Making
          BY DEF Fenced, Resting, Turning, Making
        <4>2. PICK x : x = thread[i]
          OBVIOUS
        <4>3. /\ x.pc = "spin" /\ x.handler = "sigwait" /\ x.own = 0 /\ x.making = None
              /\ x.ret = "task" /\ "SUSPEND" \notin x.signals
          BY <1>2, <3>1, <4>2
        <4>4. x.own <= cast.nesting + 1
          BY <1>1, <4>3
        <4> QED BY <4>1, <4>2, <4>3, <4>4 DEF Coherent
      <3>2. CASE ~ (i <= cast.first)
        <4>1. "none" \notin Fenced \cup Turning \cup Making
          BY DEF Fenced, Turning, Making
        <4>2. PICK x : x = thread[i]
          OBVIOUS
        <4>3. /\ x.pc = "none" /\ x.handler = "none" /\ x.own = 0 /\ x.making = None
              /\ x.ret = "task" /\ x.signals = {} /\ ~ x.cancelled
          BY <1>2, <3>2, <4>2
        <4>4. x.own <= cast.nesting + 1
          BY <1>1, <4>3
        <4> QED BY <4>1, <4>2, <4>3, <4>4 DEF Coherent
      <3> QED BY <3>1, <3>2
    <2> QED BY <2>1 DEF AllCoherent
  <1>8. OneActive
    BY <1>1, <1>5 DEF OneActive
  <1>9. MutexHeld
    BY <1>1, <1>4, <1>5 DEF MutexHeld
  <1>10. Mapped
    <2>1. \A h \in readied : h \in Threads /\ h <= cast.first /\ h # None
      BY <1>1, <1>4, PortAssumption DEF Threads, None
    <2>2. \A h \in readied : \E i \in Threads : pxThreads[i].hTask = h
      BY <1>3, <2>1
    <2>3. current \in readied /\ None \notin readied
      BY <1>1, <1>4, <2>1
    <2>4. \A i \in Threads : pxThreads[i].hTask # None =>
             i <= cast.first /\ pxThreads[i].hTask = i
      BY <1>3
    <2>5. \A i \in Threads : pxThreads[i].hTask # None =>
             /\ thread[i].pc \notin {"none", "start"} /\ thread[i].code = pxThreads[i].hTask
             /\ pxThreads[i].hTask <= handles
      BY <1>2, <1>4, <2>4
    <2>6. \A i, j \in Threads :
             pxThreads[i].hTask = pxThreads[j].hTask /\ pxThreads[i].hTask # None => i = j
      BY <2>4
    <2> QED BY <2>2, <2>3, <2>5, <2>6 DEF Mapped
  <1>11. InTurn
    BY <1>1, <1>3, <1>4, <1>5 DEF InTurn
  <1>12. Saved
    BY <1>3, <1>5 DEF Saved
  <1>13. Disabled
    <2>1. \A i \in Threads : thread[i].pc \notin Fenced
      BY <1>2 DEF Fenced
    <2> QED BY <1>2, <2>1 DEF Disabled
  <1>14. Made
    BY <1>2 DEF Made
  <1>15. Cancelled
    BY <1>2 DEF Cancelled
  <1> QED BY <1>6, <1>7, <1>8, <1>9, <1>10, <1>11, <1>12, <1>13, <1>14, <1>15 DEF PortIInv

LEMMA NestingBounded ==
    ASSUME PortIInv, NEW t \in Threads
    PROVE  Nesting(thread[t]) \in 0..cast.nesting + 1
  <1>1. PICK x : x = thread[t]
    OBVIOUS
  <1>2. x \in ThreadRecord /\ Coherent(t, x) /\ cast.nesting \in Nat /\ x.own \in Nat
    BY <1>1, PortAssumption DEF PortIInv, PortTypes, AllCoherent, ThreadRecord
  <1>3. x.own <= cast.nesting + 1 /\ (x.pc = "wait" => x.own = 0)
    BY <1>2 DEF Coherent, Making
  <1> QED BY <1>1, <1>2, <1>3 DEF Nesting

(* The critical sections of the task that runs exclude the tick, also after *)
(* others were deleted.                                                     *)
SectionsExclude ==
    cast.ending = {} =>
        \A t \in Threads : At(t, "task") /\ thread[t].own > 0 =>
            ~ port.xInterruptsEnabled /\ port.uxCriticalNesting = thread[t].own

LEMMA RunsAlone ==
    ASSUME PortIInv PROVE TasksRunAlone /\ SectionsExclude
  <1>1. PortTypeOK
    <2>1. PICK t \in Threads : Active(thread[t])
      BY DEF PortIInv, OneActive
    <2>2. \E u \in Threads : port.uxCriticalNesting = Nesting(thread[u])
      <3>1. CASE Giving(thread[t])
        <4>1. PICK u \in Threads : /\ Parked(thread[u])
                                   /\ port.uxCriticalNesting = pxThreads[u].uxCriticalNesting
          BY <2>1, <3>1 DEF PortIInv, InTurn
        <4>2. pxThreads[u].uxCriticalNesting = Nesting(thread[u])
          BY <4>1 DEF PortIInv, Saved, Active
        <4> QED BY <4>1, <4>2
      <3>2. CASE ~ Giving(thread[t])
        BY <2>1, <3>2 DEF PortIInv, InTurn
      <3> QED BY <3>1, <3>2
    <2>3. port.uxCriticalNesting \in 0..cast.nesting + 1
      BY <2>2, NestingBounded
    <2>4. port.xSingleThreadMutex \in 0..MAX_NUMBER_OF_TASKS
      BY PortAssumption DEF PortIInv, PortTypes, PortRecord, Threads, None
    <2>5. \A i \in Threads : thread[i].signals \subseteq {"SUSPEND", "RESUME"}
      BY DEF PortIInv, PortTypes, ThreadRecord
    <2> QED BY <2>3, <2>4, <2>5 DEF PortTypeOK
  <1>2. ASSUME NEW t \in Threads, Runs(t)
        PROVE  /\ thread[t].code = current
               /\ \A u \in Threads : Runs(u) => u = t
               /\ At(t, "task") /\ thread[t].own > 0 =>
                     ~ port.xInterruptsEnabled /\ port.uxCriticalNesting = thread[t].own
    <2>1. TaskCode \subseteq Fenced \cup Resting
      BY DEF TaskCode, Fenced, Resting
    <2>2. PICK pc \in Fenced \cup Resting : At(t, pc)
      BY <1>2, <2>1 DEF Runs
    <2>3. PICK x : x = thread[t]
      OBVIOUS
    <2>4. /\ x.own > 0 \/ pc \in Fenced => ~ port.xInterruptsEnabled
          /\ pxThreads[t].hTask = current /\ port.uxCriticalNesting = Nesting(x)
          /\ x \in ThreadRecord /\ \A u \in Threads : Active(thread[u]) => u = t
      BY <2>2, <2>3, CodeFacts
    <2>5. thread[t].code = current
      <3>1. current # None
        BY DEF PortIInv, Mapped
      <3> QED BY <2>4, <3>1 DEF PortIInv, Mapped
    <2>6. ASSUME NEW u \in Threads, Runs(u) PROVE u = t
      <3>1. PICK q \in Fenced \cup Resting : At(u, q)
        BY <2>1, <2>6 DEF Runs
      <3>2. Active(thread[u])
        BY <3>1, CodeIsActive
      <3> QED BY <2>4, <3>2
    <2>7. At(t, "task") => Nesting(x) = x.own
      BY <2>3, <2>4 DEF At, Nesting, ThreadRecord
    <2> QED BY <2>3, <2>4, <2>5, <2>6, <2>7
  <1>3. TasksRunAlone
    BY <1>1, <1>2 DEF TasksRunAlone
  <1>4. SectionsExclude
    BY <1>2 DEF SectionsExclude, Runs, TaskCode
  <1> QED BY <1>3, <1>4

(* Signals, switches and ticks never let the code of two tasks run, nor     *)
(* that of another task than the current one, for any number of threads, of *)
(* tasks that create others and of nested critical sections, as long as no  *)
(* task ends itself: what vPortSystemTickHandler and vPortYield are made    *)
(* for (port.c:320, port.c:409).  Tasks are deleted while they are in no    *)
(* critical section, or prvDeleteThread would enable the interrupts, and    *)
(* one creates at a time, or lIndexOfLastAddedTask would be another's.      *)
THEOREM TasksAlwaysRunAlone ==
    PortSpec /\ [](DeletedOutside /\ OneCreates) => [](TasksRunAlone /\ SectionsExclude)
  <1> DEFINE Ind == cast.ending # {} \/ PortIInv
  <1>1. PortInit => Ind
    BY PortStarts
  <1>2. Ind /\ (DeletedOutside /\ OneCreates) /\ [PortNext]_portVars => Ind'
    <2>1. [PortNext]_portVars => cast' = cast
      BY DEF PortNext, portVars
    <2> QED BY <2>1, PortStepKeeps
  <1>3. Ind => TasksRunAlone /\ SectionsExclude
    BY RunsAlone DEF TasksRunAlone, SectionsExclude
  <1> QED BY <1>1, <1>2, <1>3, PTL DEF PortSpec
=============================================================================
