---------------------------- MODULE QueueProofs -----------------------------
(* Machine-checked facts about Queue, for any number of tasks, any lengths  *)
(* of queue and any programs.                                               *)
EXTENDS Queue, SequenceProofs

Snd == Range(xTasksWaitingToSend)
Rcv == Range(xTasksWaitingToReceive)
Pnd == Range(xPendingReadyList)
Listed == Snd \cup Rcv \cup Pnd

CountsTyped ==
    /\ uxMessagesWaiting \in 0..uxLength
    /\ cTxLock \in (-LockMax - 1)..LockMax
    /\ cRxLock \in (-LockMax - 1)..LockMax
    /\ suspender \in Tasks \cup {Nobody}
    /\ uxPendedTicks \in 0..MaxPended

Places == {"out", "gaveUp", "enter", "try", "failed", "suspended", "locked",
           "check", "place", "unlockTx", "unlockRx", "resume", "recheck",
           "abortCheck", "abortWake"}

CallsTyped ==
    /\ pc \in [Tasks -> Places]
    /\ kind \in [Tasks -> Kinds \cup {"none", "abort"}]
    /\ goal \in [Tasks -> {"none", "block", "retry", "expire", "abort"}]
    /\ ucDelayAborted \in [Tasks -> BOOLEAN]
    /\ target \in [Tasks -> Tasks \cup {Nobody}]

TimesTyped ==
    /\ xTicksToWait \in [Tasks -> 0..MaxDelay]
    /\ elapsed \in [Tasks -> 0..MaxDelay]
    /\ asked \in [Tasks -> 0..MaxDelay]
    /\ waited \in [Tasks -> 0..MaxDelay]

(* The event lists and the pending-ready list hold a task once at most, and *)
(* every blocked task.                                                      *)
ListsSound ==
    /\ xTasksWaitingToSend \in Seq(Tasks) /\ IsInjective(xTasksWaitingToSend)
    /\ xTasksWaitingToReceive \in Seq(Tasks)
    /\ IsInjective(xTasksWaitingToReceive)
    /\ xPendingReadyList \in Seq(Tasks) /\ IsInjective(xPendingReadyList)
    /\ Snd \cap Rcv = {} /\ Snd \cap Pnd = {} /\ Rcv \cap Pnd = {}
    /\ blocked \subseteq Listed
    /\ left \in [Tasks -> 0..MaxDelay]

(* Where a task is in its call: what it is there for.                       *)
CallSound(t) ==
    /\ pc[t] \in Exclusive <=> suspender = t
    /\ pc[t] \in {"unlockTx", "unlockRx"} =>
            goal[t] \in {"block", "retry", "expire"}
    /\ pc[t] = "resume" => /\ goal[t] \in {"block", "retry", "expire", "abort"}
                           /\ goal[t] = "abort" <=> kind[t] = "abort"
                           /\ kind[t] \in Kinds \cup {"abort"}
    /\ pc[t] \in {"abortCheck", "abortWake"} =>
            kind[t] = "abort" /\ target[t] \in Tasks
    /\ pc[t] = "abortWake" => goal[t] = "abort" /\ target[t] \notin blocked
    /\ pc[t] \in Places \ {"out", "gaveUp", "resume", "abortCheck", "abortWake"}
            => kind[t] \in Kinds
    /\ pc[t] = "place" => kind[t] # "overwrite"

(* A task on a list sleeps in its loop, or is about to: the task that put   *)
(* itself on the list still unlocks the queue.                              *)
WaiterSound(t) ==
    /\ pc[t] = "try" \/ (/\ pc[t] \in {"unlockTx", "unlockRx", "resume"}
                         /\ goal[t] = "block")
    /\ t \in Snd => kind[t] = "send"
    /\ t \in Rcv => kind[t] \in {"receive", "peek"}

(* A listed task that is not blocked is the one whose delay is being        *)
(* aborted.                                                                 *)
AbortSound ==
    \A t \in Listed \ blocked :
        suspender \in Tasks /\ pc[suspender] = "abortWake" /\ target[suspender] = t

(* The queue is locked between prvLockQueue and prvUnlockQueue, and what is *)
(* pending is so while the scheduler is suspended.                          *)
LocksSound ==
    /\ cTxLock # queueUNLOCKED =>
          /\ suspender \in Tasks
          /\ pc[suspender] \in {"locked", "check", "place", "unlockTx"}
    /\ cRxLock # queueUNLOCKED =>
          /\ suspender \in Tasks
          /\ pc[suspender] \in {"locked", "check", "place", "unlockTx", "unlockRx"}
    /\ suspender = Nobody => xPendingReadyList = <<>> /\ uxPendedTicks = 0

Typed == CountsTyped /\ CallsTyped /\ TimesTyped
CallsSound == \A t \in Tasks : CallSound(t)
WaitersSound == \A t \in Listed : WaiterSound(t)

IInv == /\ program \in Programs
        /\ Typed /\ ListsSound
        /\ CallsSound /\ WaitersSound /\ AbortSound /\ LocksSound

-----------------------------------------------------------------------------
(* The lists: what each operation on them does to who is on which. *)

(* Tasks leave the lists, and whoever leaves the delayed lists leaves them  *)
(* as well.                                                                 *)
Shrinks == /\ Snd' \subseteq Snd /\ Rcv' \subseteq Rcv
           /\ Listed' \subseteq Listed /\ blocked' \subseteq blocked
           /\ Listed' \ blocked' \subseteq Listed \ blocked

LEMMA ListsStay ==
    ASSUME ListsSound, UNCHANGED <<listVars, left>>
    PROVE  ListsSound' /\ Shrinks
  BY DEF ListsSound, Shrinks, Listed, Snd, Rcv, Pnd, listVars

LEMMA RangeIn ==
    ASSUME NEW S, NEW q \in Seq(S)
    PROVE  Range(q) \subseteq S /\ (q = <<>> <=> Range(q) = {})
  <1>1. DOMAIN q = 1..Len(q) /\ Len(q) \in Nat /\ \A j \in 1..Len(q) : q[j] \in S
    OBVIOUS
  <1>2. Range(q) \subseteq S
    BY <1>1 DEF Range
  <1>3. ASSUME q # <<>> PROVE 1 \in DOMAIN q
    BY <1>1, <1>3
  <1> QED
    BY <1>1, <1>2, <1>3 DEF Range

(* The first of a list q that is not empty is woken.                        *)
LEMMA FirstIsWoken ==
    ASSUME ListsSound, NEW q, q \in {xTasksWaitingToSend, xTasksWaitingToReceive},
           q # <<>>, xTaskRemoveFromEventList(q)
    PROVE  /\ Head(q) \in Tasks /\ Head(q) \in Range(q)
           /\ Tail(q) \in Seq(Tasks) /\ IsInjective(Tail(q))
           /\ Range(Tail(q)) = Range(q) \ {Head(q)}
           /\ xPendingReadyList' \in Seq(Tasks) /\ IsInjective(xPendingReadyList')
           /\ left' \in [Tasks -> 0..MaxDelay]
           /\ \/ /\ suspender = Nobody /\ Pnd' = Pnd
                 /\ blocked' = blocked \ {Head(q)}
              \/ /\ suspender # Nobody /\ Pnd' = Pnd \cup {Head(q)}
                 /\ blocked' = blocked
  <1>1. q \in Seq(Tasks) /\ IsInjective(q) /\ Range(q) \cap Pnd = {}
    BY DEF ListsSound, Snd, Rcv
  <1>2. /\ Head(q) \in Tasks /\ Head(q) \in Range(q)
        /\ Tail(q) \in Seq(Tasks) /\ IsInjective(Tail(q))
        /\ Range(Tail(q)) = Range(q) \ {Head(q)}
    BY <1>1, TailFacts
  <1>3. CASE suspender = Nobody
    <2>1. 0 \in 0..MaxDelay
      BY WaitsAssumption
    <2> QED
      BY <1>2, <1>3, <2>1 DEF xTaskRemoveFromEventList, ListsSound, Pnd
  <1>4. CASE suspender # Nobody
    <2>1. xPendingReadyList' = Append(xPendingReadyList, Head(q)) /\ UNCHANGED <<blocked, left>>
      BY <1>4 DEF xTaskRemoveFromEventList
    <2>2. xPendingReadyList \in Seq(Tasks) /\ IsInjective(xPendingReadyList)
      BY DEF ListsSound
    <2>3. Head(q) \notin Range(xPendingReadyList)
      BY <1>1, <1>2 DEF Pnd
    <2> QED
      BY <1>2, <1>4, <2>1, <2>2, <2>3, AppendFacts DEF Pnd, ListsSound
  <1> QED
    BY <1>3, <1>4

LEMMA WakeReceiverFacts ==
    ASSUME ListsSound, WakeReceiver
    PROVE  ListsSound' /\ Shrinks
  <1>1. CASE xTasksWaitingToReceive = <<>>
    BY <1>1, ListsStay DEF WakeReceiver, listVars
  <1>2. CASE xTasksWaitingToReceive # <<>>
    <2> DEFINE q == xTasksWaitingToReceive
    <2>1. xTaskRemoveFromEventList(q) /\ xTasksWaitingToReceive' = Tail(q)
          /\ UNCHANGED xTasksWaitingToSend
      BY <1>2 DEF WakeReceiver
    <2>2. /\ Head(q) \in Rcv
          /\ Tail(q) \in Seq(Tasks) /\ IsInjective(Tail(q))
          /\ Rcv' = Rcv \ {Head(q)} /\ Snd' = Snd
          /\ xPendingReadyList' \in Seq(Tasks) /\ IsInjective(xPendingReadyList')
          /\ left' \in [Tasks -> 0..MaxDelay]
          /\ \/ Pnd' = Pnd /\ blocked' = blocked \ {Head(q)}
             \/ Pnd' = Pnd \cup {Head(q)} /\ blocked' = blocked
      BY <1>2, <2>1, FirstIsWoken DEF Rcv, Snd
    <2> QED
      BY <2>1, <2>2, Zenon DEF ListsSound, Shrinks, Listed
  <1> QED
    BY <1>1, <1>2

LEMMA WakeSenderFacts ==
    ASSUME ListsSound, WakeSender
    PROVE  ListsSound' /\ Shrinks
  <1>1. CASE xTasksWaitingToSend = <<>>
    BY <1>1, ListsStay DEF WakeSender, listVars
  <1>2. CASE xTasksWaitingToSend # <<>>
    <2> DEFINE q == xTasksWaitingToSend
    <2>1. xTaskRemoveFromEventList(q) /\ xTasksWaitingToSend' = Tail(q)
          /\ UNCHANGED xTasksWaitingToReceive
      BY <1>2 DEF WakeSender
    <2>2. /\ Head(q) \in Snd
          /\ Tail(q) \in Seq(Tasks) /\ IsInjective(Tail(q))
          /\ Snd' = Snd \ {Head(q)} /\ Rcv' = Rcv
          /\ xPendingReadyList' \in Seq(Tasks) /\ IsInjective(xPendingReadyList')
          /\ left' \in [Tasks -> 0..MaxDelay]
          /\ \/ Pnd' = Pnd /\ blocked' = blocked \ {Head(q)}
             \/ Pnd' = Pnd \cup {Head(q)} /\ blocked' = blocked
      BY <1>2, <2>1, FirstIsWoken DEF Rcv, Snd
    <2> QED
      BY <2>1, <2>2 DEF ListsSound, Shrinks, Listed
  <1> QED
    BY <1>1, <1>2

(* prvUnlockQueue moves the first tasks of an event list to the             *)
(* pending-ready list.                                                      *)
LEMMA MoveFirst ==
    ASSUME ListsSound, NEW q, q \in {xTasksWaitingToSend, xTasksWaitingToReceive},
           NEW n \in 0..Len(q)
    PROVE  LET p == xPendingReadyList \o SubSeq(q, 1, n)
               r == SubSeq(q, n + 1, Len(q))
           IN  /\ p \in Seq(Tasks) /\ IsInjective(p)
               /\ r \in Seq(Tasks) /\ IsInjective(r)
               /\ Range(p) \cap Range(r) = {}
               /\ Range(p) \cup Range(r) = Pnd \cup Range(q)
               /\ Range(r) \subseteq Range(q) /\ Pnd \subseteq Range(p)
  <1> DEFINE f == SubSeq(q, 1, n)
             r == SubSeq(q, n + 1, Len(q))
  <1>1. q \in Seq(Tasks) /\ IsInjective(q) /\ Range(q) \cap Pnd = {}
        /\ xPendingReadyList \in Seq(Tasks) /\ IsInjective(xPendingReadyList)
    BY DEF ListsSound, Snd, Rcv
  <1>2. /\ f \in Seq(Tasks) /\ IsInjective(f)
        /\ r \in Seq(Tasks) /\ IsInjective(r)
        /\ Range(f) \cap Range(r) = {} /\ Range(f) \cup Range(r) = Range(q)
    BY <1>1, CutFacts
  <1> HIDE DEF f, r
  <1>3. xPendingReadyList \o f \in Seq(Tasks)
        /\ Range(xPendingReadyList \o f) = Range(xPendingReadyList) \cup Range(f)
        /\ IsInjective(xPendingReadyList \o f)
    <2>1. Range(xPendingReadyList) \cap Range(f) = {}
      BY <1>1, <1>2 DEF Pnd
    <2> QED
      BY <1>1, <1>2, <2>1, ConcatFacts
  <1> QED
    BY <1>1, <1>2, <1>3 DEF f, r, Pnd

LEMMA WakeCountType ==
    ASSUME NEW c \in Int, NEW q \in Seq(Tasks)
    PROVE  WakeCount(c, q) \in 0..Len(q)
  BY DEF WakeCount

LEMMA UnlockTxFacts ==
    ASSUME ListsSound, cTxLock \in Int, NEW t, UnlockTx(t)
    PROVE  ListsSound' /\ Shrinks
  <1> DEFINE n == WakeCount(cTxLock, xTasksWaitingToReceive)
  <1>1. n \in 0..Len(xTasksWaitingToReceive)
    BY WakeCountType DEF ListsSound
  <1>2. /\ xPendingReadyList' =
                xPendingReadyList \o SubSeq(xTasksWaitingToReceive, 1, n)
        /\ xTasksWaitingToReceive' = SubSeq(xTasksWaitingToReceive, n + 1,
                                            Len(xTasksWaitingToReceive))
        /\ UNCHANGED <<xTasksWaitingToSend, blocked, left>>
    BY DEF UnlockTx, timeVars
  <1> HIDE DEF n
  <1>3. /\ xPendingReadyList' \in Seq(Tasks) /\ IsInjective(xPendingReadyList')
        /\ xTasksWaitingToReceive' \in Seq(Tasks)
        /\ IsInjective(xTasksWaitingToReceive')
        /\ Pnd' \cap Rcv' = {} /\ Pnd' \cup Rcv' = Pnd \cup Rcv
        /\ Rcv' \subseteq Rcv /\ Snd' = Snd
    BY <1>1, <1>2, MoveFirst DEF Pnd, Rcv, Snd
  <1> QED
    BY <1>2, <1>3 DEF ListsSound, Shrinks, Listed

LEMMA UnlockRxFacts ==
    ASSUME ListsSound, cRxLock \in Int, NEW t, UnlockRx(t)
    PROVE  ListsSound' /\ Shrinks
  <1> DEFINE n == WakeCount(cRxLock, xTasksWaitingToSend)
  <1>1. n \in 0..Len(xTasksWaitingToSend)
    BY WakeCountType DEF ListsSound
  <1>2. /\ xPendingReadyList' =
                xPendingReadyList \o SubSeq(xTasksWaitingToSend, 1, n)
        /\ xTasksWaitingToSend' =
                SubSeq(xTasksWaitingToSend, n + 1, Len(xTasksWaitingToSend))
        /\ UNCHANGED <<xTasksWaitingToReceive, blocked, left>>
    BY DEF UnlockRx, timeVars
  <1> HIDE DEF n
  <1>3. /\ xPendingReadyList' \in Seq(Tasks) /\ IsInjective(xPendingReadyList')
        /\ xTasksWaitingToSend' \in Seq(Tasks)
        /\ IsInjective(xTasksWaitingToSend')
        /\ Pnd' \cap Snd' = {} /\ Pnd' \cup Snd' = Pnd \cup Snd
        /\ Snd' \subseteq Snd /\ Rcv' = Rcv
    BY <1>1, <1>2, MoveFirst DEF Pnd, Rcv, Snd
  <1> QED
    BY <1>2, <1>3 DEF ListsSound, Shrinks, Listed

(* The ticks that are counted end the waits that are over.                  *)
LEMMA CountTicksFacts ==
    ASSUME ListsSound, NEW n \in Nat, NEW S, S = blocked \ Pnd,
           CountTicks(S, n), xPendingReadyList' = <<>>
    PROVE  ListsSound' /\ Shrinks
  <1> DEFINE late == Expiring(S, n)
  <1>1. /\ late \subseteq S
        /\ \A t \in S \ late : left[t] = MaxDelay \/ ~ (left[t] <= n)
    BY DEF Expiring
  <1>2. /\ blocked' = S \ late
        /\ xTasksWaitingToSend' = Without(xTasksWaitingToSend, late)
        /\ xTasksWaitingToReceive' = Without(xTasksWaitingToReceive, late)
        /\ left' = [t \in Tasks |-> IF t \notin S \ late THEN 0
                                    ELSE IF left[t] = MaxDelay THEN MaxDelay
                                    ELSE left[t] - n]
    BY DEF CountTicks
  <1> HIDE DEF late
  <1>3. /\ xTasksWaitingToSend' \in Seq(Tasks) /\ Snd' = Snd \ late
        /\ IsInjective(xTasksWaitingToSend')
        /\ xTasksWaitingToReceive' \in Seq(Tasks) /\ Rcv' = Rcv \ late
        /\ IsInjective(xTasksWaitingToReceive')
    BY <1>2, WithoutFacts DEF ListsSound, Snd, Rcv
  <1>4. xPendingReadyList' \in Seq(Tasks) /\ IsInjective(xPendingReadyList') /\ Pnd' = {}
    BY DEF IsInjective, Pnd, Range
  <1>5. left' \in [Tasks -> 0..MaxDelay]
    <2>1. ASSUME NEW t \in Tasks PROVE left'[t] \in 0..MaxDelay
      <3>1. left[t] \in 0..MaxDelay
        BY DEF ListsSound
      <3> QED
        BY <1>1, <1>2, <3>1, WaitsAssumption
    <2> QED
      BY <1>2, <2>1
  <1>6. ListsSound'
    BY <1>1, <1>2, <1>3, <1>4, <1>5 DEF ListsSound, Listed
  <1>7. Shrinks
    BY <1>1, <1>2, <1>3, <1>4 DEF ListsSound, Listed, Shrinks
  <1> QED
    BY <1>6, <1>7

LEMMA PlaceFacts ==
    ASSUME ListsSound, Typed, NEW t \in Tasks, t \notin Listed,
           vTaskPlaceOnEventList(t)
    PROVE  /\ ListsSound'
           /\ \/ kind[t] = "send" /\ Snd' = Snd \cup {t} /\ Rcv' = Rcv
              \/ kind[t] # "send" /\ Rcv' = Rcv \cup {t} /\ Snd' = Snd
           /\ Pnd' = Pnd /\ blocked' = blocked \cup {t}
  <1> DEFINE ahead == {u \in Tasks : Prio[u] < Prio[t]}
  <1>1. /\ \/ /\ kind[t] = "send"
              /\ xTasksWaitingToSend' = InsertBefore(xTasksWaitingToSend, t, ahead)
              /\ UNCHANGED xTasksWaitingToReceive
           \/ /\ kind[t] # "send"
              /\ xTasksWaitingToReceive' = InsertBefore(xTasksWaitingToReceive, t, ahead)
              /\ UNCHANGED xTasksWaitingToSend
        /\ blocked' = blocked \cup {t}
        /\ left' = [left EXCEPT ![t] = xTicksToWait[t]]
        /\ UNCHANGED xPendingReadyList
    BY DEF vTaskPlaceOnEventList, InsertByPriority
  <1>2. left' \in [Tasks -> 0..MaxDelay]
    BY <1>1 DEF ListsSound, Typed, TimesTyped
  <1> HIDE DEF ahead
  <1>3. Pnd' = Pnd
    BY <1>1 DEF Pnd
  <1>4. CASE kind[t] = "send"
    <2>1. /\ xTasksWaitingToSend' \in Seq(Tasks) /\ Snd' = Snd \cup {t}
          /\ IsInjective(xTasksWaitingToSend') /\ Rcv' = Rcv
      BY <1>1, <1>4, InsertBeforeFacts DEF ListsSound, Snd, Rcv, Listed
    <2> QED
      BY <1>1, <1>2, <1>3, <1>4, <2>1 DEF ListsSound, Listed
  <1>5. CASE kind[t] # "send"
    <2>1. /\ xTasksWaitingToReceive' \in Seq(Tasks) /\ Rcv' = Rcv \cup {t}
          /\ IsInjective(xTasksWaitingToReceive') /\ Snd' = Snd
      BY <1>1, <1>5, InsertBeforeFacts DEF ListsSound, Snd, Rcv, Listed
    <2> QED
      BY <1>1, <1>2, <1>3, <1>5, <2>1 DEF ListsSound, Listed
  <1> QED
    BY <1>4, <1>5

LEMMA AbortCheckFacts ==
    ASSUME ListsSound, NEW t, AbortCheck(t), target[t] \in Tasks
    PROVE  /\ ListsSound'
           /\ Snd' = Snd /\ Rcv' = Rcv /\ Pnd' = Pnd
           /\ blocked' = blocked \ {target[t]}
  <1>1. /\ UNCHANGED <<xTasksWaitingToSend, xTasksWaitingToReceive, xPendingReadyList>>
        /\ blocked' = blocked \ {target[t]}
        /\ left' = [left EXCEPT ![target[t]] = 0]
    BY DEF AbortCheck
  <1>2. left' \in [Tasks -> 0..MaxDelay]
    <2>1. 0 \in 0..MaxDelay /\ left \in [Tasks -> 0..MaxDelay]
      BY WaitsAssumption DEF ListsSound
    <2> QED
      BY <1>1, <2>1
  <1> QED
    BY <1>1, <1>2 DEF ListsSound, Snd, Rcv, Pnd, Listed

LEMMA AbortWakeFacts ==
    ASSUME ListsSound, NEW t, AbortWake(t), target[t] \notin blocked
    PROVE  ListsSound' /\ Shrinks /\ Listed' = Listed \ {target[t]}
  <1> DEFINE x == target[t]
  <1>1. /\ xTasksWaitingToSend' = Without(xTasksWaitingToSend, {x})
        /\ xTasksWaitingToReceive' = Without(xTasksWaitingToReceive, {x})
        /\ xPendingReadyList' = Without(xPendingReadyList, {x})
        /\ UNCHANGED <<blocked, left>>
    BY DEF AbortWake, timeVars
  <1> HIDE DEF x
  <1>2. /\ xTasksWaitingToSend' \in Seq(Tasks) /\ Snd' = Snd \ {x}
        /\ IsInjective(xTasksWaitingToSend')
        /\ xTasksWaitingToReceive' \in Seq(Tasks) /\ Rcv' = Rcv \ {x}
        /\ IsInjective(xTasksWaitingToReceive')
        /\ xPendingReadyList' \in Seq(Tasks) /\ Pnd' = Pnd \ {x}
        /\ IsInjective(xPendingReadyList')
    BY <1>1, WithoutFacts DEF ListsSound, Snd, Rcv, Pnd
  <1>3. x \notin blocked
    BY DEF x
  <1>4. ListsSound' /\ Shrinks /\ Listed' = Listed \ {x}
    BY <1>1, <1>2, <1>3 DEF ListsSound, Listed, Shrinks
  <1> QED
    BY <1>4 DEF x

-----------------------------------------------------------------------------
(* A step of task t: the parts of the invariant that speak of the others.   *)

OthersStay(t) ==
    \A u \in Tasks \ {t} : /\ pc'[u] = pc[u] /\ kind'[u] = kind[u]
                           /\ goal'[u] = goal[u] /\ target'[u] = target[u]

TakesTurn(t) == /\ suspender \in {t, Nobody} /\ suspender' \in {t, Nobody}
                /\ OthersStay(t)

(* Who takes a step with the scheduler running, or as its suspender, sees   *)
(* every listed task asleep, unless it is about to take one off the lists.  *)
LEMMA ListedAreBlocked ==
    ASSUME AbortSound, NEW t \in Tasks, suspender \in {t, Nobody}, pc[t] # "abortWake"
    PROVE  Listed \subseteq blocked
  BY NobodyAssumption DEF AbortSound

LEMMA RunnerIsUnlisted ==
    ASSUME IInv, NEW t \in Tasks, pc[t] \notin {"unlockTx", "unlockRx", "resume", "abortWake"},
           suspender \in {t, Nobody}, pc[t] \in Exclusive \/ t \notin blocked
    PROVE  t \notin Listed
  <1>1. CASE t \notin blocked
    BY <1>1, ListedAreBlocked DEF IInv
  <1>2. CASE pc[t] \in Exclusive
    BY <1>2 DEF Exclusive, IInv, WaitersSound, WaiterSound
  <1> QED
    BY <1>1, <1>2

LEMMA ListedAreTasks ==
    ASSUME ListsSound
    PROVE  /\ Snd \subseteq Tasks /\ Rcv \subseteq Tasks /\ Pnd \subseteq Tasks
           /\ Listed \subseteq Tasks /\ blocked \subseteq Tasks
           /\ xTasksWaitingToSend = <<>> <=> Snd = {}
           /\ xTasksWaitingToReceive = <<>> <=> Rcv = {}
           /\ xPendingReadyList = <<>> <=> Pnd = {}
  <1>1. /\ Snd \subseteq Tasks /\ (xTasksWaitingToSend = <<>> <=> Snd = {})
        /\ Rcv \subseteq Tasks /\ (xTasksWaitingToReceive = <<>> <=> Rcv = {})
        /\ Pnd \subseteq Tasks /\ (xPendingReadyList = <<>> <=> Pnd = {})
    BY RangeIn DEF ListsSound, Snd, Rcv, Pnd
  <1> QED
    BY <1>1 DEF Listed, ListsSound

LEMMA OthersKeepWaiting ==
    ASSUME IInv, NEW t \in Tasks, ListsSound', OthersStay(t),
           Snd' \subseteq Snd \cup {t}, Rcv' \subseteq Rcv \cup {t},
           Pnd' \subseteq Listed \cup {t}, t \notin Listed' \/ WaiterSound(t)'
    PROVE  WaitersSound'
  <1> SUFFICES ASSUME NEW u \in Listed' PROVE WaiterSound(u)'
    BY DEF WaitersSound
  <1>1. u \in Tasks
    BY ListedAreTasks DEF IInv, Listed
  <1>2. CASE u = t
    BY <1>2
  <1>3. CASE u # t
    <2>1. u \in Listed
      BY <1>3 DEF Listed
    <2>2. WaiterSound(u)
      BY <2>1 DEF IInv, WaitersSound
    <2> QED
      BY <1>1, <1>3, <2>2 DEF WaiterSound, OthersStay
  <1> QED
    BY <1>2, <1>3

LEMMA OthersKeepCalling ==
    ASSUME IInv, NEW t \in Tasks, TakesTurn(t), CallSound(t)'
    PROVE  CallsSound'
  <1> SUFFICES ASSUME NEW u \in Tasks, u # t PROVE CallSound(u)'
    BY DEF CallsSound
  <1>1. CallSound(u) /\ u # Nobody
    BY NobodyAssumption DEF IInv, CallsSound
  <1>2. suspender # u /\ suspender' # u /\ pc[u] \notin Exclusive
    BY <1>1 DEF TakesTurn, CallSound
  <1>3. /\ pc'[u] = pc[u] /\ kind'[u] = kind[u] /\ goal'[u] = goal[u]
    BY DEF TakesTurn, OthersStay
  <1> QED
    BY <1>1, <1>2, <1>3 DEF CallSound, Exclusive

(* What is left to show of a step that only takes tasks off the lists.      *)
LEMMA LocalStep ==
    ASSUME IInv, NEW t \in Tasks, TakesTurn(t), pc[t] # "abortWake",
           ListsSound', Shrinks, t \notin Listed' \/ WaiterSound(t)',
           CallSound(t)', Typed', LocksSound', UNCHANGED program
    PROVE  IInv'
  <1>1. WaitersSound'
    BY OthersKeepWaiting DEF Shrinks, TakesTurn, Listed
  <1>2. CallsSound'
    BY OthersKeepCalling
  <1>3. Listed' \subseteq blocked'
    BY ListedAreBlocked DEF IInv, TakesTurn, Shrinks
  <1>4. AbortSound'
    BY <1>3 DEF AbortSound
  <1> QED
    BY <1>1, <1>2, <1>4 DEF IInv

-----------------------------------------------------------------------------
(* The steps of a call that leave the lists as they are. *)

(* The scheduler runs, or the task that suspended it does.                  *)
LEMMA Turns ==
    ASSUME IInv, NEW t \in Tasks
    PROVE  /\ t # Nobody /\ CallSound(t)
           /\ pc[t] \in Exclusive => suspender = t
           /\ (CanRun(t) /\ pc[t] \notin Exclusive) => suspender = Nobody /\ t \notin blocked
           /\ suspender = Nobody => /\ xPendingReadyList = <<>> /\ uxPendedTicks = 0
                                    /\ cTxLock = queueUNLOCKED /\ cRxLock = queueUNLOCKED
  BY NobodyAssumption DEF IInv, CallsSound, CallSound, CanRun, LocksSound

LEMMA CallStep ==
    ASSUME IInv, NEW t \in Tasks, NEW k \in Kinds, NEW w \in Waits, Call(t, k, w),
           UNCHANGED program
    PROVE  IInv'
  <1>1. /\ Outside(t) /\ suspender = Nobody /\ t \notin blocked /\ t # Nobody /\ CallSound(t)
        /\ pc' = [pc EXCEPT ![t] = "enter"] /\ kind' = [kind EXCEPT ![t] = k]
        /\ UNCHANGED <<queueVars, listVars, suspender, goal, ucDelayAborted,
                       target, uxPendedTicks, left>>
    BY Turns DEF Call, Goto
  <1>2. Typed'
    <2>1. CountsTyped' /\ CallsTyped'
      BY <1>1 DEF IInv, Typed, CountsTyped, CallsTyped, Places, queueVars, uxLength
    <2>2. w \in 0..MaxDelay /\ 0 \in 0..MaxDelay
      BY WaitsAssumption
    <2>3. TimesTyped'
      BY <2>2 DEF IInv, Typed, TimesTyped, Call
    <2> QED
      BY <2>1, <2>3 DEF Typed
  <1>3. ListsSound' /\ Shrinks /\ t \notin Listed'
    BY <1>1, ListsStay, RunnerIsUnlisted DEF IInv, Outside, Shrinks
  <1>4. CallSound(t)'
    BY <1>1 DEF IInv, Typed, CallsTyped, CallSound, Exclusive, Places, Kinds
  <1>5. TakesTurn(t)
    BY <1>1 DEF TakesTurn, OthersStay, IInv, Typed, CallsTyped
  <1>6. LocksSound'
    BY <1>1, Turns DEF IInv, LocksSound, queueVars, listVars
  <1> QED
    BY <1>1, <1>2, <1>3, <1>4, <1>5, <1>6, LocalStep DEF Outside

LEMMA TryFailsStep ==
    ASSUME IInv, NEW t \in Tasks, TryFails(t), UNCHANGED program
    PROVE  IInv'
  <1>1. /\ pc[t] \in {"enter", "try"} /\ suspender = Nobody /\ t \notin blocked
        /\ t # Nobody /\ CallSound(t)
        /\ UNCHANGED <<queueVars, listVars, suspender, uxPendedTicks, left, kind,
                       xTicksToWait, ucDelayAborted, target, asked>>
    BY Turns DEF TryFails, Trying, Exclusive, ReturnFail
  <1>2. \/ pc' = [pc EXCEPT ![t] = "gaveUp"] /\ goal' = [goal EXCEPT ![t] = "none"]
        \/ pc' = [pc EXCEPT ![t] = "failed"] /\ UNCHANGED goal
    BY DEF TryFails, Goto, ReturnFail
  <1>3. Typed'
    <2>1. CountsTyped'
      BY <1>1 DEF IInv, Typed, CountsTyped, queueVars, uxLength
    <2>2. CallsTyped'
      BY <1>1, <1>2 DEF IInv, Typed, CallsTyped, Places
    <2>3. TimesTyped'
      BY WaitsAssumption DEF IInv, Typed, TimesTyped, TryFails, ReturnFail
    <2> QED
      BY <2>1, <2>2, <2>3 DEF Typed
  <1>4. ListsSound' /\ Shrinks /\ t \notin Listed'
    BY <1>1, ListsStay, RunnerIsUnlisted DEF IInv, Shrinks
  <1>5. CallSound(t)'
    BY <1>1, <1>2 DEF IInv, Typed, CallsTyped, CallSound, Exclusive, Places
  <1>6. TakesTurn(t)
    BY <1>1, <1>2 DEF TakesTurn, OthersStay, IInv, Typed, CallsTyped
  <1>7. LocksSound'
    BY <1>1, Turns DEF IInv, LocksSound, queueVars, listVars
  <1> QED
    BY <1>1, <1>3, <1>4, <1>5, <1>6, <1>7, LocalStep

LEMMA SuspendStep ==
    ASSUME IInv, NEW t \in Tasks, vTaskSuspendAll(t), UNCHANGED program
    PROVE  IInv'
  <1>1. /\ pc[t] = "failed" /\ suspender = Nobody /\ t \notin blocked
        /\ t # Nobody /\ CallSound(t)
        /\ suspender' = t /\ pc' = [pc EXCEPT ![t] = "suspended"]
        /\ UNCHANGED <<queueVars, listVars, kind, goal, xTicksToWait, elapsed,
                       ucDelayAborted, target, asked, timeVars>>
        /\ cTxLock = queueUNLOCKED /\ cRxLock = queueUNLOCKED
    BY Turns DEF vTaskSuspendAll, Goto
  <1>2. Typed'
    BY <1>1 DEF IInv, Typed, CountsTyped, CallsTyped, TimesTyped, Places, queueVars,
                timeVars, uxLength
  <1>3. ListsSound' /\ Shrinks /\ t \notin Listed'
    BY <1>1, ListsStay, RunnerIsUnlisted DEF IInv, Shrinks, timeVars
  <1>4. CallSound(t)'
    BY <1>1 DEF IInv, Typed, CallsTyped, CallSound, Exclusive, Places
  <1>5. TakesTurn(t)
    BY <1>1 DEF TakesTurn, OthersStay, IInv, Typed, CallsTyped
  <1>6. LocksSound'
    BY <1>1 DEF LocksSound, queueVars
  <1> QED
    BY <1>1, <1>2, <1>3, <1>4, <1>5, <1>6, LocalStep

LEMMA LockStep ==
    ASSUME IInv, NEW t \in Tasks, prvLockQueue(t), UNCHANGED program
    PROVE  IInv'
  <1>1. /\ pc[t] = "suspended" /\ suspender = t /\ t # Nobody /\ CallSound(t)
        /\ pc' = [pc EXCEPT ![t] = "locked"]
        /\ cTxLock' \in {cTxLock, 0} /\ cRxLock' \in {cRxLock, 0}
        /\ UNCHANGED <<uxMessagesWaiting, listVars, suspender, kind, goal,
                   xTicksToWait, elapsed, ucDelayAborted, target, asked, timeVars>>
    BY Turns DEF prvLockQueue, Goto, Exclusive, queueLOCKED_UNMODIFIED
  <1>2. Typed'
    BY <1>1, LockAssumption DEF IInv, Typed, CountsTyped, CallsTyped, TimesTyped, Places,
                timeVars, uxLength
  <1>3. ListsSound' /\ Shrinks /\ t \notin Listed'
    BY <1>1, ListsStay, RunnerIsUnlisted DEF IInv, Shrinks, timeVars, Exclusive
  <1>4. CallSound(t)'
    BY <1>1 DEF IInv, Typed, CallsTyped, CallSound, Exclusive, Places
  <1>5. TakesTurn(t)
    BY <1>1 DEF TakesTurn, OthersStay, IInv, Typed, CallsTyped
  <1>6. LocksSound'
    BY <1>1 DEF LocksSound, IInv, Typed, CallsTyped
  <1> QED
    BY <1>1, <1>2, <1>3, <1>4, <1>5, <1>6, LocalStep

LEMMA CheckForTimeOutStep ==
    ASSUME IInv, NEW t \in Tasks, xTaskCheckForTimeOut(t), UNCHANGED program
    PROVE  IInv'
  <1>1. /\ pc[t] = "locked" /\ suspender = t /\ t # Nobody /\ CallSound(t)
        /\ \/ pc' = [pc EXCEPT ![t] = "check"] /\ UNCHANGED goal
           \/ pc' = [pc EXCEPT ![t] = "unlockTx"] /\ goal' = [goal EXCEPT ![t] = "expire"]
        /\ UNCHANGED <<queueVars, listVars, suspender, kind, target, asked, timeVars>>
    BY Turns DEF xTaskCheckForTimeOut, Goto, Unlocking, Exclusive
  <1>2. Typed'
    <2>1. CountsTyped'
      BY <1>1 DEF IInv, Typed, CountsTyped, queueVars, timeVars, uxLength
    <2>2. ucDelayAborted' \in [Tasks -> BOOLEAN]
      BY DEF xTaskCheckForTimeOut, IInv, Typed, CallsTyped
    <2>3. CallsTyped'
      BY <1>1, <2>2 DEF IInv, Typed, CallsTyped, Places
    <2>4. TimesTyped'
      BY <1>1, WaitsAssumption DEF xTaskCheckForTimeOut, IInv, Typed, TimesTyped, timeVars
    <2> QED
      BY <2>1, <2>3, <2>4 DEF Typed
  <1>3. ListsSound' /\ Shrinks /\ t \notin Listed'
    BY <1>1, ListsStay, RunnerIsUnlisted DEF IInv, Shrinks, timeVars, Exclusive
  <1>4. CallSound(t)'
    BY <1>1 DEF IInv, Typed, CallsTyped, CallSound, Exclusive, Places
  <1>5. TakesTurn(t)
    BY <1>1 DEF TakesTurn, OthersStay, IInv, Typed, CallsTyped
  <1>6. LocksSound'
    BY <1>1 DEF LocksSound, IInv, Typed, CallsTyped, queueVars, listVars, timeVars
  <1> QED
    BY <1>1, <1>2, <1>3, <1>4, <1>5, <1>6, LocalStep

LEMMA CheckAgainStep ==
    ASSUME IInv, NEW t \in Tasks, CheckAgain(t), UNCHANGED program
    PROVE  IInv'
  <1>1. /\ pc[t] = "check" /\ suspender = t /\ t # Nobody /\ CallSound(t)
        /\ \/ /\ pc' = [pc EXCEPT ![t] = "place"] /\ UNCHANGED goal
              /\ kind[t] # "overwrite"
           \/ pc' = [pc EXCEPT ![t] = "unlockTx"] /\ goal' = [goal EXCEPT ![t] = "retry"]
        /\ UNCHANGED <<queueVars, listVars, suspender, kind, xTicksToWait,
                       elapsed, ucDelayAborted, target, asked, timeVars>>
    BY Turns DEF CheckAgain, MustWait, Goto, Unlocking, Exclusive
  <1>2. Typed'
    BY <1>1 DEF IInv, Typed, CountsTyped, CallsTyped, TimesTyped, Places, queueVars,
                timeVars, uxLength
  <1>3. ListsSound' /\ Shrinks /\ t \notin Listed'
    BY <1>1, ListsStay, RunnerIsUnlisted DEF IInv, Shrinks, timeVars, Exclusive
  <1>4. CallSound(t)'
    BY <1>1 DEF IInv, Typed, CallsTyped, CallSound, Exclusive, Places
  <1>5. TakesTurn(t)
    BY <1>1 DEF TakesTurn, OthersStay, IInv, Typed, CallsTyped
  <1>6. LocksSound'
    BY <1>1 DEF LocksSound, IInv, Typed, CallsTyped, queueVars, listVars, timeVars
  <1> QED
    BY <1>1, <1>2, <1>3, <1>4, <1>5, <1>6, LocalStep

LEMMA RecheckStep ==
    ASSUME IInv, NEW t \in Tasks, RecheckEmpty(t), UNCHANGED program
    PROVE  IInv'
  <1>1. /\ pc[t] = "recheck" /\ suspender = Nobody /\ t \notin blocked
        /\ t # Nobody /\ CallSound(t)
        /\ \/ pc' = [pc EXCEPT ![t] = "gaveUp"] /\ goal' = [goal EXCEPT ![t] = "none"]
           \/ pc' = [pc EXCEPT ![t] = "try"] /\ UNCHANGED goal
        /\ UNCHANGED <<queueVars, listVars, suspender, kind, xTicksToWait, elapsed,
                       ucDelayAborted, target, asked, timeVars>>
    BY Turns DEF RecheckEmpty, ReturnFail, Goto, Exclusive
  <1>2. Typed'
    BY <1>1 DEF IInv, Typed, CountsTyped, CallsTyped, TimesTyped, Places, queueVars,
                timeVars, uxLength
  <1>3. ListsSound' /\ Shrinks /\ t \notin Listed'
    BY <1>1, ListsStay, RunnerIsUnlisted DEF IInv, Shrinks, timeVars
  <1>4. CallSound(t)'
    BY <1>1 DEF IInv, Typed, CallsTyped, CallSound, Exclusive, Places
  <1>5. TakesTurn(t)
    BY <1>1 DEF TakesTurn, OthersStay, IInv, Typed, CallsTyped
  <1>6. LocksSound'
    BY <1>1, Turns DEF LocksSound, IInv, queueVars, listVars, timeVars
  <1> QED
    BY <1>1, <1>2, <1>3, <1>4, <1>5, <1>6, LocalStep

LEMMA AbortBeginStep ==
    ASSUME IInv, NEW t \in Tasks, NEW x \in Tasks, AbortBegin(t, x), UNCHANGED program
    PROVE  IInv'
  <1>1. /\ Outside(t) /\ suspender = Nobody /\ t \notin blocked /\ t # Nobody /\ CallSound(t)
        /\ suspender' = t /\ kind' = [kind EXCEPT ![t] = "abort"]
        /\ target' = [target EXCEPT ![t] = x] /\ pc' = [pc EXCEPT ![t] = "abortCheck"]
        /\ UNCHANGED <<queueVars, listVars, goal, xTicksToWait, elapsed,
                       ucDelayAborted, asked, timeVars>>
        /\ cTxLock = queueUNLOCKED /\ cRxLock = queueUNLOCKED
    BY Turns DEF AbortBegin, Goto
  <1>2. Typed'
    BY <1>1 DEF IInv, Typed, CountsTyped, CallsTyped, TimesTyped, Places, queueVars,
                timeVars, uxLength
  <1>3. ListsSound' /\ Shrinks /\ t \notin Listed'
    BY <1>1, ListsStay, RunnerIsUnlisted DEF IInv, Shrinks, timeVars, Outside
  <1>4. CallSound(t)'
    BY <1>1 DEF IInv, Typed, CallsTyped, CallSound, Exclusive, Places
  <1>5. TakesTurn(t)
    BY <1>1 DEF TakesTurn, OthersStay, IInv, Typed, CallsTyped
  <1>6. LocksSound'
    BY <1>1 DEF LocksSound, queueVars
  <1> QED
    BY <1>1, <1>2, <1>3, <1>4, <1>5, <1>6, LocalStep DEF Outside

-----------------------------------------------------------------------------
(* The steps of a task that take tasks off the lists. *)

(* A call that returns.                                                     *)
LEMMA PassStep ==
    ASSUME IInv, NEW t \in Tasks, Trying(t), ReturnPass(t), ListsSound', Shrinks,
           uxMessagesWaiting' \in 0..uxLength,
           UNCHANGED <<cTxLock, cRxLock, suspender, xPendingReadyList, program>>
    PROVE  IInv'
  <1>1. /\ pc[t] \in {"enter", "try"} /\ suspender = Nobody /\ t \notin blocked
        /\ t # Nobody /\ CallSound(t) /\ uxPendedTicks = 0
        /\ cTxLock = queueUNLOCKED /\ cRxLock = queueUNLOCKED /\ xPendingReadyList = <<>>
    BY Turns DEF Trying, Exclusive
  <1>2. /\ pc' = [pc EXCEPT ![t] = "out"] /\ kind' = [kind EXCEPT ![t] = "none"]
        /\ goal' = [goal EXCEPT ![t] = "none"]
        /\ UNCHANGED <<ucDelayAborted, target, uxPendedTicks>>
    BY DEF ReturnPass, Goto
  <1>3. Typed'
    <2>1. CountsTyped'
      BY <1>2 DEF IInv, Typed, CountsTyped, uxLength
    <2>2. CallsTyped'
      BY <1>2 DEF IInv, Typed, CallsTyped, Places
    <2>3. TimesTyped'
      BY WaitsAssumption DEF IInv, Typed, TimesTyped, ReturnPass
    <2> QED
      BY <2>1, <2>2, <2>3 DEF Typed
  <1>4. t \notin Listed'
    BY <1>1, RunnerIsUnlisted DEF Shrinks
  <1>5. CallSound(t)'
    BY <1>1, <1>2 DEF IInv, Typed, CallsTyped, CallSound, Exclusive, Places
  <1>6. TakesTurn(t)
    BY <1>1, <1>2 DEF TakesTurn, OthersStay, IInv, Typed, CallsTyped
  <1>7. LocksSound'
    BY <1>1, <1>2 DEF LocksSound
  <1> QED
    BY <1>1, <1>3, <1>4, <1>5, <1>6, <1>7, LocalStep

(* While the scheduler runs nobody is made pending ready.                   *)
LEMMA NoneMadePending ==
    ASSUME WakeReceiver \/ WakeSender, suspender = Nobody
    PROVE  UNCHANGED xPendingReadyList
  BY DEF WakeReceiver, WakeSender, xTaskRemoveFromEventList

LEMMA LengthType ==
    ASSUME program \in Programs
    PROVE  uxLength \in Nat \ {0} /\ program.calls \in [Tasks -> SUBSET (Kinds \cup {"abort", "reset"})]
  BY ProgramsAssumption DEF uxLength

LEMMA SendStep ==
    ASSUME IInv, NEW t \in Tasks, SendSucceeds(t), UNCHANGED program
    PROVE  IInv'
  <1>1. /\ Trying(t) /\ ReturnPass(t) /\ WakeReceiver
        /\ UNCHANGED <<cTxLock, cRxLock, suspender>>
        /\ uxMessagesWaiting' = IF uxMessagesWaiting < uxLength
                            THEN uxMessagesWaiting + 1 ELSE uxMessagesWaiting
    BY DEF SendSucceeds
  <1>2. suspender = Nobody
    BY <1>1, Turns DEF Trying, Exclusive
  <1>3. uxMessagesWaiting' \in 0..uxLength
    BY <1>1, LengthType DEF IInv, Typed, CountsTyped
  <1> QED
    BY <1>1, <1>2, <1>3, NoneMadePending, WakeReceiverFacts, PassStep DEF IInv

LEMMA ReceiveStep ==
    ASSUME IInv, NEW t \in Tasks, ReceiveSucceeds(t), UNCHANGED program
    PROVE  IInv'
  <1>1. /\ Trying(t) /\ ReturnPass(t) /\ WakeSender
        /\ UNCHANGED <<cTxLock, cRxLock, suspender>>
        /\ uxMessagesWaiting > 0 /\ uxMessagesWaiting' = uxMessagesWaiting - 1
    BY DEF ReceiveSucceeds
  <1>2. suspender = Nobody
    BY <1>1, Turns DEF Trying, Exclusive
  <1>3. uxMessagesWaiting' \in 0..uxLength
    BY <1>1, LengthType DEF IInv, Typed, CountsTyped
  <1> QED
    BY <1>1, <1>2, <1>3, NoneMadePending, WakeSenderFacts, PassStep DEF IInv

LEMMA PeekStep ==
    ASSUME IInv, NEW t \in Tasks, PeekSucceeds(t), UNCHANGED program
    PROVE  IInv'
  <1>1. /\ Trying(t) /\ ReturnPass(t) /\ WakeReceiver
        /\ UNCHANGED <<uxMessagesWaiting, cTxLock, cRxLock, suspender>>
    BY DEF PeekSucceeds, queueVars
  <1>2. suspender = Nobody
    BY <1>1, Turns DEF Trying, Exclusive
  <1>3. uxMessagesWaiting' \in 0..uxLength
    BY <1>1 DEF IInv, Typed, CountsTyped
  <1> QED
    BY <1>1, <1>2, <1>3, NoneMadePending, WakeReceiverFacts, PassStep DEF IInv

LEMMA ResetStep ==
    ASSUME IInv, NEW t \in Tasks, xQueueGenericReset(t), UNCHANGED program
    PROVE  IInv'
  <1>1. /\ Outside(t) /\ suspender = Nobody /\ t \notin blocked /\ t # Nobody /\ CallSound(t)
        /\ cTxLock' = -1 /\ cRxLock' = -1 /\ uxMessagesWaiting' = 0 /\ WakeSender
        /\ UNCHANGED <<suspender, pc, kind, goal, xTicksToWait, elapsed,
                       ucDelayAborted, target, asked, uxPendedTicks, waited>>
    BY Turns DEF xQueueGenericReset, callVars, queueUNLOCKED
  <1>2. Typed'
    BY <1>1, LengthType, LockAssumption
       DEF IInv, Typed, CountsTyped, CallsTyped, TimesTyped, uxLength
  <1>3. ListsSound' /\ Shrinks /\ UNCHANGED xPendingReadyList
    BY <1>1, WakeSenderFacts, NoneMadePending DEF IInv
  <1>4. t \notin Listed'
    BY <1>1, <1>3, RunnerIsUnlisted DEF Outside, Shrinks
  <1>5. CallSound(t)'
    BY <1>1 DEF CallSound, Outside, Exclusive
  <1>6. TakesTurn(t)
    BY <1>1 DEF TakesTurn, OthersStay
  <1>7. LocksSound'
    BY <1>1, <1>3, Turns DEF LocksSound, queueUNLOCKED
  <1> QED
    BY <1>1, <1>2, <1>3, <1>4, <1>5, <1>6, <1>7, LocalStep DEF Outside

LEMMA UnlockTxStep ==
    ASSUME IInv, NEW t \in Tasks, UnlockTx(t), UNCHANGED program
    PROVE  IInv'
  <1>1. /\ pc[t] = "unlockTx" /\ suspender = t /\ t # Nobody /\ CallSound(t)
        /\ pc' = [pc EXCEPT ![t] = "unlockRx"] /\ cTxLock' = -1
        /\ UNCHANGED <<uxMessagesWaiting, cRxLock, suspender, kind, goal, xTicksToWait,
                   elapsed, ucDelayAborted, target, asked, uxPendedTicks, waited>>
    BY Turns DEF UnlockTx, Goto, Exclusive, queueUNLOCKED, timeVars
  <1>2. Typed'
    BY <1>1, LockAssumption DEF IInv, Typed, CountsTyped, CallsTyped, TimesTyped, Places, uxLength
  <1>3. ListsSound' /\ Shrinks
    BY UnlockTxFacts DEF IInv, Typed, CountsTyped
  <1>4. t \notin Listed' \/ WaiterSound(t)'
    <2>1. ASSUME t \in Listed' PROVE WaiterSound(t)'
      <3>1. t \in Listed /\ WaiterSound(t)
        BY <1>3, <2>1 DEF IInv, WaitersSound, Shrinks
      <3> QED
        BY <1>1, <1>3, <3>1 DEF WaiterSound, IInv, Typed, CallsTyped, Shrinks
    <2> QED
      BY <2>1
  <1>5. CallSound(t)'
    BY <1>1 DEF IInv, Typed, CallsTyped, CallSound, Exclusive, Places
  <1>6. TakesTurn(t)
    BY <1>1 DEF TakesTurn, OthersStay, IInv, Typed, CallsTyped
  <1>7. LocksSound'
    BY <1>1 DEF LocksSound, IInv, Typed, CallsTyped, queueUNLOCKED
  <1> QED
    BY <1>1, <1>2, <1>3, <1>4, <1>5, <1>6, <1>7, LocalStep

LEMMA UnlockRxStep ==
    ASSUME IInv, NEW t \in Tasks, UnlockRx(t), UNCHANGED program
    PROVE  IInv'
  <1>1. /\ pc[t] = "unlockRx" /\ suspender = t /\ t # Nobody /\ CallSound(t)
        /\ pc' = [pc EXCEPT ![t] = "resume"] /\ cRxLock' = -1
        /\ UNCHANGED <<uxMessagesWaiting, cTxLock, suspender, kind, goal, xTicksToWait,
                   elapsed, ucDelayAborted, target, asked, uxPendedTicks, waited>>
    BY Turns DEF UnlockRx, Goto, Exclusive, queueUNLOCKED, timeVars
  <1>2. Typed'
    BY <1>1, LockAssumption DEF IInv, Typed, CountsTyped, CallsTyped, TimesTyped, Places, uxLength
  <1>3. ListsSound' /\ Shrinks
    BY UnlockRxFacts DEF IInv, Typed, CountsTyped
  <1>4. t \notin Listed' \/ WaiterSound(t)'
    <2>1. ASSUME t \in Listed' PROVE WaiterSound(t)'
      <3>1. t \in Listed /\ WaiterSound(t)
        BY <1>3, <2>1 DEF IInv, WaitersSound, Shrinks
      <3> QED
        BY <1>1, <1>3, <3>1 DEF WaiterSound, IInv, Typed, CallsTyped, Shrinks
    <2> QED
      BY <2>1
  <1>5. CallSound(t)'
    BY <1>1 DEF IInv, Typed, CallsTyped, CallSound, Exclusive, Places, Kinds
  <1>6. TakesTurn(t)
    BY <1>1 DEF TakesTurn, OthersStay, IInv, Typed, CallsTyped
  <1>7. LocksSound'
    BY <1>1 DEF LocksSound, IInv, Typed, CallsTyped, queueUNLOCKED
  <1> QED
    BY <1>1, <1>2, <1>3, <1>4, <1>5, <1>6, <1>7, LocalStep

LEMMA TicksCounted ==
    ASSUME Typed, NEW S, NEW n \in Nat, CountTicks(S, n)
    PROVE  elapsed' \in [Tasks -> 0..MaxDelay]
  <1>1. ASSUME NEW t \in Tasks PROVE elapsed'[t] \in 0..MaxDelay
    <2>1. elapsed[t] \in 0..MaxDelay /\ xTicksToWait[t] \in 0..MaxDelay /\ MaxDelay \in Nat
      BY WaitsAssumption DEF Typed, TimesTyped
    <2> QED
      BY <2>1 DEF CountTicks, Later
  <1> QED
    BY <1>1 DEF CountTicks

LEMMA ResumeStep ==
    ASSUME IInv, NEW t \in Tasks, xTaskResumeAll(t), UNCHANGED program
    PROVE  IInv'
  <1>1. /\ pc[t] = "resume" /\ suspender = t /\ t # Nobody /\ CallSound(t)
        /\ suspender' = Nobody /\ xPendingReadyList' = <<>> /\ uxPendedTicks' = 0
        /\ CountTicks(blocked \ Pnd, uxPendedTicks)
        /\ goal' = [goal EXCEPT ![t] = "none"]
        /\ kind' = [kind EXCEPT ![t] = IF goal[t] = "abort" THEN "none" ELSE @]
        /\ target' = [target EXCEPT ![t] = Nobody]
        /\ UNCHANGED <<queueVars, xTicksToWait, ucDelayAborted, asked, waited>>
    BY Turns DEF xTaskResumeAll, Exclusive, Pnd
  <1>2. \/ goal[t] \in {"block", "retry"} /\ pc' = [pc EXCEPT ![t] = "try"]
        \/ goal[t] = "expire" /\ pc' = [pc EXCEPT ![t] = "gaveUp"]
        \/ goal[t] = "expire" /\ pc' = [pc EXCEPT ![t] = "recheck"]
        \/ goal[t] = "abort" /\ pc' = [pc EXCEPT ![t] = "out"]
    BY <1>1 DEF xTaskResumeAll, Goto, CallSound
  <1>3. uxPendedTicks \in Nat
    BY PendedAssumption DEF IInv, Typed, CountsTyped
  <1>4. Typed'
    <2>1. CountsTyped'
      BY <1>1, PendedAssumption DEF IInv, Typed, CountsTyped, queueVars, uxLength
    <2>2. CallsTyped'
      BY <1>1, <1>2 DEF IInv, Typed, CallsTyped, Places
    <2>3. TimesTyped'
      BY <1>1, <1>3, TicksCounted DEF IInv, Typed, TimesTyped
    <2> QED
      BY <2>1, <2>2, <2>3 DEF Typed
  <1>5. ListsSound' /\ Shrinks
    BY <1>1, <1>3, CountTicksFacts DEF IInv
  <1>6. t \notin Listed' \/ WaiterSound(t)'
    <2>1. ASSUME t \in Listed' PROVE WaiterSound(t)'
      <3>1. t \in Listed /\ WaiterSound(t)
        BY <1>5, <2>1 DEF IInv, WaitersSound, Shrinks
      <3>2. goal[t] = "block" /\ pc'[t] = "try" /\ kind'[t] = kind[t]
        BY <1>1, <1>2, <3>1 DEF WaiterSound, IInv, Typed, CallsTyped
      <3>3. Snd' \subseteq Snd /\ Rcv' \subseteq Rcv
        BY <1>5 DEF Shrinks
      <3> QED
        BY <3>1, <3>2, <3>3 DEF WaiterSound
    <2> QED
      BY <2>1
  <1>7. CallSound(t)'
    BY <1>1, <1>2 DEF IInv, Typed, CallsTyped, CallSound, Exclusive, Places, Kinds
  <1>8. TakesTurn(t)
    BY <1>1, <1>2 DEF TakesTurn, OthersStay, IInv, Typed, CallsTyped
  <1>9. LocksSound'
    BY <1>1 DEF LocksSound, IInv, queueVars
  <1> QED
    BY <1>1, <1>4, <1>5, <1>6, <1>7, <1>8, <1>9, LocalStep

LEMMA PlaceStep ==
    ASSUME IInv, NEW t \in Tasks, vTaskPlaceOnEventList(t), UNCHANGED program
    PROVE  IInv'
  <1>1. /\ pc[t] = "place" /\ suspender = t /\ t # Nobody /\ CallSound(t)
        /\ pc' = [pc EXCEPT ![t] = "unlockTx"] /\ goal' = [goal EXCEPT ![t] = "block"]
        /\ ucDelayAborted' = [ucDelayAborted EXCEPT ![t] = FALSE]
        /\ UNCHANGED <<queueVars, xPendingReadyList, suspender, kind,
                   xTicksToWait, elapsed, target, asked, uxPendedTicks, waited>>
    BY Turns DEF vTaskPlaceOnEventList, Unlocking, Goto, Exclusive
  <1>2. Typed'
    BY <1>1 DEF IInv, Typed, CountsTyped, CallsTyped, TimesTyped, Places, queueVars, uxLength
  <1>3. t \notin Listed /\ Listed \subseteq blocked
    BY <1>1, RunnerIsUnlisted, ListedAreBlocked DEF Exclusive, IInv
  <1>4. /\ ListsSound'
        /\ \/ kind[t] = "send" /\ Snd' = Snd \cup {t} /\ Rcv' = Rcv
           \/ kind[t] # "send" /\ Rcv' = Rcv \cup {t} /\ Snd' = Snd
        /\ Pnd' = Pnd /\ blocked' = blocked \cup {t}
    BY <1>3, PlaceFacts DEF IInv
  <1>5. WaiterSound(t)'
    <2>1. pc'[t] = "unlockTx" /\ goal'[t] = "block"
      BY <1>1 DEF IInv, Typed, CallsTyped
    <2>2. kind[t] \in {"send", "receive", "peek"}
      BY <1>1 DEF CallSound, Places, Kinds
    <2>3. t \notin Snd /\ t \notin Rcv
      BY <1>3 DEF Listed
    <2>4. t \in Snd' => kind'[t] = "send"
      BY <1>1, <1>4, <2>3
    <2>5. t \in Rcv' => kind'[t] \in {"receive", "peek"}
      BY <1>1, <1>4, <2>2, <2>3
    <2> QED
      BY <2>1, <2>4, <2>5 DEF WaiterSound
  <1>6. TakesTurn(t)
    BY <1>1 DEF TakesTurn, OthersStay, IInv, Typed, CallsTyped
  <1>7. WaitersSound'
    BY <1>4, <1>5, <1>6, OthersKeepWaiting DEF TakesTurn, Listed
  <1>8. CallsSound'
    <2>1. CallSound(t)'
      BY <1>1 DEF IInv, Typed, CallsTyped, CallSound, Exclusive, Places
    <2> QED
      BY <1>6, <2>1, OthersKeepCalling
  <1>9. AbortSound'
    BY <1>3, <1>4 DEF AbortSound, Listed
  <1>10. LocksSound'
    BY <1>1 DEF LocksSound, IInv, Typed, CallsTyped, queueVars
  <1> QED
    BY <1>2, <1>4, <1>7, <1>8, <1>9, <1>10 DEF IInv

LEMMA AbortCheckStep ==
    ASSUME IInv, NEW t \in Tasks, AbortCheck(t), UNCHANGED program
    PROVE  IInv'
  <1>1. /\ pc[t] = "abortCheck" /\ suspender = t /\ t # Nobody /\ CallSound(t)
        /\ target[t] \in Tasks
        /\ goal' = [goal EXCEPT ![t] = "abort"]
        /\ pc' = [pc EXCEPT ![t] = IF target[t] \in blocked THEN "abortWake" ELSE "resume"]
        /\ UNCHANGED <<queueVars, xTasksWaitingToSend, xTasksWaitingToReceive,
                   xPendingReadyList, suspender, kind, xTicksToWait, elapsed,
                   ucDelayAborted, target, asked, uxPendedTicks, waited>>
    BY Turns DEF AbortCheck, CallSound, Goto, Exclusive
  <1>2. Typed'
    <2>1. CountsTyped' /\ TimesTyped'
      BY <1>1 DEF IInv, Typed, CountsTyped, TimesTyped, queueVars, uxLength
    <2>2. CallsTyped'
      BY <1>1 DEF IInv, Typed, CallsTyped, Places
    <2> QED
      BY <2>1, <2>2 DEF Typed
  <1>3. t \notin Listed /\ Listed \subseteq blocked
    BY <1>1, RunnerIsUnlisted, ListedAreBlocked DEF Exclusive, IInv
  <1>4. /\ ListsSound' /\ Snd' = Snd /\ Rcv' = Rcv /\ Pnd' = Pnd
        /\ blocked' = blocked \ {target[t]}
    BY <1>1, AbortCheckFacts DEF IInv
  <1>5. TakesTurn(t)
    BY <1>1 DEF TakesTurn, OthersStay, IInv, Typed, CallsTyped
  <1>6. WaitersSound'
    BY <1>3, <1>4, <1>5, OthersKeepWaiting DEF TakesTurn, Listed
  <1>7. CallsSound'
    <2>1. CallSound(t)'
      BY <1>1, <1>4 DEF IInv, Typed, CallsTyped, CallSound, Exclusive, Places
    <2> QED
      BY <1>5, <2>1, OthersKeepCalling
  <1>8. AbortSound'
    <2>1. ASSUME NEW x \in Listed' \ blocked' PROVE x = target[t] /\ target[t] \in blocked
      BY <1>3, <1>4, <2>1 DEF Listed
    <2>2. target[t] \in blocked => pc'[t] = "abortWake"
      BY <1>1 DEF IInv, Typed, CallsTyped
    <2> QED
      BY <1>1, <2>1, <2>2 DEF AbortSound
  <1>9. LocksSound'
    BY <1>1 DEF LocksSound, IInv, Typed, CallsTyped, queueVars
  <1> QED
    BY <1>2, <1>4, <1>6, <1>7, <1>8, <1>9 DEF IInv

LEMMA AbortWakeStep ==
    ASSUME IInv, NEW t \in Tasks, AbortWake(t), UNCHANGED program
    PROVE  IInv'
  <1>1. /\ pc[t] = "abortWake" /\ suspender = t /\ t # Nobody /\ CallSound(t)
        /\ target[t] \in Tasks /\ target[t] \notin blocked
        /\ pc' = [pc EXCEPT ![t] = "resume"]
        /\ UNCHANGED <<queueVars, blocked, suspender, kind, goal, xTicksToWait,
                       elapsed, target, asked, timeVars>>
    BY Turns DEF AbortWake, CallSound, Goto, Exclusive
  <1>2. goal[t] = "abort" /\ kind[t] = "abort"
    BY <1>1 DEF CallSound
  <1>3. Typed'
    <2>1. CountsTyped' /\ TimesTyped'
      BY <1>1 DEF IInv, Typed, CountsTyped, TimesTyped, queueVars, timeVars, uxLength
    <2>2. ucDelayAborted' \in [Tasks -> BOOLEAN]
      <3>1. \E b \in BOOLEAN : ucDelayAborted' = [ucDelayAborted EXCEPT ![target[t]] = b]
        BY Zenon DEF AbortWake, IInv, Typed, CallsTyped
      <3> QED
        BY <3>1, Zenon DEF IInv, Typed, CallsTyped
    <2>3. CallsTyped'
      BY <1>1, <2>2 DEF IInv, Typed, CallsTyped, Places
    <2> QED
      BY <2>1, <2>3 DEF Typed
  <1>4. ListsSound' /\ Shrinks /\ Listed' = Listed \ {target[t]}
    BY <1>1, AbortWakeFacts DEF IInv
  <1>5. TakesTurn(t)
    BY <1>1 DEF TakesTurn, OthersStay, IInv, Typed, CallsTyped
  <1>6. WaitersSound'
    <2>1. t \notin Listed
      BY <1>1 DEF IInv, WaitersSound, WaiterSound
    <2> QED
      BY <1>4, <1>5, <2>1, OthersKeepWaiting DEF TakesTurn, Shrinks, Listed
  <1>7. CallsSound'
    <2>1. CallSound(t)'
      BY <1>1, <1>2 DEF IInv, Typed, CallsTyped, CallSound, Exclusive, Places, Kinds
    <2> QED
      BY <1>5, <2>1, OthersKeepCalling
  <1>8. Listed' \subseteq blocked'
    BY <1>1, <1>4 DEF IInv, AbortSound, Shrinks
  <1>9. AbortSound'
    BY <1>8 DEF AbortSound
  <1>10. LocksSound'
    BY <1>1 DEF LocksSound, IInv, Typed, CallsTyped, queueVars, timeVars
  <1> QED
    BY <1>3, <1>4, <1>6, <1>7, <1>9, <1>10 DEF IInv

-----------------------------------------------------------------------------
(* The interrupts: they move no task along in its call. *)

LEMMA InterruptStep ==
    ASSUME IInv, ListsSound', Shrinks, Typed', LocksSound',
           UNCHANGED <<program, suspender, pc, kind, goal, target>>
    PROVE  IInv'
  <1>1. CallsSound'
    BY DEF IInv, CallsSound, CallSound, Shrinks
  <1>2. WaitersSound'
    BY DEF IInv, WaitersSound, WaiterSound, Shrinks
  <1>3. AbortSound'
    BY DEF IInv, AbortSound, Shrinks
  <1> QED
    BY <1>1, <1>2, <1>3 DEF IInv

LEMMA CountedType ==
    ASSUME NEW c \in (-LockMax - 1)..LockMax
    PROVE  Counted(c) \in (-LockMax - 1)..LockMax
  BY LockAssumption DEF Counted

LEMMA SendFromISRStep ==
    ASSUME IInv, xQueueGenericSendFromISR, UNCHANGED program
    PROVE  IInv'
  <1>1. /\ uxMessagesWaiting < uxLength /\ uxMessagesWaiting' = uxMessagesWaiting + 1
        /\ \/ cTxLock = -1 /\ WakeReceiver /\ UNCHANGED cTxLock
           \/ cTxLock # -1 /\ cTxLock' = Counted(cTxLock) /\ UNCHANGED <<listVars, left>>
        /\ UNCHANGED <<cRxLock, suspender, pc, kind, goal, xTicksToWait, elapsed,
                       ucDelayAborted, target, asked, uxPendedTicks, waited>>
    BY DEF xQueueGenericSendFromISR, queueUNLOCKED, callVars
  <1>2. Typed'
    <2>1. uxMessagesWaiting' \in 0..uxLength'
      BY <1>1, LengthType DEF uxLength, IInv, Typed, CountsTyped
    <2>2. cTxLock' \in (-LockMax - 1)..LockMax
      BY <1>1, CountedType DEF IInv, Typed, CountsTyped
    <2> QED
      BY <1>1, <2>1, <2>2 DEF IInv, Typed, CountsTyped, CallsTyped, TimesTyped
  <1>3. ListsSound' /\ Shrinks
    BY <1>1, WakeReceiverFacts, ListsStay DEF IInv
  <1>4. suspender = Nobody => UNCHANGED xPendingReadyList
    BY <1>1, NoneMadePending DEF listVars
  <1>5. LocksSound'
    BY <1>1, <1>4 DEF IInv, LocksSound, queueUNLOCKED
  <1> QED
    BY <1>1, <1>2, <1>3, <1>5, InterruptStep

LEMMA ReceiveFromISRStep ==
    ASSUME IInv, xQueueReceiveFromISR, UNCHANGED program
    PROVE  IInv'
  <1>1. /\ uxMessagesWaiting > 0 /\ uxMessagesWaiting' = uxMessagesWaiting - 1
        /\ \/ cRxLock = -1 /\ WakeSender /\ UNCHANGED cRxLock
           \/ cRxLock # -1 /\ cRxLock' = Counted(cRxLock) /\ UNCHANGED <<listVars, left>>
        /\ UNCHANGED <<cTxLock, suspender, pc, kind, goal, xTicksToWait, elapsed,
                       ucDelayAborted, target, asked, uxPendedTicks, waited>>
    BY DEF xQueueReceiveFromISR, queueUNLOCKED, callVars
  <1>2. Typed'
    <2>1. uxMessagesWaiting' \in 0..uxLength'
      BY <1>1, LengthType DEF uxLength, IInv, Typed, CountsTyped
    <2>2. cRxLock' \in (-LockMax - 1)..LockMax
      BY <1>1, CountedType DEF IInv, Typed, CountsTyped
    <2> QED
      BY <1>1, <2>1, <2>2 DEF IInv, Typed, CountsTyped, CallsTyped, TimesTyped
  <1>3. ListsSound' /\ Shrinks
    BY <1>1, WakeSenderFacts, ListsStay DEF IInv
  <1>4. suspender = Nobody => UNCHANGED xPendingReadyList
    BY <1>1, NoneMadePending DEF listVars
  <1>5. LocksSound'
    BY <1>1, <1>4 DEF IInv, LocksSound, queueUNLOCKED
  <1> QED
    BY <1>1, <1>2, <1>3, <1>5, InterruptStep

LEMMA TickStep ==
    ASSUME IInv, Tick
    PROVE  IInv'
  <1>1. /\ UNCHANGED <<program, uxMessagesWaiting, cTxLock, cRxLock, xPendingReadyList,
                       suspender, pc, kind, goal, xTicksToWait, ucDelayAborted,
                       target, asked>>
        /\ \/ suspender = Nobody /\ CountTicks(blocked, 1) /\ UNCHANGED uxPendedTicks
           \/ /\ suspender # Nobody /\ uxPendedTicks < MaxPended
              /\ uxPendedTicks' = uxPendedTicks + 1
              /\ UNCHANGED <<blocked, xTasksWaitingToSend, xTasksWaitingToReceive,
                             left, elapsed>>
    BY DEF Tick, xTaskIncrementTick, queueVars
  <1>2. waited' \in [Tasks -> 0..MaxDelay]
    <2>1. waited' = [t \in Tasks |->
                      IF Timing(t) /\ asked[t] # MaxDelay /\ waited[t] < asked[t]
                      THEN waited[t] + 1 ELSE waited[t]]
      BY DEF Tick, xTaskIncrementTick
    <2>2. ASSUME NEW t \in Tasks PROVE waited'[t] \in 0..MaxDelay
      <3>1. waited[t] \in 0..MaxDelay /\ asked[t] \in 0..MaxDelay /\ MaxDelay \in Nat
        BY WaitsAssumption DEF IInv, Typed, TimesTyped
      <3> QED
        BY <2>1, <3>1
    <2> QED
      BY <2>1, <2>2
  <1>3. Typed'
    <2>1. CountsTyped'
      BY <1>1, PendedAssumption DEF IInv, Typed, CountsTyped, uxLength
    <2>2. CallsTyped'
      BY <1>1 DEF IInv, Typed, CallsTyped
    <2>3. elapsed' \in [Tasks -> 0..MaxDelay]
      BY <1>1, TicksCounted DEF IInv, Typed, TimesTyped
    <2> QED
      BY <1>1, <1>2, <2>1, <2>2, <2>3 DEF IInv, Typed, TimesTyped
  <1>4. ListsSound' /\ Shrinks
    <2>1. CASE suspender = Nobody
      <3>1. xPendingReadyList = <<>> /\ ListsSound
        BY <2>1 DEF IInv, LocksSound
      <3>2. blocked = blocked \ Pnd
        BY <3>1, ListedAreTasks
      <3> QED
        BY <1>1, <2>1, <3>1, <3>2, CountTicksFacts
    <2>2. CASE suspender # Nobody
      BY <1>1, <2>2, ListsStay DEF IInv, listVars
    <2> QED
      BY <2>1, <2>2
  <1>5. LocksSound'
    BY <1>1 DEF IInv, LocksSound
  <1> QED
    BY <1>1, <1>3, <1>4, <1>5, InterruptStep

-----------------------------------------------------------------------------
LEMMA InitIInv == Init => IInv
  <1> SUFFICES ASSUME Init PROVE IInv
    OBVIOUS
  <1> USE DEF Init
  <1>1. program \in Programs /\ uxLength \in Nat \ {0}
    BY LengthType
  <1>2. Typed
    <2>1. CountsTyped
      BY <1>1, LockAssumption, PendedAssumption DEF CountsTyped, queueUNLOCKED
    <2>2. CallsTyped /\ TimesTyped
      BY WaitsAssumption DEF CallsTyped, TimesTyped, Places
    <2> QED
      BY <2>1, <2>2 DEF Typed
  <1>3. ListsSound /\ Listed = {}
    <2>1. <<>> \in Seq(Tasks) /\ IsInjective(<<>>) /\ Range(<<>>) = {}
      BY DEF IsInjective, Range
    <2>2. Snd = {} /\ Rcv = {} /\ Pnd = {}
      BY <2>1 DEF Snd, Rcv, Pnd
    <2> QED
      BY <2>1, <2>2, WaitsAssumption DEF ListsSound, Listed
  <1>4. CallsSound
    BY NobodyAssumption DEF CallsSound, CallSound, Exclusive, Places
  <1>5. WaitersSound /\ AbortSound
    BY <1>3 DEF WaitersSound, AbortSound
  <1>6. LocksSound
    BY DEF LocksSound
  <1> QED
    BY <1>1, <1>2, <1>3, <1>4, <1>5, <1>6 DEF IInv

LEMMA NextIInv == IInv /\ [Next]_vars => IInv'
  <1> SUFFICES ASSUME IInv, [Next]_vars PROVE IInv'
    OBVIOUS
  <1>1. CASE UNCHANGED vars
    BY <1>1 DEF vars, queueVars, listVars, callVars, timeVars, IInv, Typed, CountsTyped,
                CallsTyped, TimesTyped, ListsSound, CallsSound, CallSound, WaitersSound,
                WaiterSound, AbortSound, LocksSound, Listed, Snd, Rcv, Pnd, uxLength
  <1>2. CASE Interrupt
    BY <1>2, TickStep, SendFromISRStep, ReceiveFromISRStep DEF Interrupt
  <1>3. ASSUME NEW t \in Tasks, TaskStep(t) PROVE IInv'
    BY <1>3, SendStep, ReceiveStep, PeekStep, TryFailsStep, SuspendStep, LockStep,
       CheckForTimeOutStep, CheckAgainStep, PlaceStep, UnlockTxStep, UnlockRxStep,
       ResumeStep, RecheckStep, AbortCheckStep, AbortWakeStep DEF TaskStep, Blocking
  <1>4. ASSUME NEW t \in Tasks, Begin(t) PROVE IInv'
    BY <1>4, CallStep, AbortBeginStep, ResetStep DEF Begin
  <1> QED
    BY <1>1, <1>2, <1>3, <1>4 DEF Next

LEMMA AlwaysIInv == Spec => []IInv
  BY InitIInv, NextIInv, PTL DEF Spec

LEMMA IInvLists == IInv => ListsConsistent
  <1> SUFFICES ASSUME IInv PROVE ListsConsistent
    OBVIOUS
  <1>1. TypeOK
    BY ListedAreTasks DEF IInv, Typed, CountsTyped, CallsTyped, TimesTyped, Places, ListsSound, TypeOK
  <1>2. IsInjective(Waiting) /\ Range(Waiting) = Listed
    <2> DEFINE both == xTasksWaitingToSend \o xTasksWaitingToReceive
    <2>1. both \in Seq(Tasks) /\ IsInjective(both) /\ Range(both) = Snd \cup Rcv
      BY ConcatFacts DEF IInv, ListsSound, Snd, Rcv
    <2> HIDE DEF both
    <2>2. IsInjective(both \o xPendingReadyList)
          /\ Range(both \o xPendingReadyList) = Snd \cup Rcv \cup Pnd
      <3>1. Range(both) \cap Range(xPendingReadyList) = {}
        BY <2>1 DEF IInv, ListsSound, Pnd
      <3> QED
        BY <2>1, <3>1, ConcatFacts DEF IInv, ListsSound, Pnd
    <2> QED
      BY <2>2 DEF both, Waiting, Listed
  <1>3. blocked \subseteq Range(Waiting)
    BY <1>2 DEF IInv, ListsSound
  <1>4. \A t \in Range(Waiting) \ blocked :
            \E a \in Tasks : pc[a] = "abortWake" /\ target[a] = t
    BY <1>2 DEF IInv, AbortSound
  <1>5. \A t \in Tasks : pc[t] \in Exclusive <=> suspender = t
    BY DEF IInv, CallsSound, CallSound
  <1>6. suspender = Nobody =>
            /\ xPendingReadyList = <<>> /\ uxPendedTicks = 0
            /\ cTxLock = queueUNLOCKED /\ cRxLock = queueUNLOCKED
    BY NobodyAssumption DEF IInv, LocksSound
  <1> QED
    BY <1>1, <1>2, <1>3, <1>4, <1>5, <1>6 DEF ListsConsistent

(* Every wait can end: a blocked task is on one list an event takes it      *)
(* from, once, whatever the tasks call and the interrupts do (queue.c:876,  *)
(* tasks.c:2984).                                                           *)
THEOREM ListsAlwaysConsistent == Spec => []ListsConsistent
  BY AlwaysIInv, IInvLists, PTL

-----------------------------------------------------------------------------
(* Time: what is left of a wait, and what was waited already, make up what  *)
(* the caller asked for, as long as nobody aborts delays.                   *)

NoAbort == \A u \in Tasks : "abort" \notin program.calls[u]

WaitAddsUp(t) ==
    \/ asked[t] = MaxDelay \/ asked[t] <= waited[t]
    \/ asked[t] - xTicksToWait[t] + elapsed[t] + uxPendedTicks <= waited[t]

TimedTask(t) ==
    /\ kind[t] # "abort" /\ ucDelayAborted[t] = FALSE
    /\ pc[t] # "out" => /\ xTicksToWait[t] <= asked[t]
                        /\ asked[t] = MaxDelay => xTicksToWait[t] = MaxDelay
    /\ pc[t] = "enter" => xTicksToWait[t] = asked[t]
    /\ pc[t] \notin {"out", "gaveUp", "enter"} => WaitAddsUp(t)
    /\ pc[t] = "gaveUp" => asked[t] # MaxDelay /\ asked[t] <= waited[t]
    /\ pc[t] = "recheck" => xTicksToWait[t] = 0
    /\ (pc[t] \in {"unlockTx", "unlockRx", "resume"} /\ goal[t] = "expire")
            => xTicksToWait[t] = 0

Timed == NoAbort => \A t \in Tasks : TimedTask(t)

TimesStay(u) ==
    /\ pc'[u] = pc[u] /\ kind'[u] = kind[u] /\ goal'[u] = goal[u]
    /\ xTicksToWait'[u] = xTicksToWait[u] /\ elapsed'[u] = elapsed[u]
    /\ asked'[u] = asked[u] /\ waited'[u] = waited[u]
    /\ ucDelayAborted'[u] = ucDelayAborted[u]

LEMMA TimesType ==
    ASSUME IInv, NEW t \in Tasks
    PROVE  /\ xTicksToWait[t] \in 0..MaxDelay /\ elapsed[t] \in 0..MaxDelay
           /\ asked[t] \in 0..MaxDelay /\ waited[t] \in 0..MaxDelay
           /\ uxPendedTicks \in Nat /\ MaxDelay \in Nat \ {0}
  BY PendedAssumption, WaitsAssumption DEF IInv, Typed, TimesTyped, CountsTyped

(* A step that counts no ticks and changes the times of one task at most.   *)
LEMMA OneTaskTimed ==
    ASSUME NEW t \in Tasks, \A u \in Tasks : TimedTask(u), UNCHANGED uxPendedTicks,
           \A u \in Tasks \ {t} : TimesStay(u), TimedTask(t)'
    PROVE  \A u \in Tasks : TimedTask(u)'
  BY DEF TimesStay, TimedTask, WaitAddsUp

(* A wait that is over: the caller was not told to wait for ever.           *)
LEMMA WaitOver ==
    ASSUME IInv, NEW t \in Tasks, TimedTask(t), xTicksToWait[t] = 0,
           pc[t] # "out", pc[t] # "gaveUp"
    PROVE  asked[t] # MaxDelay /\ asked[t] <= waited[t]
  BY TimesType DEF TimedTask, WaitAddsUp

LEMMA CallTimed ==
    ASSUME IInv, NEW t \in Tasks, NEW k \in Kinds, NEW w \in Waits, Call(t, k, w),
           \A u \in Tasks : TimedTask(u)
    PROVE  \A u \in Tasks : TimedTask(u)'
  <1>1. \A u \in Tasks \ {t} : TimesStay(u)
    BY DEF Call, Goto, TimesStay, IInv, Typed, CallsTyped, TimesTyped
  <1>2. /\ pc'[t] = "enter" /\ kind'[t] = k /\ xTicksToWait'[t] = w /\ asked'[t] = w
        /\ ucDelayAborted'[t] = ucDelayAborted[t] /\ UNCHANGED uxPendedTicks
    BY DEF Call, Goto, IInv, Typed, CallsTyped, TimesTyped
  <1>3. w \in 0..MaxDelay /\ k # "abort"
    BY WaitsAssumption DEF Kinds
  <1>4. TimedTask(t)'
    BY <1>2, <1>3 DEF TimedTask
  <1> QED
    BY <1>1, <1>2, <1>4, OneTaskTimed

LEMMA PassTimed ==
    ASSUME IInv, NEW t \in Tasks, ReturnPass(t), \A u \in Tasks : TimedTask(u)
    PROVE  \A u \in Tasks : TimedTask(u)'
  <1>1. \A u \in Tasks \ {t} : TimesStay(u)
    BY DEF ReturnPass, Goto, TimesStay, IInv, Typed, CallsTyped, TimesTyped
  <1>2. /\ pc'[t] = "out" /\ kind'[t] = "none"
        /\ ucDelayAborted'[t] = ucDelayAborted[t] /\ UNCHANGED uxPendedTicks
    BY DEF ReturnPass, Goto, IInv, Typed, CallsTyped
  <1>3. TimedTask(t)'
    BY <1>2 DEF TimedTask
  <1> QED
    BY <1>1, <1>2, <1>3, OneTaskTimed

LEMMA TryFailsTimed ==
    ASSUME IInv, NEW t \in Tasks, TryFails(t), \A u \in Tasks : TimedTask(u)
    PROVE  \A u \in Tasks : TimedTask(u)'
  <1>1. \A u \in Tasks \ {t} : TimesStay(u)
    BY DEF TryFails, ReturnFail, Goto, TimesStay, IInv, Typed, CallsTyped, TimesTyped
  <1>2. /\ pc[t] \in {"enter", "try"} /\ uxPendedTicks = 0 /\ UNCHANGED uxPendedTicks
        /\ kind'[t] = kind[t] /\ xTicksToWait'[t] = xTicksToWait[t]
        /\ ucDelayAborted'[t] = ucDelayAborted[t] /\ asked'[t] = asked[t]
    BY Turns DEF TryFails, Trying, Exclusive, ReturnFail
  <1>3. TimedTask(t)'
    <2>1. CASE xTicksToWait[t] = 0
      <3>1. pc'[t] = "gaveUp" /\ waited'[t] = waited[t]
        BY <2>1 DEF TryFails, ReturnFail, Goto, IInv, Typed, CallsTyped
      <3>2. asked[t] # MaxDelay /\ asked[t] <= waited[t]
        BY <1>2, <2>1, WaitOver
      <3> QED
        BY <1>2, <3>1, <3>2 DEF TimedTask
    <2>2. CASE xTicksToWait[t] # 0 /\ pc[t] = "enter"
      <3>1. pc'[t] = "failed" /\ waited'[t] = 0 /\ elapsed'[t] = 0
        BY <2>2 DEF TryFails, Goto, IInv, Typed, CallsTyped, TimesTyped
      <3>2. xTicksToWait[t] = asked[t] /\ asked[t] \in Nat
        BY <2>2, TimesType DEF TimedTask
      <3>3. WaitAddsUp(t)'
        BY <1>2, <3>1, <3>2 DEF WaitAddsUp
      <3> QED
        BY <1>2, <2>2, <3>1, <3>3 DEF TimedTask
    <2>3. CASE xTicksToWait[t] # 0 /\ pc[t] = "try"
      <3>1. pc'[t] = "failed" /\ waited'[t] = waited[t] /\ elapsed'[t] = elapsed[t]
        BY <2>3 DEF TryFails, Goto, IInv, Typed, CallsTyped, TimesTyped
      <3>2. WaitAddsUp(t)'
        BY <1>2, <2>3, <3>1 DEF WaitAddsUp, TimedTask
      <3> QED
        BY <1>2, <2>3, <3>1, <3>2 DEF TimedTask
    <2> QED
      BY <1>2, <2>1, <2>2, <2>3
  <1> QED
    BY <1>1, <1>2, <1>3, OneTaskTimed

(* The rounds in which no time is added or taken away.                      *)
LEMMA RoundTimed ==
    ASSUME IInv, NEW t \in Tasks, \A u \in Tasks : TimedTask(u),
           \/ vTaskSuspendAll(t) \/ prvLockQueue(t) \/ CheckAgain(t)
           \/ vTaskPlaceOnEventList(t) \/ UnlockTx(t) \/ UnlockRx(t)
    PROVE  \A u \in Tasks : TimedTask(u)'
  <1>1. UNCHANGED <<kind, xTicksToWait, elapsed, asked, waited, uxPendedTicks>>
    BY DEF vTaskSuspendAll, prvLockQueue, CheckAgain, vTaskPlaceOnEventList, UnlockTx,
           UnlockRx, timeVars
  <1>2. /\ pc' = [pc EXCEPT ![t] = pc'[t]] /\ goal' = [goal EXCEPT ![t] = goal'[t]]
        /\ ucDelayAborted' \in {ucDelayAborted, [ucDelayAborted EXCEPT ![t] = FALSE]}
    BY DEF vTaskSuspendAll, prvLockQueue, CheckAgain, vTaskPlaceOnEventList, UnlockTx,
           UnlockRx, Unlocking, Goto, IInv, Typed, CallsTyped
  <1>3. /\ pc[t] \notin {"out", "gaveUp", "enter"}
        /\ pc'[t] \notin {"out", "gaveUp", "enter", "recheck"}
        /\ pc'[t] \in {"unlockTx", "unlockRx", "resume"} =>
              \/ goal'[t] \in {"block", "retry"}
              \/ goal'[t] = goal[t] /\ pc[t] \in {"unlockTx", "unlockRx", "resume"}
    BY DEF vTaskSuspendAll, prvLockQueue, CheckAgain, vTaskPlaceOnEventList, UnlockTx,
           UnlockRx, Unlocking, Goto, IInv, Typed, CallsTyped
  <1>4. \A u \in Tasks \ {t} : TimesStay(u)
    BY <1>1, <1>2 DEF TimesStay, IInv, Typed, CallsTyped
  <1>5. TimedTask(t)'
    <2>1. ucDelayAborted'[t] = FALSE
      BY <1>2 DEF TimedTask, IInv, Typed, CallsTyped
    <2> QED
      BY <1>1, <1>3, <2>1 DEF TimedTask, WaitAddsUp
  <1> QED
    BY <1>1, <1>4, <1>5, OneTaskTimed

LEMMA CheckForTimeOutTimed ==
    ASSUME IInv, NEW t \in Tasks, xTaskCheckForTimeOut(t), \A u \in Tasks : TimedTask(u)
    PROVE  \A u \in Tasks : TimedTask(u)'
  <1>1. \A u \in Tasks \ {t} : TimesStay(u)
    BY DEF xTaskCheckForTimeOut, Unlocking, Goto, TimesStay, IInv, Typed, CallsTyped,
           TimesTyped, timeVars
  <1>2. /\ pc[t] = "locked" /\ UNCHANGED <<kind, asked, waited, uxPendedTicks>>
        /\ ucDelayAborted[t] = FALSE /\ ucDelayAborted'[t] = FALSE
    BY DEF xTaskCheckForTimeOut, timeVars, TimedTask, IInv, Typed, CallsTyped
  <1>3. \/ /\ pc'[t] = "check" /\ xTicksToWait'[t] = xTicksToWait[t]
           /\ elapsed'[t] = elapsed[t]
        \/ /\ pc'[t] = "check" /\ xTicksToWait[t] # MaxDelay
           /\ elapsed[t] < xTicksToWait[t]
           /\ xTicksToWait'[t] = xTicksToWait[t] - elapsed[t] /\ elapsed'[t] = 0
        \/ /\ pc'[t] = "unlockTx" /\ xTicksToWait[t] # MaxDelay
           /\ elapsed[t] >= xTicksToWait[t]
           /\ xTicksToWait'[t] = 0 /\ elapsed'[t] = elapsed[t]
    BY <1>2 DEF xTaskCheckForTimeOut, Unlocking, Goto, IInv, Typed, CallsTyped, TimesTyped
  <1>4. TimedTask(t)'
    <2>1. WaitAddsUp(t)'
      BY <1>2, <1>3, TimesType DEF TimedTask, WaitAddsUp
    <2> QED
      BY <1>2, <1>3, <2>1, TimesType DEF TimedTask
  <1> QED
    BY <1>1, <1>2, <1>4, OneTaskTimed

LEMMA RecheckTimed ==
    ASSUME IInv, NEW t \in Tasks, RecheckEmpty(t), \A u \in Tasks : TimedTask(u)
    PROVE  \A u \in Tasks : TimedTask(u)'
  <1>1. \A u \in Tasks \ {t} : TimesStay(u)
    BY DEF RecheckEmpty, ReturnFail, Goto, TimesStay, IInv, Typed, CallsTyped,
           TimesTyped, timeVars
  <1>2. /\ pc[t] = "recheck" /\ pc'[t] \in {"gaveUp", "try"}
        /\ UNCHANGED <<kind, xTicksToWait, elapsed, asked, waited, uxPendedTicks,
                       ucDelayAborted>>
    BY DEF RecheckEmpty, ReturnFail, Goto, IInv, Typed, CallsTyped, timeVars
  <1>3. asked[t] # MaxDelay /\ asked[t] <= waited[t]
    BY <1>2, WaitOver DEF TimedTask
  <1>4. TimedTask(t)'
    BY <1>2, <1>3 DEF TimedTask, WaitAddsUp
  <1> QED
    BY <1>1, <1>2, <1>4, OneTaskTimed

(* The ticks pended are counted: they move from one term to another.        *)
LEMMA ResumeTimed ==
    ASSUME IInv, NEW t \in Tasks, xTaskResumeAll(t), \A u \in Tasks : TimedTask(u)
    PROVE  \A u \in Tasks : TimedTask(u)'
  <1>1. /\ pc[t] = "resume" /\ uxPendedTicks' = 0
        /\ goal' = [goal EXCEPT ![t] = "none"]
        /\ kind' = [kind EXCEPT ![t] = IF goal[t] = "abort" THEN "none" ELSE @]
        /\ UNCHANGED <<xTicksToWait, ucDelayAborted, asked, waited>>
    BY DEF xTaskResumeAll
  <1>2. pc' = [pc EXCEPT ![t] = pc'[t]]
        /\ \/ goal[t] \in {"block", "retry"} /\ pc'[t] = "try"
           \/ goal[t] = "expire" /\ pc'[t] \in {"gaveUp", "recheck"}
    <2>1. goal[t] \in {"block", "retry", "expire"}
      BY <1>1, Turns DEF CallSound, TimedTask
    <2>2. CASE goal[t] \in {"block", "retry"}
      <3>1. pc' = [pc EXCEPT ![t] = "try"]
        BY <2>2 DEF xTaskResumeAll, Goto
      <3> QED
        BY <2>2, <3>1 DEF IInv, Typed, CallsTyped
    <2>3. CASE goal[t] = "expire"
      <3>1. pc' = [pc EXCEPT ![t] = "gaveUp"] \/ pc' = [pc EXCEPT ![t] = "recheck"]
        BY <2>3 DEF xTaskResumeAll, Goto
      <3> QED
        BY <2>3, <3>1 DEF IInv, Typed, CallsTyped
    <2> QED
      BY <2>1, <2>2, <2>3
  <1>3. ASSUME NEW u \in Tasks, pc[u] \notin {"out", "gaveUp", "enter"}
        PROVE  elapsed'[u] \in Int /\ elapsed'[u] <= elapsed[u] + uxPendedTicks
    <2>1. elapsed'[u] = Later(u, uxPendedTicks)
      BY DEF xTaskResumeAll, CountTicks
    <2> QED
      BY <2>1, TimesType DEF Later
  <1>4. ASSUME NEW u \in Tasks, pc[u] \notin {"out", "gaveUp", "enter"}
        PROVE  WaitAddsUp(u)'
    <2>1. WaitAddsUp(u) /\ elapsed'[u] <= elapsed[u] + uxPendedTicks /\ elapsed'[u] \in Int
      BY <1>3, <1>4 DEF TimedTask
    <2> QED
      BY <1>1, <2>1, TimesType DEF WaitAddsUp
  <1>5. ASSUME NEW u \in Tasks, u # t PROVE TimedTask(u)'
    <2>1. pc'[u] = pc[u] /\ goal'[u] = goal[u] /\ kind'[u] = kind[u]
      BY <1>1, <1>2, <1>5 DEF IInv, Typed, CallsTyped
    <2> QED
      BY <1>1, <1>4, <2>1 DEF TimedTask
  <1>6. TimedTask(t)'
    <2>1. goal[t] # "abort" /\ kind'[t] = kind[t] /\ goal'[t] = "none"
      BY <1>1, <1>2 DEF IInv, Typed, CallsTyped
    <2>2. WaitAddsUp(t)'
      BY <1>1, <1>4
    <2>3. goal[t] = "expire" => /\ xTicksToWait[t] = 0
                                /\ asked[t] # MaxDelay /\ asked[t] <= waited[t]
      BY <1>1, WaitOver DEF TimedTask
    <2> QED
      BY <1>1, <1>2, <2>1, <2>2, <2>3 DEF TimedTask
  <1> QED
    BY <1>5, <1>6

LEMMA TickTimed ==
    ASSUME IInv, Tick, \A u \in Tasks : TimedTask(u)
    PROVE  \A u \in Tasks : TimedTask(u)'
  <1>1. UNCHANGED <<pc, kind, goal, xTicksToWait, ucDelayAborted, asked>>
    BY DEF Tick, xTaskIncrementTick
  <1>2. ASSUME NEW u \in Tasks, pc[u] \notin {"out", "gaveUp", "enter"}
        PROVE  WaitAddsUp(u)'
    <2>1. Timing(u) /\ WaitAddsUp(u)
      BY <1>2 DEF Timing, TimedTask
    <2>2. waited'[u] = IF asked[u] # MaxDelay /\ waited[u] < asked[u]
                       THEN waited[u] + 1 ELSE waited[u]
      BY <2>1 DEF Tick, xTaskIncrementTick
    <2>3. /\ xTicksToWait[u] \in Int /\ elapsed[u] \in Int /\ asked[u] \in Int
          /\ waited[u] \in 0..MaxDelay /\ uxPendedTicks \in Int /\ MaxDelay \in Int
      BY TimesType
    <2>4. CASE suspender = Nobody
      <3>1. elapsed'[u] = Later(u, 1) /\ uxPendedTicks' = uxPendedTicks
        BY <2>4 DEF Tick, xTaskIncrementTick, CountTicks
      <3>2. elapsed'[u] <= elapsed[u] + 1 /\ elapsed'[u] \in Int
        BY <2>3, <3>1 DEF Later
      <3> QED
        BY <1>1, <2>1, <2>2, <2>3, <3>1, <3>2 DEF WaitAddsUp
    <2>5. CASE suspender # Nobody
      <3>1. elapsed'[u] = elapsed[u] /\ uxPendedTicks' = uxPendedTicks + 1
        BY <2>5 DEF Tick, xTaskIncrementTick
      <3> QED
        BY <1>1, <2>1, <2>2, <2>3, <3>1 DEF WaitAddsUp
    <2> QED
      BY <2>4, <2>5
  <1>3. ASSUME NEW u \in Tasks, pc[u] = "gaveUp" PROVE waited'[u] = waited[u]
    BY <1>3 DEF Tick, xTaskIncrementTick, Timing
  <1> QED
    BY <1>1, <1>2, <1>3 DEF TimedTask

LEMMA OthersTimed ==
    ASSUME \A u \in Tasks : TimedTask(u),
           UNCHANGED <<pc, kind, goal, xTicksToWait, elapsed, asked, waited,
                       ucDelayAborted, uxPendedTicks>>
    PROVE  \A u \in Tasks : TimedTask(u)'
  BY DEF TimedTask, WaitAddsUp

LEMMA NextTimed == IInv /\ Timed /\ [Next]_vars => Timed'
  <1> SUFFICES ASSUME IInv, Timed, [Next]_vars, NoAbort' PROVE \A u \in Tasks : TimedTask(u)'
    BY DEF Timed
  <1>1. UNCHANGED program
    BY DEF Next, Interrupt, Tick, TaskStep, Begin, vars
  <1>2. NoAbort /\ \A u \in Tasks : TimedTask(u)
    BY <1>1 DEF NoAbort, Timed
  <1>3. CASE UNCHANGED vars
    BY <1>2, <1>3, OthersTimed DEF vars, callVars, timeVars
  <1>4. CASE Interrupt
    <2>1. CASE Tick
      BY <1>2, <2>1, TickTimed
    <2>2. CASE xQueueGenericSendFromISR \/ xQueueReceiveFromISR
      BY <1>2, <2>2, OthersTimed
         DEF xQueueGenericSendFromISR, xQueueReceiveFromISR, callVars
    <2> QED
      BY <1>4, <2>1, <2>2 DEF Interrupt
  <1>5. ASSUME NEW t \in Tasks, TaskStep(t) PROVE \A u \in Tasks : TimedTask(u)'
    <2>1. kind[t] # "abort" /\ CallSound(t)
      BY <1>2, Turns DEF TimedTask
    <2>2. ~ AbortCheck(t) /\ ~ AbortWake(t)
      BY <2>1 DEF AbortCheck, AbortWake, CallSound
    <2>3. CASE SendSucceeds(t) \/ ReceiveSucceeds(t) \/ PeekSucceeds(t)
      BY <1>2, <2>3, PassTimed DEF SendSucceeds, ReceiveSucceeds, PeekSucceeds
    <2>4. CASE Blocking(t)
      BY <1>2, <2>4, TryFailsTimed, RoundTimed, CheckForTimeOutTimed, RecheckTimed,
         ResumeTimed DEF Blocking
    <2> QED
      BY <1>5, <2>2, <2>3, <2>4 DEF TaskStep
  <1>6. ASSUME NEW t \in Tasks, Begin(t) PROVE \A u \in Tasks : TimedTask(u)'
    <2>1. CASE xQueueGenericReset(t)
      BY <1>2, <2>1, OthersTimed DEF xQueueGenericReset, callVars
    <2> QED
      BY <1>2, <1>6, <2>1, CallTimed DEF Begin, NoAbort
  <1> QED
    BY <1>3, <1>4, <1>5, <1>6 DEF Next

LEMMA InitTimed == Init => Timed
  BY DEF Init, Timed, TimedTask

LEMMA TimedNeverEarly == IInv /\ Timed => NeverEarly
  BY TimesType DEF Timed, TimedTask, NoAbort, NeverEarly

(* A call that reports a full or an empty queue waited as long as its       *)
(* caller asked, unless delays are aborted: the rounds of the loop in       *)
(* xQueueGenericSend and xQueueReceive, and the ticks pended meanwhile, add *)
(* up (tasks.c:2984, xTaskCheckForTimeOut).                                 *)
THEOREM NeverTooEarly == Spec => []NeverEarly
  <1>1. Init => IInv /\ Timed
    BY InitIInv, InitTimed
  <1>2. IInv /\ Timed /\ [Next]_vars => (IInv /\ Timed)'
    BY NextIInv, NextTimed
  <1>3. IInv /\ Timed => NeverEarly
    BY TimedNeverEarly
  <1> QED
    BY <1>1, <1>2, <1>3, PTL DEF Spec

-----------------------------------------------------------------------------
(* No wake-up is lost.  Every item has a receiver that is coming for it, or *)
(* a count in cTxLock that will wake one; every free place has a sender, or *)
(* a count in cRxLock.  Two things are assumed.  No more interrupts use a   *)
(* locked queue than an int8_t counts.  And a queue longer than one is not  *)
(* reset: xQueueReset lets one sender in, however many places it frees.     *)

FewInterrupts == MaxLocked <= LockMax
ResetsAreFilled ==
    \A p \in Programs : p.uxLength = 1 \/ \A t \in Tasks : "reset" \notin p.calls[t]

(* A task that will look at the queue before it does anything else.         *)
Comes(t) == t \in Pnd \/ (t \notin blocked /\ pc[t] \in {"try", "recheck"})
Receivers == {t \in Tasks : kind[t] \in {"receive", "peek"} /\ t \notin Rcv /\ Comes(t)}
Senders == {t \in Tasks : kind[t] = "send" /\ t \notin Snd /\ Comes(t)}

(* A task that is about to sleep.                                           *)
ReceiverPlaced == \E t \in Tasks : pc[t] = "place" /\ kind[t] # "send"
SenderPlaced == \E t \in Tasks : pc[t] = "place" /\ kind[t] = "send"

Extra(c) == IF c > 0 THEN c ELSE 0

ItemsCovered == (Rcv # {} \/ ReceiverPlaced) =>
        uxMessagesWaiting <= Cardinality(Receivers) + Extra(cTxLock)
PlacesCovered == (Snd # {} \/ SenderPlaced) =>
        uxLength - uxMessagesWaiting <= Cardinality(Senders) + Extra(cRxLock)

(* The lock counts do not wrap, and the queue is locked while a task puts   *)
(* itself on an event list.                                                 *)
LocksCount ==
    /\ cTxLock >= -1 /\ cRxLock >= -1
    /\ \A t \in Tasks :
          /\ pc[t] \in {"locked", "check", "place", "unlockTx"} => cTxLock # -1
          /\ pc[t] \in {"locked", "check", "place", "unlockTx", "unlockRx"}
                => cRxLock # -1
          /\ pc[t] = "recheck" => kind[t] # "send"

LEMMA OutOfLock ==
    ASSUME IInv, suspender = Nobody, NEW t \in Tasks
    PROVE  pc[t] \notin {"locked", "check", "place", "unlockTx", "unlockRx"}
  BY NobodyAssumption DEF IInv, CallsSound, CallSound, Exclusive

(* One task inside the lock at most: it is the suspender.                   *)
LEMMA OneInLock ==
    ASSUME IInv, NEW t \in Tasks, NEW u \in Tasks, u # t, pc[t] \in Exclusive
    PROVE  pc[u] \notin Exclusive
  BY DEF IInv, CallsSound, CallSound

LEMMA TaskLocksCount ==
    ASSUME IInv, LocksCount, NEW t \in Tasks, TaskStep(t)
    PROVE  LocksCount'
  <1>1. \A u \in Tasks \ {t} : pc'[u] = pc[u] /\ kind'[u] = kind[u]
    <2>1. CASE SendSucceeds(t) \/ ReceiveSucceeds(t) \/ PeekSucceeds(t)
      BY <2>1 DEF SendSucceeds, ReceiveSucceeds, PeekSucceeds, ReturnPass, Goto, IInv, Typed, CallsTyped
    <2>2. CASE xTaskResumeAll(t)
      <3>1. \E l \in Places : pc' = [pc EXCEPT ![t] = l]
        BY <2>2, Turns DEF xTaskResumeAll, CallSound, Goto, Places
      <3> QED
        BY <2>2, <3>1 DEF xTaskResumeAll, IInv, Typed, CallsTyped
    <2>3. CASE \/ TryFails(t) \/ vTaskSuspendAll(t) \/ prvLockQueue(t)
               \/ xTaskCheckForTimeOut(t) \/ CheckAgain(t)
               \/ vTaskPlaceOnEventList(t) \/ UnlockTx(t) \/ UnlockRx(t)
               \/ RecheckEmpty(t) \/ AbortCheck(t) \/ AbortWake(t)
      BY <2>3 DEF TryFails, ReturnFail, vTaskSuspendAll, prvLockQueue,
         xTaskCheckForTimeOut, CheckAgain, vTaskPlaceOnEventList, UnlockTx, UnlockRx,
         RecheckEmpty, AbortCheck, AbortWake, Unlocking, Goto,
         IInv, Typed, CallsTyped
    <2> QED
      BY <2>1, <2>2, <2>3 DEF TaskStep, Blocking
  <1>2. CASE prvLockQueue(t)
    <2>1. pc[t] = "suspended" /\ pc'[t] = "locked"
      BY <1>2 DEF prvLockQueue, Goto, IInv, Typed, CallsTyped
    <2>2. cTxLock' >= 0 /\ cRxLock' >= 0
      <3>1. /\ cTxLock \in Int /\ cRxLock \in Int /\ cTxLock >= -1 /\ cRxLock >= -1
        BY LockAssumption DEF LocksCount, IInv, Typed, CountsTyped
      <3>2. /\ cRxLock' = IF cRxLock = -1 THEN 0 ELSE cRxLock
            /\ cTxLock' = IF cTxLock = -1 THEN 0 ELSE cTxLock
        BY <1>2 DEF prvLockQueue, queueUNLOCKED, queueLOCKED_UNMODIFIED
      <3> QED
        BY <3>1, <3>2
    <2>3. UNCHANGED kind
      BY <1>2 DEF prvLockQueue
    <2>4. cTxLock' \in Int /\ cRxLock' \in Int
      BY <1>2, LockAssumption DEF prvLockQueue, queueLOCKED_UNMODIFIED, IInv, Typed, CountsTyped
    <2> QED
      BY <1>1, <2>1, <2>3, <2>2, <2>4 DEF LocksCount
  <1>3. CASE UnlockTx(t)
    <2>1. /\ pc[t] = "unlockTx" /\ pc'[t] = "unlockRx" /\ cTxLock' = -1 /\ cRxLock' = cRxLock
      BY <1>3 DEF UnlockTx, Goto, queueUNLOCKED, IInv, Typed, CallsTyped
    <2>2. \A u \in Tasks \ {t} : pc[u] \notin Exclusive
      BY <2>1, OneInLock DEF Exclusive
    <2> QED
      BY <1>1, <2>1, <2>2 DEF LocksCount, Exclusive
  <1>4. CASE UnlockRx(t)
    <2>1. /\ pc[t] = "unlockRx" /\ pc'[t] = "resume" /\ cRxLock' = -1 /\ cTxLock' = cTxLock
      BY <1>4 DEF UnlockRx, Goto, queueUNLOCKED, IInv, Typed, CallsTyped
    <2>2. \A u \in Tasks \ {t} : pc[u] \notin Exclusive
      BY <2>1, OneInLock DEF Exclusive
    <2> QED
      BY <1>1, <2>1, <2>2 DEF LocksCount, Exclusive
  <1>5. CASE ~ prvLockQueue(t) /\ ~ UnlockTx(t) /\ ~ UnlockRx(t)
    <2>1. UNCHANGED <<cTxLock, cRxLock>>
      BY <1>5 DEF TaskStep, SendSucceeds, ReceiveSucceeds, PeekSucceeds, Blocking, TryFails,
         vTaskSuspendAll, xTaskCheckForTimeOut, CheckAgain, vTaskPlaceOnEventList,
         xTaskResumeAll, RecheckEmpty, AbortCheck, AbortWake, queueVars
    <2>2. CASE SendSucceeds(t) \/ ReceiveSucceeds(t) \/ PeekSucceeds(t)
      <3>1. pc'[t] = "out"
        BY <2>2 DEF SendSucceeds, ReceiveSucceeds, PeekSucceeds, ReturnPass, Goto, IInv, Typed, CallsTyped
      <3> QED
        BY <1>1, <2>1, <3>1 DEF LocksCount
    <2>3. CASE xTaskResumeAll(t)
      <3>1. /\ pc'[t] \in {"try", "gaveUp", "recheck", "out"}
            /\ pc'[t] = "recheck" => kind'[t] = kind[t] /\ kind[t] # "send"
        <4>1. goal[t] \in {"block", "retry", "expire", "abort"}
          BY <2>3, Turns DEF xTaskResumeAll, CallSound
        <4>2. \/ goal[t] \in {"block", "retry"} /\ pc'[t] = "try"
              \/ goal[t] = "expire" /\ kind[t] = "send" /\ pc'[t] = "gaveUp"
              \/ goal[t] = "expire" /\ kind[t] # "send" /\ pc'[t] = "recheck"
              \/ goal[t] = "abort" /\ pc'[t] = "out"
          BY <2>3, <4>1 DEF xTaskResumeAll, Goto, IInv, Typed, CallsTyped
        <4>3. goal[t] = "expire" => kind'[t] = kind[t]
          BY <2>3 DEF xTaskResumeAll, IInv, Typed, CallsTyped
        <4> QED
          BY <4>2, <4>3
      <3> QED
        BY <1>1, <2>1, <3>1 DEF LocksCount
    <2>4. CASE \/ TryFails(t) \/ vTaskSuspendAll(t) \/ xTaskCheckForTimeOut(t) \/ CheckAgain(t)
               \/ vTaskPlaceOnEventList(t) \/ RecheckEmpty(t) \/ AbortCheck(t) \/ AbortWake(t)
      <3>1. /\ pc'[t] \notin {"locked", "recheck", "unlockRx"}
            /\ pc'[t] \in {"check", "place", "unlockTx"} => pc[t] \in {"locked", "check", "place"}
        BY <2>4 DEF TryFails, ReturnFail, vTaskSuspendAll,
         xTaskCheckForTimeOut, CheckAgain, vTaskPlaceOnEventList,
         RecheckEmpty, AbortCheck, AbortWake, Unlocking, Goto, IInv, Typed, CallsTyped
      <3> QED
        BY <1>1, <2>1, <3>1 DEF LocksCount
    <2> QED
      BY <1>5, <2>2, <2>3, <2>4 DEF TaskStep, Blocking
  <1> QED
    BY <1>2, <1>3, <1>4, <1>5

LEMMA NextLocksCount ==
    ASSUME FewInterrupts
    PROVE  IInv /\ LocksCount /\ [Next]_vars => LocksCount'
  <1> SUFFICES ASSUME IInv, LocksCount, [Next]_vars PROVE LocksCount'
    OBVIOUS
  <1>1. CASE UNCHANGED vars
    BY <1>1 DEF vars, queueVars, callVars, LocksCount
  <1>2. CASE Interrupt
    <2>1. UNCHANGED <<pc, kind>>
      BY <1>2 DEF Interrupt, Tick, xTaskIncrementTick, xQueueGenericSendFromISR,
                  xQueueReceiveFromISR, callVars
    <2>2. CASE Tick
      BY <2>1, <2>2 DEF Tick, xTaskIncrementTick, queueVars, LocksCount
    <2>3. CASE xQueueGenericSendFromISR
      <3>1. /\ cTxLock' = cTxLock \/ (cTxLock # -1 /\ cTxLock' = cTxLock + 1)
            /\ cRxLock' = cRxLock
        BY <2>3, LockAssumption DEF xQueueGenericSendFromISR, Counted, FewInterrupts, queueUNLOCKED,
                         IInv, Typed, CountsTyped
      <3> QED
        BY <2>1, <3>1 DEF LocksCount, IInv, Typed, CountsTyped
    <2>4. CASE xQueueReceiveFromISR
      <3>1. /\ cRxLock' = cRxLock \/ (cRxLock # -1 /\ cRxLock' = cRxLock + 1)
            /\ cTxLock' = cTxLock
        BY <2>4, LockAssumption DEF xQueueReceiveFromISR, Counted, FewInterrupts, queueUNLOCKED,
                         IInv, Typed, CountsTyped
      <3> QED
        BY <2>1, <3>1 DEF LocksCount, IInv, Typed, CountsTyped
    <2> QED
      BY <1>2, <2>2, <2>3, <2>4 DEF Interrupt
  <1>3. ASSUME NEW t \in Tasks, TaskStep(t) PROVE LocksCount'
    BY <1>3, TaskLocksCount
  <1>4. ASSUME NEW t \in Tasks, Begin(t) PROVE LocksCount'
    <2>1. CASE xQueueGenericReset(t)
      <3>1. suspender = Nobody /\ cTxLock' = -1 /\ cRxLock' = -1 /\ UNCHANGED <<pc, kind>>
        BY <2>1 DEF xQueueGenericReset, queueUNLOCKED, callVars
      <3> QED
        BY <3>1, OutOfLock DEF LocksCount
    <2>2. ASSUME NEW k \in Kinds, NEW w \in Waits, Call(t, k, w) PROVE LocksCount'
      <3>1. /\ UNCHANGED <<cTxLock, cRxLock>> /\ pc'[t] = "enter"
            /\ \A u \in Tasks \ {t} : pc'[u] = pc[u] /\ kind'[u] = kind[u]
        BY <2>2 DEF Call, Goto, queueVars, IInv, Typed, CallsTyped
      <3> QED
        BY <3>1 DEF LocksCount
    <2>3. ASSUME NEW x \in Tasks, AbortBegin(t, x) PROVE LocksCount'
      <3>1. /\ UNCHANGED <<cTxLock, cRxLock>> /\ pc'[t] = "abortCheck"
            /\ \A u \in Tasks \ {t} : pc'[u] = pc[u] /\ kind'[u] = kind[u]
        BY <2>3 DEF AbortBegin, Goto, queueVars, IInv, Typed, CallsTyped
      <3> QED
        BY <3>1 DEF LocksCount
    <2> QED
      BY <1>4, <2>1, <2>2, <2>3 DEF Begin
  <1> QED
    BY <1>1, <1>2, <1>3, <1>4 DEF Next

-----------------------------------------------------------------------------
(* How many are coming: steps of task t that leave the others coming.       *)

LEMMA CountKept ==
    ASSUME NEW A \in SUBSET Tasks, NEW B \in SUBSET Tasks
    PROVE  /\ Cardinality(A) \in Nat /\ Cardinality(B) \in Nat
           /\ A \subseteq B => Cardinality(A) <= Cardinality(B)
           /\ \A x : A \ {x} \subseteq B => Cardinality(A) <= Cardinality(B) + 1
           /\ \A x, y : (A \ {x} \subseteq B /\ y \in B /\ y \notin A)
                            => Cardinality(A) <= Cardinality(B)
           /\ \A y : (A \subseteq B /\ y \in B /\ y \notin A)
                            => Cardinality(A) + 1 <= Cardinality(B)
  <1>1. IsFiniteSet(A) /\ IsFiniteSet(B) /\ Cardinality(A) \in Nat /\ Cardinality(B) \in Nat
    BY TasksAssumption, FS_Subset, FS_CardinalityType
  <1>2. ASSUME A \subseteq B PROVE Cardinality(A) <= Cardinality(B)
    BY <1>1, <1>2, FS_Subset
  <1>3. ASSUME NEW x
        PROVE  /\ IsFiniteSet(A \ {x}) /\ Cardinality(A \ {x}) \in Nat
               /\ Cardinality(A) <= Cardinality(A \ {x}) + 1
    <2>1. /\ IsFiniteSet(A \ {x})
          /\ Cardinality(A \ {x}) = IF x \in A THEN Cardinality(A) - 1 ELSE Cardinality(A)
      BY <1>1, FS_RemoveElement
    <2>2. Cardinality(A \ {x}) \in Nat
      BY <2>1, FS_CardinalityType
    <2> QED
      BY <1>1, <2>1, <2>2
  <1>4. ASSUME NEW x, A \ {x} \subseteq B PROVE Cardinality(A) <= Cardinality(B) + 1
    <2>1. Cardinality(A \ {x}) <= Cardinality(B)
      BY <1>1, <1>4, FS_Subset
    <2> QED
      BY <1>1, <1>3, <2>1
  <1>5. ASSUME NEW C \in SUBSET Tasks, NEW y, C \subseteq B, y \in B, y \notin C
        PROVE  Cardinality(C) + 1 <= Cardinality(B)
    <2>1. IsFiniteSet(C) /\ Cardinality(C) \in Nat
      BY TasksAssumption, FS_Subset, FS_CardinalityType
    <2>2. IsFiniteSet(C \cup {y}) /\ Cardinality(C \cup {y}) = Cardinality(C) + 1
      BY <1>5, <2>1, FS_AddElement
    <2>3. Cardinality(C \cup {y}) <= Cardinality(B)
      <3>1. C \cup {y} \in SUBSET B
        BY <1>5
      <3> QED
        BY <1>1, <3>1, FS_Subset
    <2> QED
      BY <2>2, <2>3
  <1>6. ASSUME NEW x, NEW y, A \ {x} \subseteq B, y \in B, y \notin A
        PROVE  Cardinality(A) <= Cardinality(B)
    <2>1. Cardinality(A \ {x}) + 1 <= Cardinality(B)
      BY <1>5, <1>6
    <2> QED
      BY <1>1, <1>3, <2>1
  <1>7. ASSUME NEW y, A \subseteq B, y \in B, y \notin A PROVE Cardinality(A) + 1 <= Cardinality(B)
    BY <1>5, <1>7
  <1> QED
    BY <1>1, <1>2, <1>4, <1>6, <1>7, Zenon

LEMMA ComersAreTasks == Receivers \in SUBSET Tasks /\ Senders \in SUBSET Tasks
  BY DEF Receivers, Senders

LEMMA ComesKept ==
    ASSUME NEW t, OthersStay(t), Pnd \subseteq Pnd', blocked' \subseteq blocked \cup {t}
    PROVE  \A u \in Tasks \ {t} : Comes(u) => Comes(u)'
  BY DEF OthersStay, Comes

LEMMA ComersKept ==
    ASSUME NEW t, OthersStay(t), \A u \in Tasks \ {t} : Comes(u) => Comes(u)',
           Snd' \subseteq Snd \cup {t}, Rcv' \subseteq Rcv \cup {t}
    PROVE  Receivers \ {t} \subseteq Receivers' /\ Senders \ {t} \subseteq Senders'
  BY DEF OthersStay, Receivers, Senders

LEMMA ExtraType == ASSUME NEW c \in Int PROVE Extra(c) \in Nat
  BY DEF Extra

LEMMA CoverType ==
    ASSUME IInv
    PROVE  /\ uxMessagesWaiting \in Nat /\ uxLength \in Nat \ {0}
           /\ uxMessagesWaiting <= uxLength
           /\ cTxLock \in Int /\ cRxLock \in Int
           /\ Extra(cTxLock) \in Nat /\ Extra(cRxLock) \in Nat
           /\ Cardinality(Receivers) \in Nat /\ Cardinality(Senders) \in Nat
  BY LengthType, ExtraType, LockAssumption, ComersAreTasks, CountKept
     DEF IInv, Typed, CountsTyped

(* A step that leaves the queue and the event lists as they are.            *)
LEMMA QuietCovered ==
    ASSUME IInv, ItemsCovered, PlacesCovered, NEW t \in Tasks, OthersStay(t),
           Snd' = Snd, Rcv' = Rcv, Pnd' = Pnd, blocked' \subseteq blocked,
           UNCHANGED <<uxMessagesWaiting, program>>,
           Extra(cTxLock)' = Extra(cTxLock), Extra(cRxLock)' = Extra(cRxLock),
           t \in Receivers => t \in Receivers' \/ uxMessagesWaiting = 0,
           t \in Senders => t \in Senders' \/ uxMessagesWaiting = uxLength,
           pc'[t] = "place" => /\ kind'[t] # "send" => uxMessagesWaiting = 0
                               /\ kind'[t] = "send" => uxMessagesWaiting = uxLength
    PROVE  ItemsCovered' /\ PlacesCovered'
  <1>1. Receivers \ {t} \subseteq Receivers' /\ Senders \ {t} \subseteq Senders'
    BY ComesKept, ComersKept
  <1>2. uxLength' = uxLength
    BY DEF uxLength
  <1>3. /\ Receivers \in SUBSET Tasks /\ Receivers' \in SUBSET Tasks
        /\ Senders \in SUBSET Tasks /\ Senders' \in SUBSET Tasks
    BY DEF Receivers, Senders
  <1>4. Cardinality(Receivers') \in Nat /\ Cardinality(Senders') \in Nat
    BY <1>3, CountKept
  <1>5. ItemsCovered'
    <2>1. CASE uxMessagesWaiting = 0
      BY <1>4, <2>1, CoverType DEF ItemsCovered
    <2>2. CASE uxMessagesWaiting # 0
      <3>1. Receivers \subseteq Receivers'
        BY <1>1, <2>2
      <3>2. Cardinality(Receivers) <= Cardinality(Receivers')
        BY <1>3, <3>1, CountKept
      <3>3. Rcv' # {} \/ ReceiverPlaced' => Rcv # {} \/ ReceiverPlaced
        BY <2>2 DEF ReceiverPlaced, OthersStay
      <3> QED
        BY <1>4, <3>2, <3>3, CoverType DEF ItemsCovered
    <2> QED
      BY <2>1, <2>2
  <1>6. PlacesCovered'
    <2>1. CASE uxMessagesWaiting = uxLength
      BY <1>2, <1>4, <2>1, CoverType DEF PlacesCovered
    <2>2. CASE uxMessagesWaiting # uxLength
      <3>1. Senders \subseteq Senders'
        BY <1>1, <2>2
      <3>2. Cardinality(Senders) <= Cardinality(Senders')
        BY <1>3, <3>1, CountKept
      <3>3. Snd' # {} \/ SenderPlaced' => Snd # {} \/ SenderPlaced
        BY <2>2 DEF SenderPlaced, OthersStay
      <3> QED
        BY <1>2, <1>4, <3>2, <3>3, CoverType DEF PlacesCovered
    <2> QED
      BY <2>1, <2>2
  <1> QED
    BY <1>5, <1>6

LEMMA NotComing ==
    ASSUME NEW t \in Tasks, t \notin Listed, pc[t] \notin {"try", "recheck"}
    PROVE  t \notin Receivers /\ t \notin Senders
  BY DEF Receivers, Senders, Comes, Listed

LEMMA TryFailsCovered ==
    ASSUME IInv, ItemsCovered, PlacesCovered, NEW t \in Tasks, TryFails(t), UNCHANGED program
    PROVE  ItemsCovered' /\ PlacesCovered'
  <1>1. /\ MustWait(t) /\ UNCHANGED <<uxMessagesWaiting, cTxLock, cRxLock, kind, target>>
        /\ UNCHANGED <<xTasksWaitingToSend, xTasksWaitingToReceive, xPendingReadyList, blocked>>
        /\ pc'[t] # "place"
    BY DEF TryFails, ReturnFail, queueVars, listVars, Goto, IInv, Typed, CallsTyped
  <1>2. OthersStay(t)
    BY <1>1 DEF TryFails, ReturnFail, Goto, OthersStay, IInv, Typed, CallsTyped
  <1>3. t \in Receivers => uxMessagesWaiting = 0
    BY <1>1 DEF MustWait, Receivers
  <1>4. t \in Senders => uxMessagesWaiting = uxLength
    BY <1>1 DEF MustWait, Senders
  <1> QED
    BY <1>1, <1>2, <1>3, <1>4, QuietCovered DEF Extra, Snd, Rcv, Pnd

LEMMA RecheckCovered ==
    ASSUME IInv, LocksCount, ItemsCovered, PlacesCovered, NEW t \in Tasks, RecheckEmpty(t),
           UNCHANGED program
    PROVE  ItemsCovered' /\ PlacesCovered'
  <1>1. /\ pc[t] = "recheck" /\ UNCHANGED <<uxMessagesWaiting, cTxLock, cRxLock, kind, target>>
        /\ UNCHANGED <<xTasksWaitingToSend, xTasksWaitingToReceive, xPendingReadyList, blocked>>
        /\ pc'[t] # "place" /\ t \notin blocked
        /\ uxMessagesWaiting = 0 \/ pc'[t] = "try"
    BY Turns DEF RecheckEmpty, ReturnFail, queueVars, listVars, Goto, Exclusive, IInv, Typed, CallsTyped
  <1>2. OthersStay(t)
    BY <1>1 DEF RecheckEmpty, ReturnFail, Goto, OthersStay, IInv, Typed, CallsTyped
  <1>3. t \in Receivers => t \in Receivers' \/ uxMessagesWaiting = 0
    BY <1>1 DEF Receivers, Comes, Rcv
  <1>4. t \notin Senders
    BY <1>1 DEF LocksCount, Senders
  <1> QED
    BY <1>1, <1>2, <1>3, <1>4, QuietCovered DEF Extra, Snd, Rcv, Pnd

(* Steps of a task that is not coming before.                               *)
LEMMA RoundCovered ==
    ASSUME IInv, ItemsCovered, PlacesCovered, NEW t \in Tasks, UNCHANGED program,
           \/ vTaskSuspendAll(t) \/ prvLockQueue(t) \/ xTaskCheckForTimeOut(t)
           \/ CheckAgain(t) \/ AbortCheck(t)
    PROVE  ItemsCovered' /\ PlacesCovered'
  <1>1. /\ pc[t] \in {"failed", "suspended", "locked", "check", "abortCheck"}
        /\ suspender \in {t, Nobody}
        /\ pc[t] \in Exclusive \/ t \notin blocked
    BY Turns DEF vTaskSuspendAll, prvLockQueue, xTaskCheckForTimeOut, CheckAgain,
                 AbortCheck, Exclusive
  <1>2. t \notin Receivers /\ t \notin Senders
    BY <1>1, RunnerIsUnlisted, NotComing
  <1>3. /\ UNCHANGED <<uxMessagesWaiting, kind, target>>
        /\ UNCHANGED <<xTasksWaitingToSend, xTasksWaitingToReceive, xPendingReadyList>>
        /\ blocked' \subseteq blocked
    BY DEF vTaskSuspendAll, prvLockQueue, xTaskCheckForTimeOut, CheckAgain, AbortCheck,
           queueVars, listVars
  <1>4. /\ cTxLock' = cTxLock \/ (cTxLock = -1 /\ cTxLock' = 0)
        /\ cRxLock' = cRxLock \/ (cRxLock = -1 /\ cRxLock' = 0)
    BY DEF vTaskSuspendAll, prvLockQueue, xTaskCheckForTimeOut, CheckAgain, AbortCheck,
           queueVars, queueUNLOCKED, queueLOCKED_UNMODIFIED
  <1>5. OthersStay(t)
    BY DEF vTaskSuspendAll, prvLockQueue, xTaskCheckForTimeOut, CheckAgain, AbortCheck,
           Unlocking, Goto, OthersStay, IInv, Typed, CallsTyped
  <1>6. pc'[t] = "place" => MustWait(t)
    BY DEF vTaskSuspendAll, prvLockQueue, xTaskCheckForTimeOut, CheckAgain, AbortCheck,
           Unlocking, Goto, IInv, Typed, CallsTyped
  <1>7. pc'[t] = "place" => /\ kind'[t] # "send" => uxMessagesWaiting = 0
                            /\ kind'[t] = "send" => uxMessagesWaiting = uxLength
    BY <1>3, <1>6 DEF MustWait
  <1>8. Extra(cTxLock)' = Extra(cTxLock) /\ Extra(cRxLock)' = Extra(cRxLock)
    BY <1>4 DEF Extra
  <1>9. Snd' = Snd /\ Rcv' = Rcv /\ Pnd' = Pnd
    BY <1>3 DEF Snd, Rcv, Pnd
  <1> QED
    BY <1>2, <1>3, <1>5, <1>7, <1>8, <1>9, QuietCovered

LEMMA BeginCovered ==
    ASSUME IInv, ItemsCovered, PlacesCovered, NEW t \in Tasks, UNCHANGED program,
           \/ \E k \in Kinds, w \in Waits : Call(t, k, w)
           \/ \E x \in Tasks : AbortBegin(t, x)
    PROVE  ItemsCovered' /\ PlacesCovered'
  <1>1. /\ pc[t] \in {"out", "gaveUp"} /\ suspender = Nobody /\ t \notin blocked
        /\ UNCHANGED <<uxMessagesWaiting, cTxLock, cRxLock>>
        /\ UNCHANGED <<xTasksWaitingToSend, xTasksWaitingToReceive, xPendingReadyList, blocked>>
    BY DEF Call, AbortBegin, Outside, queueVars, listVars
  <1>2. OthersStay(t) /\ pc'[t] # "place"
    BY DEF Call, AbortBegin, Goto, OthersStay, IInv, Typed, CallsTyped
  <1>3. t \notin Receivers /\ t \notin Senders
    BY <1>1, RunnerIsUnlisted, NotComing
  <1> QED
    BY <1>1, <1>2, <1>3, QuietCovered DEF Extra, Snd, Rcv, Pnd

(* A step that brings no item, no place, no new sleeper, and stops nobody   *)
(* from coming.                                                             *)
LEMMA MoreCome ==
    ASSUME IInv, ItemsCovered, PlacesCovered,
           Receivers \subseteq Receivers', Senders \subseteq Senders',
           Rcv' # {} \/ ReceiverPlaced' => Rcv # {} \/ ReceiverPlaced,
           Snd' # {} \/ SenderPlaced' => Snd # {} \/ SenderPlaced,
           UNCHANGED <<uxMessagesWaiting, cTxLock, cRxLock, program>>
    PROVE  ItemsCovered' /\ PlacesCovered'
  <1>1. uxLength' = uxLength
    BY DEF uxLength
  <1>2. /\ Cardinality(Receivers') \in Nat /\ Cardinality(Senders') \in Nat
        /\ Cardinality(Receivers) <= Cardinality(Receivers')
        /\ Cardinality(Senders) <= Cardinality(Senders')
    <2>1. /\ Receivers \in SUBSET Tasks /\ Receivers' \in SUBSET Tasks
          /\ Senders \in SUBSET Tasks /\ Senders' \in SUBSET Tasks
      BY DEF Receivers, Senders
    <2> QED
      BY <2>1, CountKept
  <1> QED
    BY <1>1, <1>2, CoverType DEF ItemsCovered, PlacesCovered

-----------------------------------------------------------------------------
(* The steps that wake one task: it comes, and it did not before. *)

LEMMA WokenComes ==
    ASSUME IInv, NEW t, OthersStay(t), NEW q,
           q \in {xTasksWaitingToSend, xTasksWaitingToReceive}, q # <<>>,
           t \notin Range(q), xTaskRemoveFromEventList(q)
    PROVE  /\ Head(q) \in Range(q) /\ Range(Tail(q)) = Range(q) \ {Head(q)}
           /\ Head(q) \in Tasks \ {t} /\ Comes(Head(q))'
           /\ Pnd \subseteq Pnd' /\ blocked' \subseteq blocked
  <1> DEFINE h == Head(q)
  <1>1. /\ h \in Tasks /\ h \in Range(q) /\ Range(Tail(q)) = Range(q) \ {h}
        /\ \/ /\ suspender = Nobody /\ Pnd' = Pnd /\ blocked' = blocked \ {h}
           \/ /\ suspender # Nobody /\ Pnd' = Pnd \cup {h} /\ blocked' = blocked
    BY FirstIsWoken DEF IInv
  <1>2. h # t /\ pc'[h] = pc[h] /\ WaiterSound(h)
    BY <1>1 DEF OthersStay, IInv, WaitersSound, Listed, Snd, Rcv
  <1>3. suspender = Nobody => pc[h] = "try"
    BY <1>1, <1>2, Turns DEF WaiterSound, Exclusive
  <1> QED
    BY <1>1, <1>2, <1>3 DEF Comes

LEMMA WokenReceiver ==
    ASSUME IInv, NEW t, OthersStay(t), WakeReceiver, t \notin Rcv
    PROVE  /\ Snd' = Snd /\ Rcv' \subseteq Rcv
           /\ Receivers \ {t} \subseteq Receivers' /\ Senders \ {t} \subseteq Senders'
           /\ Rcv # {} => \E h \in Receivers' : h \notin Receivers
  <1>1. CASE xTasksWaitingToReceive = <<>>
    <2>1. Rcv = {} /\ Snd' = Snd /\ Rcv' = Rcv /\ Pnd' = Pnd /\ blocked' = blocked
      BY <1>1, ListedAreTasks DEF WakeReceiver, IInv, Snd, Rcv, Pnd
    <2> QED
      BY <2>1, ComesKept, ComersKept
  <1>2. CASE xTasksWaitingToReceive # <<>>
    <2> PICK q : q = xTasksWaitingToReceive
      OBVIOUS
    <2> DEFINE h == Head(q)
    <2>1. xTaskRemoveFromEventList(q) /\ Snd' = Snd
          /\ Rcv' = Range(Tail(q))
      BY <1>2 DEF WakeReceiver, Snd, Rcv
    <2>2. /\ h \in Rcv /\ Rcv' = Rcv \ {h} /\ h \in Tasks \ {t} /\ Comes(h)'
          /\ Pnd \subseteq Pnd' /\ blocked' \subseteq blocked
      <3>1. t \notin Range(q) /\ q # <<>>
        BY <1>2 DEF Rcv
      <3>2. /\ h \in Range(q)
            /\ Range(Tail(q)) = Range(q) \ {h}
            /\ h \in Tasks \ {t} /\ Comes(h)' /\ Pnd \subseteq Pnd' /\ blocked' \subseteq blocked
        BY <2>1, <3>1, WokenComes
      <3> HIDE DEF h
      <3> QED
        BY <2>1, <3>2, Zenon DEF Rcv
    <2> HIDE DEF h
    <2>3. Receivers \ {t} \subseteq Receivers' /\ Senders \ {t} \subseteq Senders'
      BY <2>1, <2>2, ComesKept, ComersKept
    <2>4. kind'[h] \in {"receive", "peek"}
      <3>1. WaiterSound(h) /\ kind'[h] = kind[h]
        BY <2>2 DEF IInv, WaitersSound, Listed, OthersStay
      <3> QED
        BY <2>2, <3>1 DEF WaiterSound
    <2>5. h \in Receivers' /\ h \notin Receivers
      BY <2>2, <2>4 DEF Receivers
    <2>6. Rcv' \subseteq Rcv
      BY <2>2
    <2> QED
      BY <2>1, <2>3, <2>5, <2>6
  <1> QED
    BY <1>1, <1>2

LEMMA WokenSender ==
    ASSUME IInv, NEW t, OthersStay(t), WakeSender, t \notin Snd
    PROVE  /\ Rcv' = Rcv /\ Snd' \subseteq Snd
           /\ Receivers \ {t} \subseteq Receivers' /\ Senders \ {t} \subseteq Senders'
           /\ Snd # {} => \E h \in Senders' : h \notin Senders
  <1>1. CASE xTasksWaitingToSend = <<>>
    <2>1. Snd = {} /\ Snd' = Snd /\ Rcv' = Rcv /\ Pnd' = Pnd /\ blocked' = blocked
      BY <1>1, ListedAreTasks DEF WakeSender, IInv, Snd, Rcv, Pnd
    <2> QED
      BY <2>1, ComesKept, ComersKept
  <1>2. CASE xTasksWaitingToSend # <<>>
    <2> PICK q : q = xTasksWaitingToSend
      OBVIOUS
    <2> DEFINE h == Head(q)
    <2>1. xTaskRemoveFromEventList(q) /\ Rcv' = Rcv
          /\ Snd' = Range(Tail(q))
      BY <1>2 DEF WakeSender, Snd, Rcv
    <2>2. /\ h \in Snd /\ Snd' = Snd \ {h} /\ h \in Tasks \ {t} /\ Comes(h)'
          /\ Pnd \subseteq Pnd' /\ blocked' \subseteq blocked
      <3>1. t \notin Range(q) /\ q # <<>>
        BY <1>2 DEF Snd
      <3>2. /\ h \in Range(q)
            /\ Range(Tail(q)) = Range(q) \ {h}
            /\ h \in Tasks \ {t} /\ Comes(h)' /\ Pnd \subseteq Pnd' /\ blocked' \subseteq blocked
        BY <2>1, <3>1, WokenComes
      <3> HIDE DEF h
      <3> QED
        BY <2>1, <3>2, Zenon DEF Snd
    <2> HIDE DEF h
    <2>3. Receivers \ {t} \subseteq Receivers' /\ Senders \ {t} \subseteq Senders'
      BY <2>1, <2>2, ComesKept, ComersKept
    <2>4. kind'[h] = "send"
      <3>1. WaiterSound(h) /\ kind'[h] = kind[h]
        BY <2>2 DEF IInv, WaitersSound, Listed, OthersStay
      <3> QED
        BY <2>2, <3>1 DEF WaiterSound
    <2>5. h \in Senders' /\ h \notin Senders
      BY <2>2, <2>4 DEF Senders
    <2>6. Snd' \subseteq Snd
      BY <2>2
    <2> QED
      BY <2>1, <2>3, <2>5, <2>6
  <1> QED
    BY <1>1, <1>2

LEMMA NoneInLock ==
    ASSUME IInv, LocksCount, suspender = Nobody
    PROVE  /\ ~ ReceiverPlaced /\ ~ SenderPlaced
           /\ cTxLock = -1 /\ cRxLock = -1
           /\ Extra(cTxLock) = 0 /\ Extra(cRxLock) = 0
  BY OutOfLock, NobodyAssumption
     DEF ReceiverPlaced, SenderPlaced, Extra, IInv, LocksSound, queueUNLOCKED

(* What a call that succeeds leaves: t is out, the scheduler runs.          *)
LEMMA PassedOut ==
    ASSUME IInv, LocksCount, NEW t \in Tasks, Trying(t), ReturnPass(t),
           UNCHANGED <<cTxLock, cRxLock, suspender, program>>
    PROVE  /\ t \notin Listed /\ OthersStay(t)
           /\ ~ ReceiverPlaced' /\ ~ SenderPlaced'
           /\ Extra(cTxLock) = 0 /\ Extra(cRxLock) = 0
           /\ cTxLock' = cTxLock /\ cRxLock' = cRxLock /\ uxLength' = uxLength
  <1>1. suspender = Nobody /\ t \notin blocked /\ pc[t] \in {"enter", "try"}
    BY Turns DEF Trying, Exclusive
  <1>2. t \notin Listed
    BY <1>1, RunnerIsUnlisted
  <1>3. OthersStay(t) /\ pc'[t] = "out"
    BY DEF ReturnPass, Goto, OthersStay, IInv, Typed, CallsTyped
  <1>4. /\ ~ ReceiverPlaced /\ ~ SenderPlaced
        /\ Extra(cTxLock) = 0 /\ Extra(cRxLock) = 0
    BY <1>1, NoneInLock
  <1>5. ~ ReceiverPlaced' /\ ~ SenderPlaced'
    BY <1>3, <1>4 DEF ReceiverPlaced, SenderPlaced, OthersStay
  <1> QED
    BY <1>2, <1>3, <1>4, <1>5 DEF uxLength

LEMMA NewComers ==
    /\ Receivers \in SUBSET Tasks /\ Receivers' \in SUBSET Tasks
    /\ Senders \in SUBSET Tasks /\ Senders' \in SUBSET Tasks
    /\ Cardinality(Receivers') \in Nat /\ Cardinality(Senders') \in Nat
  <1>1. /\ Receivers \in SUBSET Tasks /\ Receivers' \in SUBSET Tasks
        /\ Senders \in SUBSET Tasks /\ Senders' \in SUBSET Tasks
    BY DEF Receivers, Senders
  <1> QED
    BY <1>1, CountKept

LEMMA SendCovered ==
    ASSUME IInv, LocksCount, ItemsCovered, PlacesCovered, NEW t \in Tasks,
           SendSucceeds(t), UNCHANGED program
    PROVE  ItemsCovered' /\ PlacesCovered'
  <1>1. /\ Trying(t) /\ ReturnPass(t) /\ WakeReceiver /\ kind[t] \in {"send", "overwrite"}
        /\ UNCHANGED <<cTxLock, cRxLock, suspender>>
        /\ uxMessagesWaiting' = IF uxMessagesWaiting < uxLength
                                THEN uxMessagesWaiting + 1 ELSE uxMessagesWaiting
    BY DEF SendSucceeds
  <1>2. /\ t \notin Listed /\ OthersStay(t)
        /\ ~ ReceiverPlaced' /\ ~ SenderPlaced'
        /\ Extra(cTxLock) = 0 /\ Extra(cRxLock) = 0
        /\ cTxLock' = cTxLock /\ cRxLock' = cRxLock /\ uxLength' = uxLength
    BY <1>1, PassedOut
  <1>3. /\ Snd' = Snd /\ Rcv' \subseteq Rcv
        /\ Receivers \ {t} \subseteq Receivers' /\ Senders \ {t} \subseteq Senders'
        /\ Rcv # {} => \E h \in Receivers' : h \notin Receivers
    BY <1>1, <1>2, WokenReceiver DEF Listed
  <1>4. Receivers \subseteq Receivers'
    BY <1>1, <1>3 DEF Receivers
  <1>5. /\ Rcv # {} => Cardinality(Receivers) + 1 <= Cardinality(Receivers')
        /\ Cardinality(Senders) <= Cardinality(Senders') + 1
    BY <1>3, <1>4, NewComers, CountKept
  <1>6. ItemsCovered'
    BY <1>1, <1>2, <1>3, <1>5, NewComers, CoverType DEF ItemsCovered
  <1>7. PlacesCovered'
    BY <1>1, <1>2, <1>3, <1>5, NewComers, CoverType DEF PlacesCovered
  <1> QED
    BY <1>6, <1>7

LEMMA ReceiveCovered ==
    ASSUME IInv, LocksCount, ItemsCovered, PlacesCovered, NEW t \in Tasks,
           ReceiveSucceeds(t), UNCHANGED program
    PROVE  ItemsCovered' /\ PlacesCovered'
  <1>1. /\ Trying(t) /\ ReturnPass(t) /\ WakeSender /\ kind[t] = "receive"
        /\ UNCHANGED <<cTxLock, cRxLock, suspender>>
        /\ uxMessagesWaiting > 0 /\ uxMessagesWaiting' = uxMessagesWaiting - 1
    BY DEF ReceiveSucceeds
  <1>2. /\ t \notin Listed /\ OthersStay(t)
        /\ ~ ReceiverPlaced' /\ ~ SenderPlaced'
        /\ Extra(cTxLock) = 0 /\ Extra(cRxLock) = 0
        /\ cTxLock' = cTxLock /\ cRxLock' = cRxLock /\ uxLength' = uxLength
    BY <1>1, PassedOut
  <1>3. /\ Rcv' = Rcv /\ Snd' \subseteq Snd
        /\ Receivers \ {t} \subseteq Receivers' /\ Senders \ {t} \subseteq Senders'
        /\ Snd # {} => \E h \in Senders' : h \notin Senders
    BY <1>1, <1>2, WokenSender DEF Listed
  <1>4. Senders \subseteq Senders'
    BY <1>1, <1>3 DEF Senders
  <1>5. /\ Snd # {} => Cardinality(Senders) + 1 <= Cardinality(Senders')
        /\ Cardinality(Receivers) <= Cardinality(Receivers') + 1
    BY <1>3, <1>4, NewComers, CountKept
  <1>6. ItemsCovered'
    BY <1>1, <1>2, <1>3, <1>5, NewComers, CoverType DEF ItemsCovered
  <1>7. PlacesCovered'
    BY <1>1, <1>2, <1>3, <1>5, NewComers, CoverType DEF PlacesCovered
  <1> QED
    BY <1>6, <1>7

LEMMA PeekCovered ==
    ASSUME IInv, LocksCount, ItemsCovered, PlacesCovered, NEW t \in Tasks,
           PeekSucceeds(t), UNCHANGED program
    PROVE  ItemsCovered' /\ PlacesCovered'
  <1>1. /\ Trying(t) /\ ReturnPass(t) /\ WakeReceiver /\ kind[t] = "peek"
        /\ UNCHANGED <<uxMessagesWaiting, cTxLock, cRxLock, suspender>>
    BY DEF PeekSucceeds, queueVars
  <1>2. /\ t \notin Listed /\ OthersStay(t)
        /\ ~ ReceiverPlaced' /\ ~ SenderPlaced'
        /\ Extra(cTxLock) = 0 /\ Extra(cRxLock) = 0
        /\ cTxLock' = cTxLock /\ cRxLock' = cRxLock /\ uxLength' = uxLength
    BY <1>1, PassedOut
  <1>3. /\ Snd' = Snd /\ Rcv' \subseteq Rcv
        /\ Receivers \ {t} \subseteq Receivers' /\ Senders \ {t} \subseteq Senders'
        /\ Rcv # {} => \E h \in Receivers' : h \notin Receivers
    BY <1>1, <1>2, WokenReceiver DEF Listed
  <1>4. Senders \subseteq Senders'
    BY <1>1, <1>3 DEF Senders
  <1>5. /\ Rcv # {} => Cardinality(Receivers) <= Cardinality(Receivers')
        /\ Cardinality(Senders) <= Cardinality(Senders')
    BY <1>3, <1>4, NewComers, CountKept
  <1>6. ItemsCovered'
    BY <1>1, <1>2, <1>3, <1>5, NewComers, CoverType DEF ItemsCovered
  <1>7. PlacesCovered'
    BY <1>1, <1>2, <1>3, <1>5, NewComers, CoverType DEF PlacesCovered
  <1> QED
    BY <1>6, <1>7

(* One sender is woken, and there is one place for it.                      *)
LEMMA ResetCovered ==
    ASSUME ResetsAreFilled, IInv, LocksCount, ItemsCovered, PlacesCovered, NEW t \in Tasks,
           "reset" \in program.calls[t], xQueueGenericReset(t), UNCHANGED program
    PROVE  ItemsCovered' /\ PlacesCovered'
  <1>1. /\ suspender = Nobody /\ uxMessagesWaiting' = 0 /\ cTxLock' = -1 /\ cRxLock' = -1
        /\ WakeSender /\ UNCHANGED <<pc, kind, goal, target>>
    BY DEF xQueueGenericReset, callVars, queueUNLOCKED
  <1>2. OthersStay(Nobody) /\ Nobody \notin Snd
    BY <1>1, ListedAreTasks, NobodyAssumption DEF OthersStay, IInv
  <1>3. /\ Snd' \subseteq Snd
        /\ Senders \ {Nobody} \subseteq Senders'
        /\ Snd # {} => \E h \in Senders' : h \notin Senders
    BY <1>1, <1>2, WokenSender
  <1>4. Senders \subseteq Senders'
    BY <1>3, NobodyAssumption DEF Senders
  <1>5. Snd # {} => Cardinality(Senders) + 1 <= Cardinality(Senders')
    BY <1>3, <1>4, NewComers, CountKept
  <1>6. ~ SenderPlaced'
    BY <1>1, NoneInLock DEF SenderPlaced
  <1>7. uxLength' = 1
    BY DEF ResetsAreFilled, IInv, uxLength
  <1>8. Extra(cTxLock') = 0 /\ Extra(cRxLock') = 0
    BY <1>1 DEF Extra
  <1>9. ItemsCovered'
    BY <1>1, <1>8, NewComers DEF ItemsCovered
  <1>10. PlacesCovered'
    BY <1>1, <1>3, <1>5, <1>6, <1>7, <1>8, NewComers, CoverType DEF PlacesCovered
  <1> QED
    BY <1>9, <1>10

-----------------------------------------------------------------------------
(* Items and places that interrupts bring wake a task, or are counted.      *)

LEMMA SendFromISRCovered ==
    ASSUME FewInterrupts, IInv, LocksCount, ItemsCovered, PlacesCovered,
           xQueueGenericSendFromISR, UNCHANGED program
    PROVE  ItemsCovered' /\ PlacesCovered'
  <1>1. /\ uxMessagesWaiting < uxLength /\ uxMessagesWaiting' = uxMessagesWaiting + 1
        /\ cTxLock < MaxLocked /\ cRxLock' = cRxLock
        /\ \/ cTxLock = -1 /\ WakeReceiver /\ cTxLock' = cTxLock
           \/ cTxLock # -1 /\ cTxLock' = Counted(cTxLock) /\ UNCHANGED listVars
        /\ UNCHANGED <<pc, kind, goal, target>>
    BY DEF xQueueGenericSendFromISR, queueUNLOCKED, callVars
  <1>2. /\ uxLength' = uxLength /\ OthersStay(Nobody) /\ Nobody \notin Listed
        /\ ReceiverPlaced' = ReceiverPlaced /\ SenderPlaced' = SenderPlaced
    BY <1>1, ListedAreTasks, NobodyAssumption
       DEF uxLength, OthersStay, ReceiverPlaced, SenderPlaced, IInv
  <1>3. CASE cTxLock = -1
    <2>1. /\ Snd' = Snd /\ Rcv' \subseteq Rcv
          /\ Receivers \ {Nobody} \subseteq Receivers'
          /\ Senders \ {Nobody} \subseteq Senders'
          /\ Rcv # {} => \E h \in Receivers' : h \notin Receivers
      BY <1>1, <1>2, <1>3, WokenReceiver DEF Listed
    <2>2. Receivers \subseteq Receivers' /\ Senders \subseteq Senders'
      BY <2>1, NobodyAssumption DEF Receivers, Senders
    <2>3. /\ Rcv # {} => Cardinality(Receivers) + 1 <= Cardinality(Receivers')
          /\ Cardinality(Senders) <= Cardinality(Senders')
      BY <2>1, <2>2, NewComers, CountKept
    <2>4. ~ ReceiverPlaced /\ Extra(cTxLock) = 0 /\ cTxLock' = cTxLock
      BY <1>1, <1>3 DEF LocksCount, ReceiverPlaced, Extra
    <2>5. ItemsCovered'
      BY <1>1, <1>2, <2>1, <2>3, <2>4, NewComers, CoverType DEF ItemsCovered
    <2>6. PlacesCovered'
      BY <1>1, <1>2, <2>1, <2>3, NewComers, CoverType DEF PlacesCovered
    <2> QED
      BY <2>5, <2>6
  <1>4. CASE cTxLock # -1
    <2>1. Extra(cTxLock') = Extra(cTxLock) + 1
      <3>1. cTxLock \in Int /\ cTxLock >= 0 /\ cTxLock < LockMax /\ LockMax \in Nat
        BY <1>1, <1>4, LockAssumption, CoverType DEF LocksCount, FewInterrupts
      <3> QED
        BY <1>1, <1>4, <3>1 DEF Counted, Extra
    <2>2. /\ Snd' = Snd /\ Rcv' = Rcv /\ Receivers' = Receivers /\ Senders' = Senders
      BY <1>1, <1>4 DEF listVars, Snd, Rcv, Pnd, Receivers, Senders, Comes
    <2>3. ItemsCovered'
      BY <1>1, <1>2, <2>1, <2>2, CoverType DEF ItemsCovered
    <2>4. PlacesCovered'
      BY <1>1, <1>2, <2>2, CoverType DEF PlacesCovered
    <2> QED
      BY <2>3, <2>4
  <1> QED
    BY <1>3, <1>4

LEMMA ReceiveFromISRCovered ==
    ASSUME FewInterrupts, IInv, LocksCount, ItemsCovered, PlacesCovered,
           xQueueReceiveFromISR, UNCHANGED program
    PROVE  ItemsCovered' /\ PlacesCovered'
  <1>1. /\ uxMessagesWaiting > 0 /\ uxMessagesWaiting' = uxMessagesWaiting - 1
        /\ cRxLock < MaxLocked /\ cTxLock' = cTxLock
        /\ \/ cRxLock = -1 /\ WakeSender /\ cRxLock' = cRxLock
           \/ cRxLock # -1 /\ cRxLock' = Counted(cRxLock) /\ UNCHANGED listVars
        /\ UNCHANGED <<pc, kind, goal, target>>
    BY DEF xQueueReceiveFromISR, queueUNLOCKED, callVars
  <1>2. /\ uxLength' = uxLength /\ OthersStay(Nobody) /\ Nobody \notin Listed
        /\ ReceiverPlaced' = ReceiverPlaced /\ SenderPlaced' = SenderPlaced
    BY <1>1, ListedAreTasks, NobodyAssumption
       DEF uxLength, OthersStay, ReceiverPlaced, SenderPlaced, IInv
  <1>3. CASE cRxLock = -1
    <2>1. /\ Rcv' = Rcv /\ Snd' \subseteq Snd
          /\ Receivers \ {Nobody} \subseteq Receivers'
          /\ Senders \ {Nobody} \subseteq Senders'
          /\ Snd # {} => \E h \in Senders' : h \notin Senders
      BY <1>1, <1>2, <1>3, WokenSender DEF Listed
    <2>2. Receivers \subseteq Receivers' /\ Senders \subseteq Senders'
      BY <2>1, NobodyAssumption DEF Receivers, Senders
    <2>3. /\ Snd # {} => Cardinality(Senders) + 1 <= Cardinality(Senders')
          /\ Cardinality(Receivers) <= Cardinality(Receivers')
      BY <2>1, <2>2, NewComers, CountKept
    <2>4. ~ SenderPlaced /\ Extra(cRxLock) = 0 /\ cRxLock' = cRxLock
      BY <1>1, <1>3 DEF LocksCount, SenderPlaced, Extra
    <2>5. ItemsCovered'
      BY <1>1, <1>2, <2>1, <2>3, NewComers, CoverType DEF ItemsCovered
    <2>6. PlacesCovered'
      BY <1>1, <1>2, <2>1, <2>3, <2>4, NewComers, CoverType DEF PlacesCovered
    <2> QED
      BY <2>5, <2>6
  <1>4. CASE cRxLock # -1
    <2>1. Extra(cRxLock') = Extra(cRxLock) + 1
      <3>1. cRxLock \in Int /\ cRxLock >= 0 /\ cRxLock < LockMax /\ LockMax \in Nat
        BY <1>1, <1>4, LockAssumption, CoverType DEF LocksCount, FewInterrupts
      <3> QED
        BY <1>1, <1>4, <3>1 DEF Counted, Extra
    <2>2. /\ Snd' = Snd /\ Rcv' = Rcv /\ Receivers' = Receivers /\ Senders' = Senders
      BY <1>1, <1>4 DEF listVars, Snd, Rcv, Pnd, Receivers, Senders, Comes
    <2>3. ItemsCovered'
      BY <1>1, <1>2, <2>2, CoverType DEF ItemsCovered
    <2>4. PlacesCovered'
      BY <1>1, <1>2, <2>1, <2>2, CoverType DEF PlacesCovered
    <2> QED
      BY <2>3, <2>4
  <1> QED
    BY <1>3, <1>4

-----------------------------------------------------------------------------
(* A task that lies down: it looked again in the lock, so the items that    *)
(* came since are counted.                                                  *)
LEMMA PlaceCovered ==
    ASSUME IInv, ItemsCovered, PlacesCovered, NEW t \in Tasks,
           vTaskPlaceOnEventList(t), UNCHANGED program
    PROVE  ItemsCovered' /\ PlacesCovered'
  <1>1. /\ pc[t] = "place" /\ UNCHANGED <<uxMessagesWaiting, cTxLock, cRxLock, kind, target>>
    BY DEF vTaskPlaceOnEventList, queueVars
  <1>2. OthersStay(t) /\ pc'[t] = "unlockTx"
    BY <1>1 DEF vTaskPlaceOnEventList, Unlocking, Goto, OthersStay, IInv, Typed, CallsTyped
  <1>3. t \notin Listed
    BY <1>1, Turns, RunnerIsUnlisted DEF Exclusive
  <1>4. /\ \/ kind[t] = "send" /\ Snd' = Snd \cup {t} /\ Rcv' = Rcv
           \/ kind[t] # "send" /\ Rcv' = Rcv \cup {t} /\ Snd' = Snd
        /\ Pnd' = Pnd /\ blocked' = blocked \cup {t}
    BY <1>3, PlaceFacts DEF IInv
  <1>5. t \notin Receivers /\ t \notin Senders
    BY <1>1, <1>3, NotComing
  <1>6. Receivers \subseteq Receivers' /\ Senders \subseteq Senders'
    <2>1. Receivers \ {t} \subseteq Receivers' /\ Senders \ {t} \subseteq Senders'
      BY <1>2, <1>4, ComesKept, ComersKept
    <2> QED
      BY <1>5, <2>1
  <1>7. /\ Rcv' # {} \/ ReceiverPlaced' => Rcv # {} \/ ReceiverPlaced
        /\ Snd' # {} \/ SenderPlaced' => Snd # {} \/ SenderPlaced
    BY <1>1, <1>2, <1>4 DEF ReceiverPlaced, SenderPlaced, OthersStay
  <1> QED
    BY <1>1, <1>6, <1>7, MoreCome

(* Whoever was made pending ready looks at the queue once the scheduler     *)
(* runs again, and so does the task that resumes it.                        *)
LEMMA ResumeCovered ==
    ASSUME IInv, ItemsCovered, PlacesCovered, NEW t \in Tasks, xTaskResumeAll(t),
           UNCHANGED program
    PROVE  ItemsCovered' /\ PlacesCovered'
  <1>1. /\ pc[t] = "resume" /\ CallSound(t) /\ UNCHANGED <<uxMessagesWaiting, cTxLock, cRxLock>>
        /\ xPendingReadyList' = <<>> /\ CountTicks(blocked \ Pnd, uxPendedTicks)
        /\ goal' = [goal EXCEPT ![t] = "none"]
        /\ kind' = [kind EXCEPT ![t] = IF goal[t] = "abort" THEN "none" ELSE @]
        /\ target' = [target EXCEPT ![t] = Nobody]
    BY Turns DEF xTaskResumeAll, queueVars, Pnd
  <1>2. /\ pc' = [pc EXCEPT ![t] = pc'[t]] /\ pc'[t] # "place"
        /\ goal[t] = "block" => pc'[t] = "try" /\ kind'[t] = kind[t]
    <2>1. \/ goal[t] = "block" /\ pc' = [pc EXCEPT ![t] = "try"]
          \/ /\ goal[t] # "block"
             /\ \E l \in {"try", "gaveUp", "recheck", "out"} : pc' = [pc EXCEPT ![t] = l]
      BY <1>1 DEF xTaskResumeAll, CallSound, Goto
    <2> QED
      BY <1>1, <2>1 DEF IInv, Typed, CallsTyped
  <1>3. OthersStay(t)
    BY <1>1, <1>2 DEF OthersStay, IInv, Typed, CallsTyped
  <1>4. Shrinks
    BY <1>1, CountTicksFacts, TimesType DEF IInv
  <1>5. blocked' \subseteq blocked \ Pnd
    BY <1>1 DEF CountTicks
  <1>6. ASSUME NEW u \in Tasks, Comes(u)
        PROVE  Comes(u)' /\ kind'[u] = kind[u]
    <2>1. CASE u \in Pnd
      <3>1. WaiterSound(u) /\ u \notin blocked'
        BY <1>5, <2>1 DEF IInv, WaitersSound, Listed
      <3>2. CASE u = t
        BY <1>1, <1>2, <3>1, <3>2 DEF WaiterSound, Comes
      <3>3. CASE u # t
        <4>1. pc[u] \notin Exclusive
          BY <1>1, <3>3, OneInLock DEF Exclusive
        <4>2. pc[u] = "try"
          BY <3>1, <4>1 DEF WaiterSound, Exclusive
        <4> QED
          BY <1>3, <3>1, <3>3, <4>2 DEF Comes, OthersStay
      <3> QED
        BY <3>2, <3>3
    <2>2. CASE u \notin blocked /\ pc[u] \in {"try", "recheck"}
      BY <1>1, <1>3, <1>5, <2>2 DEF Comes, OthersStay
    <2> QED
      BY <1>6, <2>1, <2>2 DEF Comes
  <1>7. Receivers \subseteq Receivers' /\ Senders \subseteq Senders'
    BY <1>4, <1>6 DEF Receivers, Senders, Shrinks
  <1>8. /\ Rcv' # {} \/ ReceiverPlaced' => Rcv # {} \/ ReceiverPlaced
        /\ Snd' # {} \/ SenderPlaced' => Snd # {} \/ SenderPlaced
    BY <1>2, <1>3, <1>4 DEF ReceiverPlaced, SenderPlaced, OthersStay, Shrinks
  <1> QED
    BY <1>1, <1>7, <1>8, MoreCome

(* A task whose delay is aborted looks at the queue as well.                *)
LEMMA AbortWakeCovered ==
    ASSUME IInv, ItemsCovered, PlacesCovered, NEW t \in Tasks, AbortWake(t),
           UNCHANGED program
    PROVE  ItemsCovered' /\ PlacesCovered'
  <1>1. /\ pc[t] = "abortWake" /\ CallSound(t) /\ target[t] \notin blocked
        /\ UNCHANGED <<uxMessagesWaiting, cTxLock, cRxLock, blocked, kind, goal, target>>
        /\ xPendingReadyList' = Without(xPendingReadyList, {target[t]})
    BY Turns DEF AbortWake, CallSound, queueVars
  <1>2. OthersStay(t) /\ pc'[t] = "resume"
    BY <1>1 DEF AbortWake, Goto, OthersStay, IInv, Typed, CallsTyped
  <1>3. Shrinks /\ Pnd' = Pnd \ {target[t]}
    BY <1>1, AbortWakeFacts, WithoutFacts DEF IInv, ListsSound, Pnd
  <1>4. t \notin Listed
    BY <1>1 DEF IInv, WaitersSound, WaiterSound
  <1>5. ASSUME NEW u \in Tasks, Comes(u) PROVE u # t /\ Comes(u)'
    <2>1. u # t
      BY <1>1, <1>4, <1>5 DEF Comes, Listed
    <2>2. CASE u \in Pnd /\ u = target[t]
      <3>1. WaiterSound(u) /\ pc[u] \notin Exclusive
        BY <1>1, <2>1, <2>2, OneInLock DEF IInv, WaitersSound, Listed, Exclusive
      <3>2. pc[u] = "try"
        BY <3>1 DEF WaiterSound, Exclusive
      <3> QED
        BY <1>1, <1>2, <2>1, <2>2, <3>2 DEF Comes, OthersStay
    <2>3. CASE ~ (u \in Pnd /\ u = target[t])
      BY <1>1, <1>2, <1>3, <1>5, <2>1, <2>3 DEF Comes, OthersStay
    <2> QED
      BY <2>1, <2>2, <2>3
  <1>6. Receivers \subseteq Receivers' /\ Senders \subseteq Senders'
    BY <1>1, <1>3, <1>5 DEF Receivers, Senders, Shrinks
  <1>7. /\ Rcv' # {} \/ ReceiverPlaced' => Rcv # {} \/ ReceiverPlaced
        /\ Snd' # {} \/ SenderPlaced' => Snd # {} \/ SenderPlaced
    BY <1>2, <1>3 DEF ReceiverPlaced, SenderPlaced, OthersStay, Shrinks
  <1> QED
    BY <1>1, <1>6, <1>7, MoreCome

LEMMA TickCovered ==
    ASSUME IInv, ItemsCovered, PlacesCovered, Tick
    PROVE  ItemsCovered' /\ PlacesCovered'
  <1>1. /\ UNCHANGED <<program, uxMessagesWaiting, cTxLock, cRxLock, xPendingReadyList, pc, kind>>
        /\ \/ suspender = Nobody /\ CountTicks(blocked, 1)
           \/ UNCHANGED <<blocked, xTasksWaitingToSend, xTasksWaitingToReceive>>
    BY DEF Tick, xTaskIncrementTick, queueVars
  <1>2. /\ Snd' \subseteq Snd /\ Rcv' \subseteq Rcv /\ blocked' \subseteq blocked
        /\ Pnd' = Pnd
    <2>1. CASE suspender = Nobody /\ CountTicks(blocked, 1)
      <3>1. xPendingReadyList = <<>> /\ ListsSound
        BY <2>1 DEF IInv, LocksSound
      <3>2. blocked = blocked \ Pnd
        BY <3>1, ListedAreTasks
      <3> QED
        BY <1>1, <2>1, <3>1, <3>2, CountTicksFacts DEF Shrinks, Pnd
    <2>2. CASE UNCHANGED <<blocked, xTasksWaitingToSend, xTasksWaitingToReceive>>
      BY <1>1, <2>2 DEF Snd, Rcv, Pnd
    <2> QED
      BY <1>1, <2>1, <2>2
  <1>3. Receivers \subseteq Receivers' /\ Senders \subseteq Senders'
    BY <1>1, <1>2 DEF Receivers, Senders, Comes
  <1>4. ReceiverPlaced' = ReceiverPlaced /\ SenderPlaced' = SenderPlaced
    BY <1>1 DEF ReceiverPlaced, SenderPlaced
  <1> QED
    BY <1>1, <1>2, <1>3, <1>4, MoreCome

-----------------------------------------------------------------------------
(* prvUnlockQueue wakes as many tasks as were counted, or all.              *)

LEMMA CountAdds ==
    ASSUME NEW A \in SUBSET Tasks, NEW B \in SUBSET Tasks, NEW C \in SUBSET Tasks,
           A \cap B = {}, A \cup B \subseteq C
    PROVE  Cardinality(A) + Cardinality(B) <= Cardinality(C)
  <1>1. IsFiniteSet(A) /\ IsFiniteSet(B) /\ IsFiniteSet(C)
    BY TasksAssumption, FS_Subset
  <1>2. Cardinality(A \cup B) = Cardinality(A) + Cardinality(B)
    BY <1>1, DisjointCount
  <1>3. Cardinality(A \cup B) <= Cardinality(C)
    <2>1. A \cup B \in SUBSET C
      OBVIOUS
    <2> QED
      BY <1>1, <2>1, FS_Subset
  <1> QED
    BY <1>2, <1>3

(* The tasks F that are moved from list q are as many as were counted if    *)
(* some stay behind.                                                        *)
LEMMA MovedCount ==
    ASSUME ListsSound, NEW q, q \in {xTasksWaitingToSend, xTasksWaitingToReceive},
           NEW c \in Int
    PROVE  LET n == WakeCount(c, q)
               F == Range(SubSeq(q, 1, n))
               r == SubSeq(q, n + 1, Len(q))
           IN  /\ Range(xPendingReadyList \o SubSeq(q, 1, n)) = Pnd \cup F
               /\ F \in SUBSET Tasks /\ F \subseteq Range(q)
               /\ Range(r) \subseteq Range(q) /\ F \cap Range(r) = {}
               /\ Range(r) # {} => Cardinality(F) = Extra(c)
  <1> DEFINE n == WakeCount(c, q)
             f == SubSeq(q, 1, n)
             r == SubSeq(q, n + 1, Len(q))
  <1>1. q \in Seq(Tasks) /\ IsInjective(q) /\ xPendingReadyList \in Seq(Tasks)
    BY DEF ListsSound
  <1>2. n \in 0..Len(q) /\ Len(q) \in Nat
    BY <1>1, WakeCountType
  <1>3. n < Len(q) => n = Extra(c)
    BY <1>1 DEF WakeCount, Extra
  <1> HIDE DEF n
  <1>4. /\ f \in Seq(Tasks) /\ IsInjective(f) /\ Len(f) = n
        /\ r \in Seq(Tasks) /\ IsInjective(r) /\ Len(r) = Len(q) - n
        /\ Range(f) \cap Range(r) = {} /\ Range(f) \cup Range(r) = Range(q)
    BY <1>1, <1>2, CutFacts
  <1> HIDE DEF f, r
  <1>5. Range(xPendingReadyList \o f) = Pnd \cup Range(f)
    BY <1>1, <1>4, ConcatFacts DEF Pnd
  <1>6. Range(f) \subseteq Tasks /\ Range(f) \subseteq Range(q) /\ Range(r) \subseteq Range(q)
    BY <1>4, RangeIn
  <1>7. ASSUME Range(r) # {} PROVE Cardinality(Range(f)) = Extra(c)
    <2>1. r # <<>>
      BY <1>4, <1>7, RangeIn
    <2>2. Len(r) # 0
      BY <1>4, <2>1
    <2>3. n < Len(q)
      BY <1>2, <1>4, <2>2
    <2> QED
      BY <1>3, <1>4, <2>3, RangeCount
  <1> QED
    BY <1>4, <1>5, <1>6, <1>7 DEF n, f, r

LEMMA UnlockTxCovered ==
    ASSUME IInv, LocksCount, ItemsCovered, PlacesCovered, NEW t \in Tasks, UnlockTx(t),
           UNCHANGED program
    PROVE  ItemsCovered' /\ PlacesCovered'
  <1> DEFINE n == WakeCount(cTxLock, xTasksWaitingToReceive)
             F == Range(SubSeq(xTasksWaitingToReceive, 1, n))
  <1>1. /\ pc[t] = "unlockTx" /\ UNCHANGED <<uxMessagesWaiting, cRxLock, kind, goal, target>>
        /\ cTxLock' = -1 /\ Snd' = Snd /\ blocked' = blocked /\ uxLength' = uxLength
        /\ Pnd' = Range(xPendingReadyList \o SubSeq(xTasksWaitingToReceive, 1, n))
        /\ Rcv' = Range(SubSeq(xTasksWaitingToReceive, n + 1, Len(xTasksWaitingToReceive)))
    BY DEF UnlockTx, queueUNLOCKED, uxLength, Snd, Rcv, Pnd
  <1>2. /\ Pnd' = Pnd \cup F /\ F \in SUBSET Tasks /\ F \subseteq Rcv
        /\ Rcv' \subseteq Rcv /\ F \cap Rcv' = {}
        /\ Rcv' # {} => Cardinality(F) = Extra(cTxLock)
    BY <1>1, MovedCount, CoverType DEF IInv, Rcv
  <1> HIDE DEF n, F
  <1>3. OthersStay(t) /\ pc'[t] = "unlockRx"
    BY <1>1 DEF UnlockTx, Goto, OthersStay, IInv, Typed, CallsTyped
  <1>4. \A u \in Tasks : Comes(u) => Comes(u)'
    BY <1>1, <1>2, <1>3 DEF Comes, OthersStay
  <1>5. Receivers \subseteq Receivers' /\ Senders \subseteq Senders'
    BY <1>1, <1>2, <1>4 DEF Receivers, Senders
  <1>6. F \cap Receivers = {} /\ F \subseteq Receivers'
    <2>1. F \cap Receivers = {}
      BY <1>2 DEF Receivers
    <2>2. \A u \in F : kind[u] \in {"receive", "peek"}
      BY <1>2 DEF IInv, WaitersSound, WaiterSound, Listed
    <2> QED
      BY <1>1, <1>2, <2>1, <2>2 DEF Receivers, Comes
  <1>7. /\ Cardinality(Receivers) + Cardinality(F) <= Cardinality(Receivers')
        /\ Cardinality(Senders) <= Cardinality(Senders')
    BY <1>2, <1>5, <1>6, NewComers, CountKept, CountAdds
  <1>8. ~ ReceiverPlaced' /\ ~ SenderPlaced'
    <2>1. \A u \in Tasks \ {t} : pc[u] \notin Exclusive
      BY <1>1, OneInLock DEF Exclusive
    <2> QED
      BY <1>3, <2>1 DEF ReceiverPlaced, SenderPlaced, OthersStay, Exclusive
  <1>9. ItemsCovered'
    <2>1. Extra(cTxLock') = 0
      BY <1>1 DEF Extra
    <2> QED
      BY <1>1, <1>2, <1>7, <1>8, <2>1, NewComers, CoverType DEF ItemsCovered
  <1>10. PlacesCovered'
    <2>1. /\ Extra(cRxLock') = Extra(cRxLock) /\ uxMessagesWaiting' = uxMessagesWaiting
          /\ Snd' = Snd /\ uxLength' = uxLength
      BY <1>1
    <2> QED
      BY <1>7, <1>8, <2>1, NewComers, CoverType DEF PlacesCovered
  <1> QED
    BY <1>9, <1>10

LEMMA UnlockRxCovered ==
    ASSUME IInv, LocksCount, ItemsCovered, PlacesCovered, NEW t \in Tasks, UnlockRx(t),
           UNCHANGED program
    PROVE  ItemsCovered' /\ PlacesCovered'
  <1> DEFINE n == WakeCount(cRxLock, xTasksWaitingToSend)
             F == Range(SubSeq(xTasksWaitingToSend, 1, n))
  <1>1. /\ pc[t] = "unlockRx" /\ UNCHANGED <<uxMessagesWaiting, cTxLock, kind, goal, target>>
        /\ cRxLock' = -1 /\ Rcv' = Rcv /\ blocked' = blocked /\ uxLength' = uxLength
        /\ Pnd' = Range(xPendingReadyList \o SubSeq(xTasksWaitingToSend, 1, n))
        /\ Snd' = Range(SubSeq(xTasksWaitingToSend, n + 1, Len(xTasksWaitingToSend)))
    BY DEF UnlockRx, queueUNLOCKED, uxLength, Snd, Rcv, Pnd
  <1>2. /\ Pnd' = Pnd \cup F /\ F \in SUBSET Tasks /\ F \subseteq Snd
        /\ Snd' \subseteq Snd /\ F \cap Snd' = {}
        /\ Snd' # {} => Cardinality(F) = Extra(cRxLock)
    BY <1>1, MovedCount, CoverType DEF IInv, Snd
  <1> HIDE DEF n, F
  <1>3. OthersStay(t) /\ pc'[t] = "resume"
    BY <1>1 DEF UnlockRx, Goto, OthersStay, IInv, Typed, CallsTyped
  <1>4. \A u \in Tasks : Comes(u) => Comes(u)'
    BY <1>1, <1>2, <1>3 DEF Comes, OthersStay
  <1>5. Receivers \subseteq Receivers' /\ Senders \subseteq Senders'
    BY <1>1, <1>2, <1>4 DEF Receivers, Senders
  <1>6. F \cap Senders = {} /\ F \subseteq Senders'
    <2>1. F \cap Senders = {}
      BY <1>2 DEF Senders
    <2>2. \A u \in F : kind[u] = "send"
      BY <1>2 DEF IInv, WaitersSound, WaiterSound, Listed
    <2> QED
      BY <1>1, <1>2, <2>1, <2>2 DEF Senders, Comes
  <1>7. /\ Cardinality(Senders) + Cardinality(F) <= Cardinality(Senders')
        /\ Cardinality(Receivers) <= Cardinality(Receivers')
    BY <1>2, <1>5, <1>6, NewComers, CountKept, CountAdds
  <1>8. ~ ReceiverPlaced' /\ ~ SenderPlaced'
    <2>1. \A u \in Tasks \ {t} : pc[u] \notin Exclusive
      BY <1>1, OneInLock DEF Exclusive
    <2> QED
      BY <1>3, <2>1 DEF ReceiverPlaced, SenderPlaced, OthersStay, Exclusive
  <1>9. ItemsCovered'
    <2>1. /\ Extra(cTxLock') = Extra(cTxLock) /\ uxMessagesWaiting' = uxMessagesWaiting
          /\ Rcv' = Rcv
      BY <1>1
    <2> QED
      BY <1>7, <1>8, <2>1, NewComers, CoverType DEF ItemsCovered
  <1>10. PlacesCovered'
    <2>1. Extra(cRxLock') = 0
      BY <1>1 DEF Extra
    <2> QED
      BY <1>1, <1>2, <1>7, <1>8, <2>1, NewComers, CoverType DEF PlacesCovered
  <1> QED
    BY <1>9, <1>10

-----------------------------------------------------------------------------
Covered == LocksCount /\ ItemsCovered /\ PlacesCovered

LEMMA InitCovered == Init => Covered
  <1> SUFFICES ASSUME Init PROVE Covered
    OBVIOUS
  <1>1. Snd = {} /\ Rcv = {}
    BY DEF Init, Snd, Rcv, Range
  <1>2. ~ ReceiverPlaced /\ ~ SenderPlaced /\ LocksCount
    BY DEF Init, ReceiverPlaced, SenderPlaced, LocksCount, queueUNLOCKED
  <1> QED
    BY <1>1, <1>2 DEF Covered, ItemsCovered, PlacesCovered

LEMMA NextCovered ==
    ASSUME FewInterrupts, ResetsAreFilled
    PROVE  IInv /\ Covered /\ [Next]_vars => Covered'
  <1> SUFFICES ASSUME IInv, Covered, [Next]_vars PROVE ItemsCovered' /\ PlacesCovered'
    BY NextLocksCount DEF Covered
  <1> USE DEF Covered
  <1>1. CASE UNCHANGED vars
    BY <1>1 DEF vars, queueVars, listVars, callVars, ItemsCovered, PlacesCovered,
                Receivers, Senders, Comes, ReceiverPlaced, SenderPlaced, Snd, Rcv, Pnd,
                uxLength
  <1>2. CASE Interrupt
    BY <1>2, TickCovered, SendFromISRCovered, ReceiveFromISRCovered DEF Interrupt
  <1>3. ASSUME NEW t \in Tasks, TaskStep(t) PROVE ItemsCovered' /\ PlacesCovered'
    BY <1>3, SendCovered, ReceiveCovered, PeekCovered, TryFailsCovered, RoundCovered,
       PlaceCovered, UnlockTxCovered, UnlockRxCovered, ResumeCovered, RecheckCovered,
       AbortWakeCovered DEF TaskStep, Blocking
  <1>4. ASSUME NEW t \in Tasks, Begin(t) PROVE ItemsCovered' /\ PlacesCovered'
    BY <1>4, BeginCovered, ResetCovered DEF Begin
  <1> QED
    BY <1>1, <1>2, <1>3, <1>4 DEF Next

LEMMA CoveredNoneLost == IInv /\ Covered => NoLostWakeup
  <1> SUFFICES ASSUME IInv, Covered, suspender = Nobody
               PROVE  /\ xTasksWaitingToReceive # <<>> =>
                          uxMessagesWaiting <= Cardinality(Coming({"receive", "peek"}))
                      /\ xTasksWaitingToSend # <<>> =>
                          uxLength - uxMessagesWaiting <= Cardinality(Coming({"send"}))
    BY DEF NoLostWakeup
  <1>1. Extra(cTxLock) = 0 /\ Extra(cRxLock) = 0
    BY NoneInLock DEF Covered
  <1>2. /\ xTasksWaitingToReceive # <<>> => Rcv # {}
        /\ xTasksWaitingToSend # <<>> => Snd # {}
    BY ListedAreTasks DEF IInv
  <1>3. /\ Receivers \subseteq Coming({"receive", "peek"})
        /\ Senders \subseteq Coming({"send"})
        /\ Coming({"receive", "peek"}) \in SUBSET Tasks /\ Coming({"send"}) \in SUBSET Tasks
    BY DEF Receivers, Senders, Comes, Coming, Pnd
  <1>4. /\ Cardinality(Receivers) <= Cardinality(Coming({"receive", "peek"}))
        /\ Cardinality(Senders) <= Cardinality(Coming({"send"}))
        /\ Cardinality(Coming({"receive", "peek"})) \in Nat
        /\ Cardinality(Coming({"send"})) \in Nat
    BY <1>3, NewComers, CountKept
  <1> QED
    BY <1>1, <1>2, <1>4, CoverType DEF Covered, ItemsCovered, PlacesCovered

(* No wake-up is lost: as long as a receiver sleeps, every item has a woken *)
(* receiver that comes for it, and as long as a sender sleeps, every free   *)
(* place a woken sender, whatever interrupts do to the queue while it is    *)
(* locked (queue.c:2095, prvUnlockQueue).                                   *)
THEOREM NoWakeupIsLost ==
    ASSUME FewInterrupts, ResetsAreFilled
    PROVE  Spec => []NoLostWakeup
  <1>1. Init => IInv /\ Covered
    BY InitIInv, InitCovered
  <1>2. IInv /\ Covered /\ [Next]_vars => (IInv /\ Covered)'
    BY NextIInv, NextCovered
  <1>3. IInv /\ Covered => NoLostWakeup
    BY CoveredNoneLost
  <1> QED
    BY <1>1, <1>2, <1>3, PTL DEF Spec
=============================================================================
