---------------------------- MODULE MutexProofs -----------------------------
(* Machine-checked facts about Mutex, for any number of tasks and mutexes. *)
EXTENDS Mutex, SequenceProofs

(* Where the two critical sections of the recursive calls leave the nesting *)
(* count: it is zero while somebody holds the mutex only between the take   *)
(* and the count, and between the last count and the give.                  *)
CountFollows ==
    /\ \A m \in Mutexes \ Recursive : uxRecursiveCallCount[m] = 0
    /\ \A t \in Tasks : pc[t] \in {"taken", "give"} =>
            /\ wanted[t] \in Recursive
            /\ pxMutexHolder[wanted[t]] = t
            /\ uxRecursiveCallCount[wanted[t]] = 0
    /\ \A m \in Recursive, t \in Tasks :
            (pxMutexHolder[m] = t /\ uxRecursiveCallCount[m] = 0) =>
                pc[t] \in {"taken", "give"} /\ wanted[t] = m

(* A task on an event list is blocked in the loop of the call for that      *)
(* mutex, and is on the list once.                                          *)
WaitersWait ==
    \A m \in Mutexes :
        /\ IsInjective(xTasksWaitingToReceive[m])
        /\ \A j \in DOMAIN xTasksWaitingToReceive[m] :
              LET t == xTasksWaitingToReceive[m][j]
              IN  t \in blocked /\ pc[t] = "try" /\ wanted[t] = m

IInv ==
    /\ program \in Programs
    /\ TypeOK /\ HoldersAgree /\ RestoredAtLast /\ CountFollows /\ WaitersWait
    /\ NoLostWakeup

-----------------------------------------------------------------------------
(* Sequences: what the event lists need. *)

(* A list without repetitions stays one when an element goes, or when one   *)
(* that is not there comes.                                                 *)
LEMMA RemoveAtInjective ==
    ASSUME NEW S, NEW q \in Seq(S), NEW k \in DOMAIN q, IsInjective(q)
    PROVE  /\ RemoveAt(q, k) \in Seq(S) /\ IsInjective(RemoveAt(q, k))
           /\ \A j \in DOMAIN RemoveAt(q, k) :
                 \E l \in DOMAIN q : RemoveAt(q, k)[j] = q[l] /\ q[l] # q[k]
  <1> DEFINE r == RemoveAt(q, k)
  <1>1. /\ r \in Seq(S) /\ Len(r) = Len(q) - 1
        /\ \A j \in DOMAIN r : r[j] = q[IF j < k THEN j ELSE j + 1]
    BY RemoveAtFacts
  <1> HIDE DEF r
  <1>2. IsInjective(r)
    BY <1>1 DEF IsInjective
  <1>3. \A j \in DOMAIN r : \E l \in DOMAIN q : l # k /\ r[j] = q[l]
    BY <1>1
  <1> QED
    BY <1>1, <1>2, <1>3 DEF r, IsInjective

LEMMA InsertAtInjective ==
    ASSUME NEW S, NEW q \in Seq(S), NEW e \in S, NEW k \in 1 .. Len(q) + 1,
           IsInjective(q), \A j \in DOMAIN q : q[j] # e
    PROVE  /\ InsertAt(q, k, e) \in Seq(S) /\ IsInjective(InsertAt(q, k, e))
           /\ \A j \in DOMAIN InsertAt(q, k, e) :
                 \/ InsertAt(q, k, e)[j] = e
                 \/ \E l \in DOMAIN q : InsertAt(q, k, e)[j] = q[l]
  <1> DEFINE r == InsertAt(q, k, e)
  <1>1. /\ r \in Seq(S) /\ Len(r) = Len(q) + 1
        /\ \A j \in DOMAIN r :
              r[j] = IF j < k THEN q[j] ELSE IF j = k THEN e ELSE q[j - 1]
    BY InsertAtPlaces
  <1> HIDE DEF r
  <1>2. \A j \in DOMAIN r : r[j] = e \/ \E l \in DOMAIN q : r[j] = q[l]
    BY <1>1, SMTT(30)
  <1>3. ASSUME NEW i \in DOMAIN r, NEW j \in DOMAIN r, r[i] = r[j]
        PROVE  i = j
    <2>1. CASE i = k \/ j = k
      BY <1>1, <1>3, <2>1, SMTT(30)
    <2>2. CASE i # k /\ j # k
      <3>1. PICK a \in DOMAIN q :
                r[i] = q[a] /\ a = IF i < k THEN i ELSE i - 1
        BY <1>1, <2>2
      <3>2. PICK b \in DOMAIN q :
                r[j] = q[b] /\ b = IF j < k THEN j ELSE j - 1
        BY <1>1, <2>2
      <3>3. a = b
        BY <1>3, <3>1, <3>2 DEF IsInjective
      <3> QED
        BY <1>1, <2>2, <3>1, <3>2, <3>3
    <2> QED
      BY <2>1, <2>2
  <1> QED
    BY <1>1, <1>2, <1>3 DEF r, IsInjective

LEMMA TailInjective ==
    ASSUME NEW S, NEW q \in Seq(S), q # <<>>, IsInjective(q)
    PROVE  /\ Tail(q) \in Seq(S) /\ IsInjective(Tail(q)) /\ Head(q) \in S
           /\ Head(q) = q[1] /\ 1 \in DOMAIN q
           /\ \A j \in DOMAIN Tail(q) :
                 \E l \in DOMAIN q : Tail(q)[j] = q[l] /\ q[l] # Head(q)
  <1>1. /\ Tail(q) \in Seq(S) /\ Len(Tail(q)) = Len(q) - 1
        /\ \A j \in DOMAIN Tail(q) : Tail(q)[j] = q[j + 1]
        /\ Head(q) \in S /\ Head(q) = q[1] /\ 1 \in DOMAIN q
    OBVIOUS
  <1> QED
    BY <1>1 DEF IsInjective

(* vListInsert finds a place behind all that do not have a lower event      *)
(* value, in front of the others.                                           *)
LEMMA InsertByPriorityFacts ==
    ASSUME TypeOK, NEW q \in Seq(Tasks), NEW t \in Tasks
    PROVE  \E k \in 1 .. Len(q) + 1 :
              /\ InsertByPriority(q, t) = InsertAt(q, k, t)
              /\ k \in DOMAIN q => eventPriority[q[k]] <= eventPriority[t]
              /\ \A j \in 1 .. k - 1 : eventPriority[t] <= eventPriority[q[j]]
  <1> DEFINE lower == {u \in Tasks : eventPriority[u] < eventPriority[t]}
  <1>1. PICK k \in 1 .. Len(q) + 1 :
            /\ InsertBefore(q, t, lower) = InsertAt(q, k, t)
            /\ k \in DOMAIN q => q[k] \in lower
            /\ \A j \in 1 .. k - 1 : q[j] \notin lower
    <2> HIDE DEF lower
    <2> QED
      BY InsertBeforePlace
  <1>2. InsertByPriority(q, t) = InsertAt(q, k, t)
    BY <1>1 DEF InsertByPriority
  <1>3. \A u \in Tasks : eventPriority[u] \in Nat
    BY DEF TypeOK
  <1>4. k \in DOMAIN q => eventPriority[q[k]] <= eventPriority[t]
    BY <1>1, <1>3
  <1>5. ASSUME NEW j \in 1 .. k - 1
        PROVE  eventPriority[t] <= eventPriority[q[j]]
    <2>1. q[j] \in Tasks /\ q[j] \notin lower
      BY <1>1
    <2> QED
      BY <1>3, <2>1
  <1> QED
    BY <1>2, <1>4, <1>5

-----------------------------------------------------------------------------
(* Counting the mutexes a task holds. *)
HeldBy(t) == {m \in Mutexes : pxMutexHolder[m] = t}

LEMMA HeldFinite ==
    ASSUME NEW t
    PROVE  /\ IsFiniteSet(HeldBy(t)) /\ Cardinality(HeldBy(t)) \in Nat
           /\ Cardinality(Mutexes) \in Nat
           /\ Cardinality(HeldBy(t)) <= Cardinality(Mutexes)
  <1>1. HeldBy(t) \in SUBSET Mutexes
    BY DEF HeldBy
  <1> QED
    BY <1>1, FS_Subset, FS_CardinalityType, MutexesAssumption

(* A holder has counted at least the one. *)
LEMMA HolderCounts ==
    ASSUME HoldersAgree, NEW t \in Tasks, NEW m \in Mutexes,
           pxMutexHolder[m] = t
    PROVE  uxMutexesHeld[t] >= 1
  <1>1. HeldBy(t) # {}
    BY DEF HeldBy
  <1>2. Cardinality(HeldBy(t)) # 0
    BY <1>1, HeldFinite, FS_EmptySet
  <1>3. uxMutexesHeld[t] = Cardinality(HeldBy(t))
    BY DEF HoldersAgree, HeldBy
  <1> QED
    BY <1>2, <1>3, HeldFinite

LEMMA TakenCounts ==
    ASSUME TypeOK, HoldersAgree, NEW t \in Tasks, NEW m \in Mutexes,
           pxMutexHolder[m] = Nobody,
           pxMutexHolder' = [pxMutexHolder EXCEPT ![m] = t],
           uxMutexesHeld' = [uxMutexesHeld EXCEPT ![t] = @ + 1]
    PROVE  /\ uxMutexesHeld' \in [Tasks -> 0 .. Cardinality(Mutexes)]
           /\ \A u \in Tasks : uxMutexesHeld'[u] =
                Cardinality({n \in Mutexes : pxMutexHolder'[n] = u})
  <1>1. HeldBy(t)' = HeldBy(t) \cup {m}
    BY DEF HeldBy, TypeOK
  <1>2. m \notin HeldBy(t)
    BY TasksAssumption DEF HeldBy
  <1>3. Cardinality(HeldBy(t)') = Cardinality(HeldBy(t)) + 1
    BY <1>1, <1>2, HeldFinite, FS_AddElement
  <1>4. \A u \in Tasks \ {t} : HeldBy(u)' = HeldBy(u)
    BY TasksAssumption DEF HeldBy, TypeOK
  <1>5. HeldBy(t)' \in SUBSET Mutexes
    BY DEF HeldBy
  <1>6. Cardinality(HeldBy(t)') <= Cardinality(Mutexes)
    BY <1>5, FS_Subset, MutexesAssumption
  <1>7. \A u \in Tasks : uxMutexesHeld[u] = Cardinality(HeldBy(u))
    BY DEF HoldersAgree, HeldBy
  <1>8. \A u \in Tasks : uxMutexesHeld'[u] = Cardinality(HeldBy(u)')
    BY <1>3, <1>4, <1>7 DEF TypeOK
  <1>9. uxMutexesHeld'[t] \in 0 .. Cardinality(Mutexes)
    BY <1>3, <1>6, <1>8, HeldFinite
  <1> QED
    BY <1>8, <1>9 DEF HeldBy, TypeOK

LEMMA GivenCounts ==
    ASSUME TypeOK, HoldersAgree, NEW t \in Tasks, NEW m \in Mutexes,
           pxMutexHolder[m] = t,
           pxMutexHolder' = [pxMutexHolder EXCEPT ![m] = Nobody],
           uxMutexesHeld' = [uxMutexesHeld EXCEPT ![t] = @ - 1]
    PROVE  /\ uxMutexesHeld' \in [Tasks -> 0 .. Cardinality(Mutexes)]
           /\ \A u \in Tasks : uxMutexesHeld'[u] =
                Cardinality({n \in Mutexes : pxMutexHolder'[n] = u})
  <1>1. HeldBy(t)' = HeldBy(t) \ {m}
    BY TasksAssumption DEF HeldBy, TypeOK
  <1>2. m \in HeldBy(t)
    BY DEF HeldBy
  <1>3. Cardinality(HeldBy(t)') = Cardinality(HeldBy(t)) - 1
    BY <1>1, <1>2, HeldFinite, FS_RemoveElement, SMTT(30)
  <1>4. \A u \in Tasks \ {t} : HeldBy(u)' = HeldBy(u)
    BY TasksAssumption DEF HeldBy, TypeOK
  <1>5. \A u \in Tasks : uxMutexesHeld[u] = Cardinality(HeldBy(u))
    BY DEF HoldersAgree, HeldBy
  <1>6. \A u \in Tasks : uxMutexesHeld'[u] = Cardinality(HeldBy(u)')
    BY <1>3, <1>4, <1>5 DEF TypeOK
  <1>7. uxMutexesHeld'[t] \in 0 .. Cardinality(Mutexes)
    BY <1>3, <1>5, <1>6, HolderCounts, HeldFinite
  <1> QED
    BY <1>6, <1>7 DEF HeldBy, TypeOK

-----------------------------------------------------------------------------
(* Every action keeps the invariant. *)

(* A task that runs is on no event list. *)
LEMMA ListsStay ==
    ASSUME IInv, NEW t \in Tasks, CanRun(t),
           UNCHANGED <<xTasksWaitingToReceive, blocked>>,
           \A u \in Tasks \ {t} : pc'[u] = pc[u] /\ wanted'[u] = wanted[u]
    PROVE  WaitersWait'
  <1>1. ASSUME NEW m \in Mutexes, NEW j \in DOMAIN xTasksWaitingToReceive[m]
        PROVE  xTasksWaitingToReceive[m][j] \in Tasks \ {t}
    BY <1>1 DEF IInv, TypeOK, WaitersWait, CanRun
  <1> QED
    BY <1>1 DEF IInv, WaitersWait

LEMMA BeginTakeKeeps ==
    ASSUME IInv, UNCHANGED program, NEW t \in Tasks, NEW m \in Mutexes,
           NEW w \in WaitKinds, BeginTake(t, m, w)
    PROVE  IInv'
  <1>m. /\ CanRun(t)
        /\ \A u \in Tasks \ {t} : pc'[u] = pc[u] /\ wanted'[u] = wanted[u]
    BY DEF IInv, TypeOK, BeginTake, At, Goto, callVars
  <1>1. TypeOK'
    BY DEF IInv, TypeOK, WaitKinds, BeginTake, At, CanRun, Goto, mutexVars,
      prioVars, callVars
  <1>2. HoldersAgree'
    BY DEF IInv, HoldersAgree, BeginTake, At, CanRun, Goto, mutexVars,
      prioVars, callVars
  <1>3. RestoredAtLast'
    BY DEF IInv, RestoredAtLast, BeginTake, At, CanRun, Goto, mutexVars,
      prioVars, callVars
  <1>4. CountFollows'
    BY DEF IInv, TypeOK, CountFollows, BeginTake, At, CanRun, Goto,
      mutexVars, prioVars, callVars
  <1>5. WaitersWait'
    BY <1>m, ListsStay DEF BeginTake
  <1>6. NoLostWakeup'
    BY DEF IInv, TypeOK, NoLostWakeup, BeginTake, At, CanRun, Goto,
      mutexVars, prioVars, callVars
  <1> QED
    BY <1>1, <1>2, <1>3, <1>4, <1>5, <1>6 DEF IInv

LEMMA TakeFailsKeeps ==
    ASSUME IInv, UNCHANGED program, NEW t \in Tasks,
           TakeFails(t)
    PROVE  IInv'
  <1>m. /\ CanRun(t)
        /\ \A u \in Tasks \ {t} : pc'[u] = pc[u] /\ wanted'[u] = wanted[u]
    BY DEF IInv, TypeOK, TakeFails, At, Goto, callVars
  <1>1. TypeOK'
    BY DEF IInv, TypeOK, WaitKinds, TakeFails, At, CanRun, Goto, mutexVars,
      prioVars, callVars
  <1>2. HoldersAgree'
    BY DEF IInv, HoldersAgree, TakeFails, At, CanRun, Goto, mutexVars,
      prioVars, callVars
  <1>3. RestoredAtLast'
    BY DEF IInv, RestoredAtLast, TakeFails, At, CanRun, Goto, mutexVars,
      prioVars, callVars
  <1>4. CountFollows'
    BY DEF IInv, TypeOK, CountFollows, TakeFails, At, CanRun, Goto,
      mutexVars, prioVars, callVars
  <1>5. WaitersWait'
    BY <1>m, ListsStay DEF TakeFails
  <1>6. NoLostWakeup'
    BY DEF IInv, TypeOK, NoLostWakeup, TakeFails, At, CanRun, Goto,
      mutexVars, prioVars, callVars
  <1> QED
    BY <1>1, <1>2, <1>3, <1>4, <1>5, <1>6 DEF IInv

LEMMA RetryKeeps ==
    ASSUME IInv, UNCHANGED program, NEW t \in Tasks,
           Retry(t)
    PROVE  IInv'
  <1>m. /\ CanRun(t)
        /\ \A u \in Tasks \ {t} : pc'[u] = pc[u] /\ wanted'[u] = wanted[u]
    BY DEF IInv, TypeOK, Retry, At, Goto, callVars
  <1>1. TypeOK'
    BY DEF IInv, TypeOK, WaitKinds, Retry, At, CanRun, Goto, mutexVars,
      prioVars, callVars
  <1>2. HoldersAgree'
    BY DEF IInv, HoldersAgree, Retry, At, CanRun, Goto, mutexVars, prioVars,
      callVars
  <1>3. RestoredAtLast'
    BY DEF IInv, RestoredAtLast, Retry, At, CanRun, Goto, mutexVars,
      prioVars, callVars
  <1>4. CountFollows'
    BY DEF IInv, TypeOK, CountFollows, Retry, At, CanRun, Goto, mutexVars,
      prioVars, callVars
  <1>5. WaitersWait'
    BY <1>m, ListsStay DEF Retry
  <1>6. NoLostWakeup'
    BY DEF IInv, TypeOK, NoLostWakeup, Retry, At, CanRun, Goto, mutexVars,
      prioVars, callVars
  <1> QED
    BY <1>1, <1>2, <1>3, <1>4, <1>5, <1>6 DEF IInv

LEMMA ExpireKeeps ==
    ASSUME IInv, UNCHANGED program, NEW t \in Tasks,
           Expire(t)
    PROVE  IInv'
  <1>m. /\ CanRun(t)
        /\ \A u \in Tasks \ {t} : pc'[u] = pc[u] /\ wanted'[u] = wanted[u]
    BY DEF IInv, TypeOK, Expire, At, Goto, callVars
  <1>1. TypeOK'
    BY DEF IInv, TypeOK, WaitKinds, Expire, At, CanRun, Goto, mutexVars,
      prioVars, callVars
  <1>2. HoldersAgree'
    BY DEF IInv, HoldersAgree, Expire, At, CanRun, Goto, mutexVars, prioVars,
      callVars
  <1>3. RestoredAtLast'
    BY DEF IInv, RestoredAtLast, Expire, At, CanRun, Goto, mutexVars,
      prioVars, callVars
  <1>4. CountFollows'
    BY DEF IInv, TypeOK, CountFollows, Expire, At, CanRun, Goto, mutexVars,
      prioVars, callVars
  <1>5. WaitersWait'
    BY <1>m, ListsStay DEF Expire
  <1>6. NoLostWakeup'
    BY DEF IInv, TypeOK, NoLostWakeup, Expire, At, CanRun, Goto, mutexVars,
      prioVars, callVars
  <1> QED
    BY <1>1, <1>2, <1>3, <1>4, <1>5, <1>6 DEF IInv

LEMMA LookAgainKeeps ==
    ASSUME IInv, UNCHANGED program, NEW t \in Tasks,
           LookAgain(t)
    PROVE  IInv'
  <1>m. /\ CanRun(t)
        /\ \A u \in Tasks \ {t} : pc'[u] = pc[u] /\ wanted'[u] = wanted[u]
    BY DEF IInv, TypeOK, LookAgain, At, Goto, callVars
  <1>1. TypeOK'
    BY DEF IInv, TypeOK, WaitKinds, LookAgain, At, CanRun, Goto, mutexVars,
      prioVars, callVars
  <1>2. HoldersAgree'
    BY DEF IInv, HoldersAgree, LookAgain, At, CanRun, Goto, mutexVars,
      prioVars, callVars
  <1>3. RestoredAtLast'
    BY DEF IInv, RestoredAtLast, LookAgain, At, CanRun, Goto, mutexVars,
      prioVars, callVars
  <1>4. CountFollows'
    BY DEF IInv, TypeOK, CountFollows, LookAgain, At, CanRun, Goto,
      mutexVars, prioVars, callVars
  <1>5. WaitersWait'
    BY <1>m, ListsStay DEF LookAgain
  <1>6. NoLostWakeup'
    BY DEF IInv, TypeOK, NoLostWakeup, LookAgain, At, CanRun, Goto,
      mutexVars, prioVars, callVars
  <1> QED
    BY <1>1, <1>2, <1>3, <1>4, <1>5, <1>6 DEF IInv

LEMMA SleepKeeps ==
    ASSUME IInv, UNCHANGED program, NEW t \in Tasks,
           Sleep(t)
    PROVE  IInv'
  <1>1. TypeOK'
    BY DEF IInv, TypeOK, WaitKinds, Sleep, At, CanRun, Goto, mutexVars,
      prioVars, callVars
  <1>2. HoldersAgree'
    BY DEF IInv, HoldersAgree, Sleep, At, CanRun, Goto, mutexVars, prioVars,
      callVars
  <1>3. RestoredAtLast'
    BY DEF IInv, RestoredAtLast, Sleep, At, CanRun, Goto, mutexVars,
      prioVars, callVars
  <1>4. CountFollows'
    BY DEF IInv, TypeOK, CountFollows, Sleep, At, CanRun, Goto, mutexVars,
      prioVars, callVars
  <1>5. WaitersWait'
    BY DEF IInv, TypeOK, WaitersWait, Sleep, At, CanRun, Goto, mutexVars,
      prioVars, callVars
  <1>6. NoLostWakeup'
    BY DEF IInv, TypeOK, NoLostWakeup, Sleep, At, CanRun, Goto, mutexVars,
      prioVars, callVars
  <1> QED
    BY <1>1, <1>2, <1>3, <1>4, <1>5, <1>6 DEF IInv

LEMMA WakeKeeps ==
    ASSUME IInv, UNCHANGED program, NEW t \in Tasks,
           Wake(t)
    PROVE  IInv'
  <1>1. TypeOK'
    BY DEF IInv, TypeOK, WaitKinds, Wake, mutexVars, prioVars, callVars
  <1>2. HoldersAgree'
    BY DEF IInv, HoldersAgree, Wake, mutexVars, prioVars, callVars
  <1>3. RestoredAtLast'
    BY DEF IInv, RestoredAtLast, Wake, mutexVars, prioVars, callVars
  <1>4. CountFollows'
    BY DEF IInv, TypeOK, CountFollows, Wake, mutexVars, prioVars, callVars
  <1>5. WaitersWait'
    BY DEF IInv, TypeOK, WaitersWait, Wake, mutexVars, prioVars, callVars
  <1>6. NoLostWakeup'
    BY DEF IInv, TypeOK, NoLostWakeup, Wake, mutexVars, prioVars, callVars
  <1> QED
    BY <1>1, <1>2, <1>3, <1>4, <1>5, <1>6 DEF IInv

LEMMA CountTakeKeeps ==
    ASSUME IInv, UNCHANGED program, NEW t \in Tasks,
           CountTake(t)
    PROVE  IInv'
  <1>m. /\ CanRun(t)
        /\ \A u \in Tasks \ {t} : pc'[u] = pc[u] /\ wanted'[u] = wanted[u]
    BY DEF IInv, TypeOK, CountTake, At, Goto, callVars
  <1>a. /\ wanted[t] \in Recursive /\ wanted[t] \in Mutexes
        /\ pxMutexHolder[wanted[t]] = t
        /\ uxRecursiveCallCount[wanted[t]] = 0
    BY DEF IInv, TypeOK, CountFollows, CountTake, At
  <1>b. /\ uxRecursiveCallCount'[wanted[t]] = 1
        /\ \A m \in Mutexes \ {wanted[t]} :
              uxRecursiveCallCount'[m] = uxRecursiveCallCount[m]
        /\ UNCHANGED <<pxMutexHolder, uxMessagesWaiting, uxMutexesHeld,
                       wanted>>
        /\ pc'[t] = "out" /\ pc[t] = "taken"
    BY <1>a DEF IInv, TypeOK, CountTake, At, Goto, callVars
  <1>1. TypeOK'
    BY <1>a, <1>b, MutexesAssumption DEF IInv, TypeOK, CountTake, Goto,
      prioVars, callVars
  <1>2. HoldersAgree'
    BY <1>a, <1>b, TasksAssumption DEF IInv, HoldersAgree
  <1>3. RestoredAtLast'
    BY DEF IInv, RestoredAtLast, CountTake, At, CanRun, Goto, mutexVars,
      prioVars, callVars
  <1>4. CountFollows'
    <2>1. \A n \in Mutexes \ Recursive : uxRecursiveCallCount'[n] = 0
      BY <1>a, <1>b DEF IInv, CountFollows
    <2>2. ASSUME NEW u \in Tasks, pc'[u] \in {"taken", "give"}
          PROVE  /\ wanted'[u] \in Recursive /\ pxMutexHolder'[wanted'[u]] = u
                 /\ uxRecursiveCallCount'[wanted'[u]] = 0
      BY <1>m, <1>a, <1>b, <2>2, MutexesAssumption DEF IInv, TypeOK,
        CountFollows
    <2>3. ASSUME NEW n \in Recursive, NEW u \in Tasks,
                 pxMutexHolder'[n] = u, uxRecursiveCallCount'[n] = 0
          PROVE  pc'[u] \in {"taken", "give"} /\ wanted'[u] = n
      BY <1>m, <1>a, <1>b, <2>3, MutexesAssumption DEF IInv, CountFollows
    <2> QED
      BY <2>1, <2>2, <2>3 DEF CountFollows
  <1>5. WaitersWait'
    BY <1>m, ListsStay DEF CountTake
  <1>6. NoLostWakeup'
    <2>1. UNCHANGED <<xTasksWaitingToReceive, blocked>>
      BY DEF CountTake
    <2>2. ASSUME NEW u \in Tasks \ blocked, pc[u] \in {"try", "failed", "timedOut"}
          PROVE  pc'[u] = pc[u] /\ wanted'[u] = wanted[u] /\ u \in Tasks \ blocked'
      BY <1>m, <1>b, <2>1, <2>2
    <2> QED
      BY <1>b, <2>1, <2>2 DEF IInv, NoLostWakeup
  <1> QED
    BY <1>1, <1>2, <1>3, <1>4, <1>5, <1>6 DEF IInv

LEMMA TakeAgainKeeps ==
    ASSUME IInv, UNCHANGED program, NEW t \in Tasks, NEW m \in Mutexes,
           TakeAgain(t, m)
    PROVE  IInv'
  <1>m. /\ CanRun(t)
        /\ \A u \in Tasks \ {t} : pc'[u] = pc[u] /\ wanted'[u] = wanted[u]
    BY DEF IInv, TypeOK, TakeAgain, At, callVars
  <1>a. /\ m \in Recursive /\ pxMutexHolder[m] = t /\ pc[t] = "out"
        /\ uxRecursiveCallCount'[m] = uxRecursiveCallCount[m] + 1
        /\ uxRecursiveCallCount[m] \in 0 .. MaxDepth - 1
        /\ \A n \in Mutexes \ {m} :
              uxRecursiveCallCount'[n] = uxRecursiveCallCount[n]
        /\ UNCHANGED <<pxMutexHolder, uxMessagesWaiting, uxMutexesHeld,
                       wanted, pc>>
    BY MutexesAssumption DEF IInv, TypeOK, TakeAgain, At, callVars
  <1>1. TypeOK'
    BY <1>a, MutexesAssumption, SMTT(30) DEF IInv, TypeOK, TakeAgain, mutexVars,
      prioVars, callVars
  <1>2. HoldersAgree'
    BY <1>a, TasksAssumption DEF IInv, HoldersAgree
  <1>3. RestoredAtLast'
    BY DEF IInv, RestoredAtLast, TakeAgain, At, CanRun, Goto, mutexVars,
      prioVars, callVars
  <1>4. CountFollows'
    <2>1. \A n \in Mutexes \ Recursive : uxRecursiveCallCount'[n] = 0
      BY <1>a DEF IInv, CountFollows
    <2>2. ASSUME NEW u \in Tasks, pc'[u] \in {"taken", "give"}
          PROVE  /\ wanted'[u] \in Recursive /\ pxMutexHolder'[wanted'[u]] = u
                 /\ uxRecursiveCallCount'[wanted'[u]] = 0
      BY <1>a, <2>2, MutexesAssumption DEF IInv, TypeOK, CountFollows
    <2>3. ASSUME NEW n \in Recursive, NEW u \in Tasks,
                 pxMutexHolder'[n] = u, uxRecursiveCallCount'[n] = 0
          PROVE  pc'[u] \in {"taken", "give"} /\ wanted'[u] = n
      BY <1>a, <2>3, MutexesAssumption DEF IInv, CountFollows
    <2> QED
      BY <2>1, <2>2, <2>3 DEF CountFollows
  <1>5. WaitersWait'
    BY <1>m, ListsStay DEF TakeAgain
  <1>6. NoLostWakeup'
    BY DEF IInv, TypeOK, NoLostWakeup, TakeAgain, At, CanRun, Goto,
      mutexVars, prioVars, callVars
  <1> QED
    BY <1>1, <1>2, <1>3, <1>4, <1>5, <1>6 DEF IInv

(* The count is not zero, as the task is not on its way in or out. *)
LEMMA GiveCountKeeps ==
    ASSUME IInv, UNCHANGED program, NEW t \in Tasks, NEW m \in Mutexes,
           xQueueGiveMutexRecursive(t, m)
    PROVE  IInv'
  <1>m. /\ CanRun(t)
        /\ \A u \in Tasks \ {t} : pc'[u] = pc[u] /\ wanted'[u] = wanted[u]
    BY DEF IInv, TypeOK, xQueueGiveMutexRecursive, At, Goto
  <1>a. /\ m \in Recursive /\ pxMutexHolder[m] = t /\ pc[t] = "out"
        /\ pc'[t] = IF uxRecursiveCallCount[m] = 1 THEN "give" ELSE "out"
        /\ wanted'[t] = m
        /\ uxRecursiveCallCount'[m] = uxRecursiveCallCount[m] - 1
        /\ \A n \in Mutexes \ {m} :
              uxRecursiveCallCount'[n] = uxRecursiveCallCount[n]
        /\ UNCHANGED <<pxMutexHolder, uxMessagesWaiting, uxMutexesHeld>>
    BY DEF IInv, TypeOK, xQueueGiveMutexRecursive, At, Goto
  <1>b. uxRecursiveCallCount[m] # 0
    BY <1>a DEF IInv, CountFollows
  <1>c. uxRecursiveCallCount[m] \in 1 .. MaxDepth
    BY <1>b, MutexesAssumption DEF IInv, TypeOK
  <1>1. TypeOK'
    BY <1>c, MutexesAssumption DEF IInv, TypeOK, xQueueGiveMutexRecursive,
      Goto, mutexVars, prioVars
  <1>2. HoldersAgree'
    BY <1>a, TasksAssumption DEF IInv, HoldersAgree
  <1>3. RestoredAtLast'
    BY DEF IInv, RestoredAtLast, xQueueGiveMutexRecursive, At, CanRun, Goto,
      mutexVars, prioVars, callVars
  <1>4. CountFollows'
    <2>1. \A n \in Mutexes \ Recursive : uxRecursiveCallCount'[n] = 0
      BY <1>a DEF IInv, CountFollows
    <2>2. ASSUME NEW u \in Tasks, pc'[u] \in {"taken", "give"}
          PROVE  /\ wanted'[u] \in Recursive /\ pxMutexHolder'[wanted'[u]] = u
                 /\ uxRecursiveCallCount'[wanted'[u]] = 0
      <3>1. CASE u = t
        BY <1>a, <2>2, <3>1
      <3>2. CASE u # t
        BY <1>m, <1>a, <2>2, <3>2, MutexesAssumption DEF IInv, CountFollows
      <3> QED
        BY <3>1, <3>2
    <2>3. ASSUME NEW n \in Recursive, NEW u \in Tasks,
                 pxMutexHolder'[n] = u, uxRecursiveCallCount'[n] = 0
          PROVE  pc'[u] \in {"taken", "give"} /\ wanted'[u] = n
      <3>1. CASE n = m
        BY <1>a, <1>c, <2>3, <3>1
      <3>2. CASE n # m
        BY <1>m, <1>a, <2>3, <3>2, MutexesAssumption DEF IInv, CountFollows
      <3> QED
        BY <3>1, <3>2
    <2> QED
      BY <2>1, <2>2, <2>3 DEF CountFollows
  <1>5. WaitersWait'
    BY <1>m, ListsStay DEF xQueueGiveMutexRecursive
  <1>6. NoLostWakeup'
    <2> SUFFICES ASSUME NEW n \in Mutexes,
                        xTasksWaitingToReceive'[n] # <<>>,
                        uxMessagesWaiting'[n] = 1
                 PROVE  \E u \in Tasks \ blocked' :
                            /\ wanted'[u] = n
                            /\ pc'[u] \in {"try", "failed", "timedOut"}
      BY DEF NoLostWakeup
    <2>1. /\ xTasksWaitingToReceive[n] # <<>> /\ uxMessagesWaiting[n] = 1
          /\ blocked' = blocked
          /\ pc[t] \in {"try", "failed", "timedOut"} => wanted[t] # n
      BY <1>a DEF xQueueGiveMutexRecursive
    <2>2. PICK u \in Tasks \ blocked :
                wanted[u] = n /\ pc[u] \in {"try", "failed", "timedOut"}
      BY <2>1 DEF IInv, NoLostWakeup
    <2> QED
      BY <1>m, <2>1, <2>2
  <1> QED
    BY <1>1, <1>2, <1>3, <1>4, <1>5, <1>6 DEF IInv

LEMMA TakeSucceedsKeeps ==
    ASSUME IInv, UNCHANGED program, NEW t \in Tasks,
           TakeSucceeds(t)
    PROVE  IInv'
  <1>m. /\ CanRun(t)
        /\ \A u \in Tasks \ {t} : pc'[u] = pc[u] /\ wanted'[u] = wanted[u]
    BY DEF IInv, TypeOK, TakeSucceeds, At, Goto, callVars
  <1>a. /\ wanted[t] \in Mutexes /\ pxMutexHolder[wanted[t]] = Nobody
        /\ uxRecursiveCallCount[wanted[t]] = 0
    BY DEF IInv, TypeOK, HoldersAgree, TakeSucceeds, At
  <1>b. /\ pc[t] = "try"
        /\ pc'[t] = IF wanted[t] \in Recursive THEN "taken" ELSE "out"
        /\ pxMutexHolder'[wanted[t]] = t
        /\ \A n \in Mutexes \ {wanted[t]} :
              /\ pxMutexHolder'[n] = pxMutexHolder[n]
              /\ uxMessagesWaiting'[n] = uxMessagesWaiting[n]
        /\ uxMessagesWaiting'[wanted[t]] = 0
        /\ UNCHANGED <<uxRecursiveCallCount, wanted>>
    BY <1>a DEF IInv, TypeOK, TakeSucceeds, At, Goto, callVars
  <1>c. /\ uxMutexesHeld' \in [Tasks -> 0 .. Cardinality(Mutexes)]
        /\ \A u \in Tasks : uxMutexesHeld'[u] =
             Cardinality({n \in Mutexes : pxMutexHolder'[n] = u})
    BY <1>a, TakenCounts DEF IInv, TakeSucceeds
  <1>1. TypeOK'
    BY <1>c DEF IInv, TypeOK, WaitKinds, TakeSucceeds, Goto, prioVars,
      callVars
  <1>2. HoldersAgree'
    BY <1>a, <1>b, <1>c, TasksAssumption DEF IInv, HoldersAgree
  <1>3. RestoredAtLast'
    BY HeldFinite DEF IInv, TypeOK, RestoredAtLast, TakeSucceeds, prioVars
  <1>4. CountFollows'
    <2>1. \A n \in Mutexes \ Recursive : uxRecursiveCallCount'[n] = 0
      BY <1>b DEF IInv, CountFollows
    <2>2. ASSUME NEW u \in Tasks, pc'[u] \in {"taken", "give"}
          PROVE  /\ wanted'[u] \in Recursive /\ pxMutexHolder'[wanted'[u]] = u
                 /\ uxRecursiveCallCount'[wanted'[u]] = 0
      BY <1>m, <1>a, <1>b, <2>2, TasksAssumption DEF IInv, TypeOK,
        CountFollows
    <2>3. ASSUME NEW n \in Recursive, NEW u \in Tasks,
                 pxMutexHolder'[n] = u, uxRecursiveCallCount'[n] = 0
          PROVE  pc'[u] \in {"taken", "give"} /\ wanted'[u] = n
      <3>1. CASE n = wanted[t]
        BY <1>b, <2>3, <3>1
      <3>2. CASE n # wanted[t]
        BY <1>m, <1>b, <2>3, <3>2, MutexesAssumption DEF IInv, CountFollows
      <3> QED
        BY <3>1, <3>2
    <2> QED
      BY <2>1, <2>2, <2>3 DEF CountFollows
  <1>5. WaitersWait'
    BY <1>m, ListsStay DEF TakeSucceeds
  <1>6. NoLostWakeup'
    <2> SUFFICES ASSUME NEW n \in Mutexes,
                        xTasksWaitingToReceive'[n] # <<>>,
                        uxMessagesWaiting'[n] = 1
                 PROVE  \E u \in Tasks \ blocked' :
                            /\ wanted'[u] = n
                            /\ pc'[u] \in {"try", "failed", "timedOut"}
      BY DEF NoLostWakeup
    <2>1. /\ xTasksWaitingToReceive[n] # <<>> /\ uxMessagesWaiting[n] = 1
          /\ blocked' = blocked
          /\ pc[t] \in {"try", "failed", "timedOut"} => wanted[t] # n
      BY <1>a, <1>b DEF TakeSucceeds
    <2>2. PICK u \in Tasks \ blocked :
                wanted[u] = n /\ pc[u] \in {"try", "failed", "timedOut"}
      BY <2>1 DEF IInv, NoLostWakeup
    <2> QED
      BY <1>m, <2>1, <2>2
  <1> QED
    BY <1>1, <1>2, <1>3, <1>4, <1>5, <1>6 DEF IInv

(* The holder of a mutex that is not free has one to its account, so it may *)
(* inherit.                                                                 *)
LEMMA BlockKeeps ==
    ASSUME IInv, UNCHANGED program, NEW t \in Tasks, Block(t)
    PROVE  IInv'
  <1> DEFINE m == wanted[t]
             q == xTasksWaitingToReceive[m]
             h == pxMutexHolder[m]
  <1>a. /\ m \in Mutexes /\ q \in Seq(Tasks) /\ h \in Tasks
        /\ uxMessagesWaiting[m] = 0
        /\ t \notin blocked /\ pc[t] = "failed"
    BY DEF IInv, TypeOK, HoldersAgree, Block, At, CanRun
  <1>b. uxMutexesHeld[h] >= 1
    BY <1>a, HolderCounts DEF IInv
  <1>c. PICK k \in 1 .. Len(q) + 1 :
            InsertByPriority(q, t) = InsertAt(q, k, t)
    BY <1>a, InsertByPriorityFacts DEF IInv
  <1>d. /\ xTasksWaitingToReceive' \in [Mutexes -> Seq(Tasks)]
        /\ xTasksWaitingToReceive'[m] = InsertAt(q, k, t)
        /\ \A n \in Mutexes \ {m} :
              xTasksWaitingToReceive'[n] = xTasksWaitingToReceive[n]
    <2>1. InsertAt(q, k, t) \in Seq(Tasks)
      BY <1>a, InsertAtPlaces
    <2> QED
      BY <1>a, <1>c, <2>1 DEF IInv, TypeOK, Block
  <1>e. /\ blocked' = blocked \cup {t} /\ pc'[t] = "try"
        /\ \A u \in Tasks \ {t} : pc'[u] = pc[u]
        /\ pc' \in [Tasks -> {"out", "try", "failed", "timedOut",
                              "disinherit", "taken", "give", "assert"}]
        /\ UNCHANGED <<uxMessagesWaiting, pxMutexHolder, uxRecursiveCallCount,
                       uxBasePriority, uxMutexesHeld, wanted, xTicksToWait>>
    BY DEF IInv, TypeOK, Block, Goto, mutexVars
  <1>f. /\ uxPriority' \in [Tasks -> Nat] /\ eventPriority' \in [Tasks -> Nat]
        /\ xInheritanceOccurred' \in [Tasks -> BOOLEAN]
        /\ \A u \in Tasks \ {h} : uxPriority'[u] = uxPriority[u]
    <2>1. xTaskPriorityInherit(h, t)
      BY DEF Block
    <2> HIDE DEF h
    <2>2. CASE uxPriority[h] < uxPriority[t]
      <3>1. /\ uxPriority' = [uxPriority EXCEPT ![h] = uxPriority[t]]
            /\ eventPriority' = [eventPriority EXCEPT ![h] = uxPriority[t]]
            /\ xInheritanceOccurred' =
                    [xInheritanceOccurred EXCEPT ![t] = TRUE]
        BY <2>1, <2>2 DEF xTaskPriorityInherit
      <3>2. xInheritanceOccurred' \in [Tasks -> BOOLEAN]
        BY <3>1, Zenon DEF IInv, TypeOK
      <3> QED
        BY <1>a, <3>1, <3>2 DEF IInv, TypeOK
    <2>3. CASE ~ (uxPriority[h] < uxPriority[t])
      <3> DEFINE raised == uxBasePriority[h] < uxPriority[t]
      <3>1. /\ UNCHANGED <<uxPriority, eventPriority>>
            /\ xInheritanceOccurred' =
                    [xInheritanceOccurred EXCEPT ![t] = raised]
        BY <2>1, <2>3 DEF xTaskPriorityInherit
      <3>2. uxBasePriority[h] \in Nat /\ uxPriority[t] \in Nat
        BY <1>a DEF IInv, TypeOK
      <3>3. raised \in BOOLEAN
        BY <3>2
      <3> HIDE DEF raised
      <3>4. xInheritanceOccurred' \in [Tasks -> BOOLEAN]
        BY <3>1, <3>3, Zenon DEF IInv, TypeOK
      <3> QED
        BY <1>a, <3>1, <3>4 DEF IInv, TypeOK
    <2> QED
      BY <2>2, <2>3
  <1> HIDE DEF m, h
  <1>1. TypeOK'
    BY <1>a, <1>d, <1>e, <1>f DEF IInv, TypeOK
  <1>2. HoldersAgree'
    BY <1>e DEF IInv, HoldersAgree
  <1>3. RestoredAtLast'
    BY <1>b, <1>e, <1>f, SMTT(30) DEF IInv, RestoredAtLast
  <1>4. CountFollows'
    BY <1>a, <1>e DEF IInv, CountFollows
  <1>5. WaitersWait'
    <2>1. /\ IsInjective(InsertAt(q, k, t))
          /\ \A j \in DOMAIN InsertAt(q, k, t) :
                \/ InsertAt(q, k, t)[j] = t
                \/ \E l \in DOMAIN q : InsertAt(q, k, t)[j] = q[l]
      <3>1. IsInjective(q) /\ \A j \in DOMAIN q : q[j] # t
        BY <1>a DEF IInv, WaitersWait
      <3> QED
        BY <1>a, <3>1, InsertAtInjective
    <2>2. \A n \in Mutexes : \A j \in DOMAIN xTasksWaitingToReceive[n] :
             LET u == xTasksWaitingToReceive[n][j]
             IN  /\ u \in Tasks \ {t} /\ u \in blocked'
                 /\ pc'[u] = "try" /\ wanted'[u] = n
      <3> SUFFICES ASSUME NEW n \in Mutexes,
                          NEW j \in DOMAIN xTasksWaitingToReceive[n]
                   PROVE  LET u == xTasksWaitingToReceive[n][j]
                          IN  /\ u \in Tasks \ {t} /\ u \in blocked
                              /\ pc[u] = "try" /\ wanted[u] = n
        BY <1>a, <1>e
      <3> QED
        BY <1>a DEF IInv, TypeOK, WaitersWait
    <2>3. t \in blocked' /\ pc'[t] = "try" /\ wanted'[t] = m
      BY <1>e DEF m
    <2>4. \A j \in DOMAIN InsertAt(q, k, t) :
             LET u == InsertAt(q, k, t)[j]
             IN  u \in blocked' /\ pc'[u] = "try" /\ wanted'[u] = m
      BY <1>a, <2>1, <2>2, <2>3
    <2> HIDE DEF q
    <2> SUFFICES ASSUME NEW n \in Mutexes
                 PROVE  /\ IsInjective(xTasksWaitingToReceive'[n])
                        /\ \A j \in DOMAIN xTasksWaitingToReceive'[n] :
                              LET u == xTasksWaitingToReceive'[n][j]
                              IN  /\ u \in blocked' /\ pc'[u] = "try"
                                  /\ wanted'[u] = n
      BY DEF WaitersWait
    <2>5. CASE n = m
      BY <1>a, <1>d, <2>1, <2>4, <2>5
    <2>6. CASE n # m
      BY <1>a, <1>d, <2>2, <2>6 DEF IInv, WaitersWait
    <2> QED
      BY <2>5, <2>6
  <1>6. NoLostWakeup'
    <2> SUFFICES ASSUME NEW n \in Mutexes,
                        xTasksWaitingToReceive'[n] # <<>>,
                        uxMessagesWaiting'[n] = 1
                 PROVE  \E u \in Tasks \ blocked' :
                            /\ wanted'[u] = n
                            /\ pc'[u] \in {"try", "failed", "timedOut"}
      BY DEF NoLostWakeup
    <2>1. /\ n # m /\ xTasksWaitingToReceive[n] # <<>>
          /\ uxMessagesWaiting[n] = 1
      BY <1>a, <1>d, <1>e
    <2>2. PICK u \in Tasks \ blocked :
                wanted[u] = n /\ pc[u] \in {"try", "failed", "timedOut"}
      BY <2>1 DEF IInv, NoLostWakeup
    <2>3. u # t
      BY <2>1, <2>2 DEF m
    <2> QED
      BY <1>e, <2>2, <2>3
  <1> QED
    BY <1>1, <1>2, <1>3, <1>4, <1>5, <1>6 DEF IInv

(* The task is on the list once, so it is on none when its wait has ended. *)
LEMMA TimeOutKeeps ==
    ASSUME IInv, UNCHANGED program, NEW t \in Tasks, TimeOut(t)
    PROVE  IInv'
  <1> DEFINE m == wanted[t]
             q == xTasksWaitingToReceive[m]
  <1>a. PICK k \in DOMAIN q :
            /\ q[k] = t
            /\ xTasksWaitingToReceive' =
                  [xTasksWaitingToReceive EXCEPT ![m] = RemoveAt(@, k)]
    BY DEF TimeOut
  <1>b. m \in Mutexes /\ q \in Seq(Tasks) /\ pc[t] = "try" /\ t \in blocked
    BY DEF IInv, TypeOK, TimeOut
  <1>c. /\ xTasksWaitingToReceive' \in [Mutexes -> Seq(Tasks)]
        /\ xTasksWaitingToReceive'[m] = RemoveAt(q, k)
        /\ \A n \in Mutexes \ {m} :
              xTasksWaitingToReceive'[n] = xTasksWaitingToReceive[n]
    <2>1. RemoveAt(q, k) \in Seq(Tasks)
      BY <1>b, RemoveAtFacts
    <2> QED
      BY <1>a, <1>b, <2>1 DEF IInv, TypeOK
  <1>d. /\ blocked' = blocked \ {t}
        /\ UNCHANGED <<uxMessagesWaiting, pxMutexHolder, uxRecursiveCallCount,
                       uxPriority, uxBasePriority, eventPriority,
                       uxMutexesHeld, pc, wanted, xTicksToWait,
                       xInheritanceOccurred>>
    BY DEF TimeOut, mutexVars, prioVars, callVars
  <1> HIDE DEF m
  <1>1. TypeOK'
    BY <1>c, <1>d DEF IInv, TypeOK
  <1>2. HoldersAgree'
    BY <1>d DEF IInv, HoldersAgree
  <1>3. RestoredAtLast'
    BY <1>d DEF IInv, RestoredAtLast
  <1>4. CountFollows'
    BY <1>d DEF IInv, CountFollows
  <1>5. WaitersWait'
    <2>1. /\ IsInjective(RemoveAt(q, k))
          /\ \A j \in DOMAIN RemoveAt(q, k) :
                \E l \in DOMAIN q : RemoveAt(q, k)[j] = q[l] /\ q[l] # q[k]
      BY <1>b, RemoveAtInjective DEF IInv, WaitersWait
    <2>2. \A j \in DOMAIN q : /\ q[j] \in blocked /\ pc'[q[j]] = "try"
                              /\ wanted'[q[j]] = m
      BY <1>b, <1>d DEF IInv, WaitersWait
    <2>3. \A j \in DOMAIN RemoveAt(q, k) :
             LET u == RemoveAt(q, k)[j]
             IN  u \in blocked' /\ pc'[u] = "try" /\ wanted'[u] = m
      BY <1>a, <1>d, <2>1, <2>2
    <2>4. \A n \in Mutexes \ {m} : \A j \in DOMAIN xTasksWaitingToReceive[n] :
             LET u == xTasksWaitingToReceive[n][j]
             IN  u \in blocked' /\ pc'[u] = "try" /\ wanted'[u] = n
      BY <1>b, <1>d DEF IInv, WaitersWait, m
    <2> HIDE DEF q
    <2> SUFFICES ASSUME NEW n \in Mutexes
                 PROVE  /\ IsInjective(xTasksWaitingToReceive'[n])
                        /\ \A j \in DOMAIN xTasksWaitingToReceive'[n] :
                              LET u == xTasksWaitingToReceive'[n][j]
                              IN  /\ u \in blocked' /\ pc'[u] = "try"
                                  /\ wanted'[u] = n
      BY DEF WaitersWait
    <2>5. CASE n = m
      BY <1>b, <1>c, <2>1, <2>3, <2>5
    <2>6. CASE n # m
      BY <1>b, <1>c, <2>4, <2>6 DEF IInv, WaitersWait
    <2> QED
      BY <2>5, <2>6
  <1>6. NoLostWakeup'
    <2> SUFFICES ASSUME NEW n \in Mutexes,
                        xTasksWaitingToReceive'[n] # <<>>,
                        uxMessagesWaiting'[n] = 1
                 PROVE  \E u \in Tasks \ blocked' :
                            /\ wanted'[u] = n
                            /\ pc'[u] \in {"try", "failed", "timedOut"}
      BY DEF NoLostWakeup
    <2>1. CASE n = m
      BY <1>b, <1>d, <2>1 DEF m
    <2>2. CASE n # m
      BY <1>c, <1>d, <2>2 DEF IInv, NoLostWakeup
    <2> QED
      BY <2>1, <2>2
  <1> QED
    BY <1>1, <1>2, <1>3, <1>4, <1>5, <1>6 DEF IInv

LEMMA DisinheritAfterTimeoutKeeps ==
    ASSUME IInv, UNCHANGED program, NEW t \in Tasks,
           vTaskPriorityDisinheritAfterTimeout(t)
    PROVE  IInv'
  <1> DEFINE h == pxMutexHolder[wanted[t]]
             prio == Greater(uxBasePriority[h],
                             prvGetDisinheritPriorityAfterTimeout(wanted[t]))
  <1>m. /\ CanRun(t) /\ pc[t] = "disinherit"
        /\ pc' = [pc EXCEPT ![t] = "out"]
        /\ UNCHANGED <<uxMessagesWaiting, pxMutexHolder, uxRecursiveCallCount,
                       xTasksWaitingToReceive, uxBasePriority, uxMutexesHeld,
                       blocked, wanted, xTicksToWait, xInheritanceOccurred>>
    BY DEF vTaskPriorityDisinheritAfterTimeout, At, Goto, mutexVars, callVars
  <1>f. /\ uxPriority' \in [Tasks -> Nat] /\ eventPriority' \in [Tasks -> Nat]
        /\ \A u \in Tasks :
              uxMutexesHeld[u] # 1 => uxPriority'[u] = uxPriority[u]
    <2>a. CASE h # Nobody /\ uxMutexesHeld[h] = 1
      <3>1. h \in Tasks /\ wanted[t] \in Mutexes
        BY <2>a DEF IInv, TypeOK
      <3>2. prvGetDisinheritPriorityAfterTimeout(wanted[t]) \in Nat
        <4>1. xTasksWaitingToReceive[wanted[t]] # <<>> =>
                  Head(xTasksWaitingToReceive[wanted[t]]) \in Tasks
          BY <3>1, TailInjective DEF IInv, TypeOK, WaitersWait
        <4> QED
          BY <3>1, <4>1 DEF IInv, TypeOK, prvGetDisinheritPriorityAfterTimeout
      <3>3. prio \in Nat
        BY <3>1, <3>2 DEF IInv, TypeOK, Greater
      <3>4. /\ uxPriority' = [uxPriority EXCEPT ![h] = prio]
            /\ eventPriority' = [eventPriority EXCEPT ![h] =
                                    IF uxPriority[h] # prio THEN prio ELSE @]
        BY <2>a DEF vTaskPriorityDisinheritAfterTimeout
      <3> HIDE DEF prio
      <3> QED
        BY <2>a, <3>1, <3>3, <3>4 DEF IInv, TypeOK
    <2>b. CASE ~ (h # Nobody /\ uxMutexesHeld[h] = 1)
      BY <2>b DEF IInv, TypeOK,
        vTaskPriorityDisinheritAfterTimeout
    <2> QED
      BY <2>a, <2>b
  <1> HIDE DEF h, prio
  <1>1. TypeOK'
    BY <1>m, <1>f DEF IInv, TypeOK
  <1>2. HoldersAgree'
    BY <1>m DEF IInv, HoldersAgree
  <1>3. RestoredAtLast'
    BY <1>m, <1>f DEF IInv, RestoredAtLast
  <1>4. CountFollows'
    BY <1>m DEF IInv, TypeOK, CountFollows
  <1>5. WaitersWait'
    BY <1>m, ListsStay DEF IInv, TypeOK
  <1>6. NoLostWakeup'
    BY <1>m DEF IInv, TypeOK, NoLostWakeup
  <1> QED
    BY <1>1, <1>2, <1>3, <1>4, <1>5, <1>6 DEF IInv

(* Where the inherited priority goes with the last mutex. *)
LEMMA DisinheritFacts ==
    ASSUME IInv, NEW t \in Tasks, xTaskPriorityDisinherit(t),
           UNCHANGED uxBasePriority, uxMutexesHeld[t] >= 1
    PROVE  /\ uxPriority' \in [Tasks -> Nat]
           /\ eventPriority' \in [Tasks -> Nat]
           /\ RestoredAtLast'
  <1> DEFINE restore == /\ uxPriority[t] # uxBasePriority[t]
                        /\ uxMutexesHeld[t] = 1
  <1>1. /\ uxMutexesHeld' = [uxMutexesHeld EXCEPT ![t] = @ - 1]
        /\ uxPriority' = [uxPriority EXCEPT ![t] =
                             IF restore THEN uxBasePriority[t] ELSE @]
        /\ eventPriority' = [eventPriority EXCEPT ![t] =
                                IF restore THEN uxBasePriority[t] ELSE @]
    BY DEF xTaskPriorityDisinherit
  <1>2. uxMutexesHeld[t] \in Nat
    BY HeldFinite DEF IInv, TypeOK
  <1>3. RestoredAtLast'
    <2> SUFFICES ASSUME NEW u \in Tasks, uxMutexesHeld'[u] = 0
                 PROVE  uxPriority'[u] = uxBasePriority[u]
      BY DEF RestoredAtLast
    <2>1. CASE u = t
      <3>1. uxMutexesHeld[t] = 1
        BY <1>1, <1>2, <2>1 DEF IInv, TypeOK
      <3> QED
        BY <1>1, <2>1, <3>1 DEF IInv, TypeOK
    <2>2. CASE u # t
      BY <1>1, <2>2 DEF IInv, TypeOK, RestoredAtLast
    <2> QED
      BY <2>1, <2>2
  <1> HIDE DEF restore
  <1> QED
    BY <1>1, <1>3 DEF IInv, TypeOK

(* Whoever gives a mutex, at once or as the last step of a recursive call:  *)
(* the task it readies is in the loop of its call and takes up the watch.   *)
LEMMA GiveMutexKeeps ==
    ASSUME IInv, UNCHANGED program, NEW t \in Tasks, NEW m \in Mutexes,
           CanRun(t), GiveMutex(t, m), pc' = [pc EXCEPT ![t] = "out"],
           UNCHANGED <<uxRecursiveCallCount, uxBasePriority, callVars>>,
           \/ pc[t] = "out" /\ m \notin Recursive
           \/ pc[t] = "give" /\ m = wanted[t]
    PROVE  IInv'
  <1> DEFINE q == xTasksWaitingToReceive[m]
  <1>a. /\ q \in Seq(Tasks) /\ IsInjective(q)
        /\ \A j \in DOMAIN q :
              /\ q[j] \in blocked /\ pc[q[j]] = "try" /\ wanted[q[j]] = m
              /\ q[j] \in Tasks \ {t}
    BY DEF IInv, TypeOK, WaitersWait, CanRun
  <1>b. uxRecursiveCallCount[m] = 0 /\ pxMutexHolder[m] = t
    BY DEF IInv, CountFollows, GiveMutex
  <1>c. uxMutexesHeld[t] >= 1
    BY <1>b, HolderCounts DEF IInv
  <1>d. /\ uxMutexesHeld' \in [Tasks -> 0 .. Cardinality(Mutexes)]
        /\ \A u \in Tasks : uxMutexesHeld'[u] =
             Cardinality({n \in Mutexes : pxMutexHolder'[n] = u})
    BY <1>b, GivenCounts DEF IInv, GiveMutex, xTaskPriorityDisinherit
  <1>e. /\ uxPriority' \in [Tasks -> Nat] /\ eventPriority' \in [Tasks -> Nat]
        /\ RestoredAtLast'
    BY <1>c, DisinheritFacts DEF GiveMutex
  <1>f. /\ pxMutexHolder' = [pxMutexHolder EXCEPT ![m] = Nobody]
        /\ uxMessagesWaiting' = [uxMessagesWaiting EXCEPT ![m] = 1]
        /\ UNCHANGED <<wanted, xTicksToWait, xInheritanceOccurred>>
    BY DEF GiveMutex, callVars
  <1>i. /\ uxMessagesWaiting' \in [Mutexes -> 0..1]
        /\ pxMutexHolder' \in [Mutexes -> Tasks \cup {Nobody}]
        /\ pc' \in [Tasks -> {"out", "try", "failed", "timedOut",
                              "disinherit", "taken", "give", "assert"}]
    BY <1>f DEF IInv, TypeOK
  <1>g. ASSUME q = <<>>
        PROVE  TypeOK' /\ WaitersWait' /\ NoLostWakeup'
    <2>0. UNCHANGED <<xTasksWaitingToReceive, blocked>>
      BY <1>g DEF GiveMutex
    <2>1. TypeOK'
      BY <1>d, <1>e, <1>f, <1>i, <2>0 DEF IInv, TypeOK, callVars
    <2>2. WaitersWait'
      BY <1>f, <2>0, ListsStay DEF IInv, TypeOK
    <2>3. NoLostWakeup'
      <3> SUFFICES ASSUME NEW n \in Mutexes,
                          xTasksWaitingToReceive'[n] # <<>>,
                          uxMessagesWaiting'[n] = 1
                   PROVE  \E u \in Tasks \ blocked' :
                              /\ wanted'[u] = n
                              /\ pc'[u] \in {"try", "failed", "timedOut"}
        BY DEF NoLostWakeup
      <3>1. /\ xTasksWaitingToReceive[n] # <<>> /\ uxMessagesWaiting[n] = 1
        BY <1>f, <1>g, <2>0 DEF IInv, TypeOK
      <3>2. PICK u \in Tasks \ blocked :
                  wanted[u] = n /\ pc[u] \in {"try", "failed", "timedOut"}
        BY <3>1 DEF IInv, NoLostWakeup
      <3> QED
        BY <1>f, <2>0, <3>2 DEF IInv, TypeOK
    <2> QED
      BY <2>1, <2>2, <2>3
  <1>h. ASSUME q # <<>>
        PROVE  TypeOK' /\ WaitersWait' /\ NoLostWakeup'
    <2> DEFINE w == Head(q)
               r == Tail(q)
    <2>0. /\ xTasksWaitingToReceive' =
                [xTasksWaitingToReceive EXCEPT ![m] = r]
          /\ blocked' = blocked \ {w}
      BY <1>h DEF GiveMutex
    <2>1. /\ r \in Seq(Tasks) /\ IsInjective(r)
          /\ w \in Tasks \ {t} /\ pc[w] = "try"
          /\ wanted[w] = m
          /\ \A j \in DOMAIN r :
                \E l \in DOMAIN q : r[j] = q[l] /\ q[l] # w
      <3>1. Head(q) = q[1] /\ 1 \in DOMAIN q
        BY <1>a, <1>h, TailInjective
      <3>2. /\ Tail(q) \in Seq(Tasks) /\ IsInjective(Tail(q))
            /\ \A j \in DOMAIN Tail(q) :
                  \E l \in DOMAIN q : Tail(q)[j] = q[l] /\ q[l] # Head(q)
        BY <1>a, <1>h, TailInjective
      <3> QED
        BY <1>a, <3>1, <3>2
    <2> HIDE DEF w, r
    <2>2. /\ xTasksWaitingToReceive' \in [Mutexes -> Seq(Tasks)]
          /\ xTasksWaitingToReceive'[m] = r
          /\ \A n \in Mutexes \ {m} :
                xTasksWaitingToReceive'[n] = xTasksWaitingToReceive[n]
      BY <2>0, <2>1 DEF IInv, TypeOK
    <2>3. TypeOK'
      BY <1>d, <1>e, <1>f, <1>i, <2>0, <2>2 DEF IInv, TypeOK, callVars
    <2>4. WaitersWait'
      <3> SUFFICES ASSUME NEW n \in Mutexes
                   PROVE  /\ IsInjective(xTasksWaitingToReceive'[n])
                          /\ \A j \in DOMAIN xTasksWaitingToReceive'[n] :
                                LET u == xTasksWaitingToReceive'[n][j]
                                IN  /\ u \in blocked' /\ pc'[u] = "try"
                                    /\ wanted'[u] = n
        BY DEF WaitersWait
      <3>1. CASE n = m
        <4> HIDE DEF q
        <4>1. \A l \in DOMAIN q : q[l] # w =>
                    /\ q[l] \in blocked' /\ pc'[q[l]] = "try"
                    /\ wanted'[q[l]] = m
          BY <1>a, <1>f, <2>0 DEF IInv, TypeOK
        <4> QED
          BY <2>1, <2>2, <3>1, <4>1
      <3>2. CASE n # m
        <4>1. \A j \in DOMAIN xTasksWaitingToReceive[n] :
                 LET u == xTasksWaitingToReceive[n][j]
                 IN  /\ u \in blocked /\ pc[u] = "try" /\ wanted[u] = n
                     /\ u \in Tasks \ {t} /\ u # w
          <5> SUFFICES ASSUME NEW j \in DOMAIN xTasksWaitingToReceive[n]
                       PROVE  LET u == xTasksWaitingToReceive[n][j]
                              IN  /\ u \in blocked /\ pc[u] = "try"
                                  /\ wanted[u] = n
                                  /\ u \in Tasks \ {t} /\ u # w
            OBVIOUS
          <5>1. LET u == xTasksWaitingToReceive[n][j]
                IN  u \in blocked /\ pc[u] = "try" /\ wanted[u] = n
            BY DEF IInv, WaitersWait
          <5>2. blocked \subseteq Tasks /\ t \notin blocked
            BY DEF IInv, TypeOK, CanRun
          <5> QED
            BY <2>1, <3>2, <5>1, <5>2
        <4>2. IsInjective(xTasksWaitingToReceive[n])
          BY DEF IInv, WaitersWait
        <4> HIDE DEF q
        <4> QED
          BY <1>f, <2>0, <2>2, <3>2, <4>1, <4>2 DEF IInv, TypeOK
      <3> QED
        BY <3>1, <3>2
    <2>5. NoLostWakeup'
      <3> SUFFICES ASSUME NEW n \in Mutexes,
                          xTasksWaitingToReceive'[n] # <<>>,
                          uxMessagesWaiting'[n] = 1
                   PROVE  \E u \in Tasks \ blocked' :
                              /\ wanted'[u] = n
                              /\ pc'[u] \in {"try", "failed", "timedOut"}
        BY DEF NoLostWakeup
      <3>1. CASE n = m
        <4>1. /\ w \in Tasks \ blocked' /\ wanted'[w] = m
              /\ pc'[w] = "try"
          BY <1>f, <2>0, <2>1 DEF IInv, TypeOK
        <4> QED
          BY <3>1, <4>1
      <3>2. CASE n # m
        <4>1. xTasksWaitingToReceive[n] # <<>> /\ uxMessagesWaiting[n] = 1
          BY <1>f, <2>2, <3>2 DEF IInv, TypeOK
        <4>2. PICK u \in Tasks \ blocked :
                    wanted[u] = n /\ pc[u] \in {"try", "failed", "timedOut"}
          BY <4>1 DEF IInv, NoLostWakeup
        <4> QED
          BY <1>f, <2>0, <4>2 DEF IInv, TypeOK
      <3> QED
        BY <3>1, <3>2
    <2> QED
      BY <2>3, <2>4, <2>5
  <1>1. HoldersAgree'
    <2>1. \A n \in Mutexes :
             /\ uxMessagesWaiting'[n] = 1 <=> pxMutexHolder'[n] = Nobody
             /\ pxMutexHolder'[n] = Nobody => uxRecursiveCallCount[n] = 0
      BY <1>b, <1>f DEF IInv, TypeOK, HoldersAgree
    <2> QED
      BY <1>d, <2>1 DEF HoldersAgree
  <1>2. CountFollows'
    <2>1. /\ \A n \in Mutexes \ {m} : pxMutexHolder'[n] = pxMutexHolder[n]
          /\ pxMutexHolder'[m] = Nobody
          /\ pc'[t] = "out" /\ \A u \in Tasks \ {t} : pc'[u] = pc[u]
          /\ UNCHANGED <<uxRecursiveCallCount, wanted>>
      BY <1>f DEF IInv, TypeOK
    <2>2. ASSUME NEW u \in Tasks, pc'[u] \in {"taken", "give"}
          PROVE  /\ wanted[u] \in Recursive /\ pxMutexHolder'[wanted[u]] = u
                 /\ uxRecursiveCallCount[wanted[u]] = 0
      BY <1>b, <2>1, <2>2, MutexesAssumption DEF IInv, CountFollows
    <2>3. ASSUME NEW n \in Recursive, NEW u \in Tasks,
                 pxMutexHolder'[n] = u, uxRecursiveCallCount[n] = 0
          PROVE  pc'[u] \in {"taken", "give"} /\ wanted[u] = n
      <3>1. n # m
        BY <2>1, <2>3, TasksAssumption
      <3>2. pc[u] \in {"taken", "give"} /\ wanted[u] = n
        BY <2>1, <2>3, <3>1, MutexesAssumption DEF IInv, CountFollows
      <3>3. u # t
        BY <3>1, <3>2
      <3> QED
        BY <2>1, <3>2, <3>3
    <2>4. \A n \in Mutexes \ Recursive : uxRecursiveCallCount'[n] = 0
      BY <2>1 DEF IInv, CountFollows
    <2> QED
      BY <2>1, <2>2, <2>3, <2>4 DEF CountFollows
  <1> QED
    BY <1>e, <1>g, <1>h, <1>1, <1>2 DEF IInv

LEMMA GiveKeeps ==
    ASSUME IInv, UNCHANGED program, NEW t \in Tasks, NEW m \in Mutexes,
           Give(t, m)
    PROVE  IInv'
  <1>1. pc' = [pc EXCEPT ![t] = "out"]
    BY DEF IInv, TypeOK, Give, At
  <1> QED
    BY <1>1, GiveMutexKeeps DEF Give, At

LEMMA GiveRecursiveKeeps ==
    ASSUME IInv, UNCHANGED program, NEW t \in Tasks, GiveRecursive(t)
    PROVE  IInv'
  <1>1. wanted[t] \in Mutexes
    BY DEF IInv, TypeOK
  <1> QED
    BY <1>1, GiveMutexKeeps DEF GiveRecursive, At, Goto

LEMMA PrioritySetKeeps ==
    ASSUME IInv, UNCHANGED program, NEW t \in Tasks,
           NEW p \in program.priorities, vTaskPrioritySet(t, p)
    PROVE  IInv'
  <1>a. p \in Nat
    BY ProgramsAssumption DEF IInv
  <1>b. /\ uxPriority' = [uxPriority EXCEPT ![t] =
                             IF uxBasePriority[t] = @ THEN p ELSE @]
        /\ uxBasePriority' = [uxBasePriority EXCEPT ![t] = p]
        /\ eventPriority' = [eventPriority EXCEPT ![t] = p]
        /\ UNCHANGED <<uxMessagesWaiting, pxMutexHolder, uxRecursiveCallCount,
                       xTasksWaitingToReceive, uxMutexesHeld, blocked, pc,
                       wanted, xTicksToWait, xInheritanceOccurred>>
    BY DEF vTaskPrioritySet, mutexVars, callVars
  <1>1. TypeOK'
    BY <1>a, <1>b DEF IInv, TypeOK
  <1>2. HoldersAgree'
    BY <1>b DEF IInv, HoldersAgree
  <1>3. RestoredAtLast'
    BY <1>b DEF IInv, TypeOK, RestoredAtLast
  <1>4. CountFollows'
    BY <1>b DEF IInv, CountFollows
  <1>5. WaitersWait'
    BY <1>b DEF IInv, WaitersWait
  <1>6. NoLostWakeup'
    BY <1>b DEF IInv, NoLostWakeup
  <1> QED
    BY <1>1, <1>2, <1>3, <1>4, <1>5, <1>6 DEF IInv

-----------------------------------------------------------------------------
LEMMA InitHolds == ASSUME Init PROVE IInv
  <1>1. TypeOK
    <2>1. program.mutexes # {} /\ program.mutexes \subseteq Mutexes
      BY ProgramsAssumption DEF Init
    <2> DEFINE some == CHOOSE m \in program.mutexes : TRUE
    <2>2. some \in Mutexes
      BY <2>1
    <2>3. 0 \in 0 .. Cardinality(Mutexes) /\ 0 \in 0 .. MaxDepth
      BY HeldFinite, MutexesAssumption
    <2>4. wanted = [t \in Tasks |-> some]
      BY DEF Init
    <2> HIDE DEF some
    <2>5. wanted \in [Tasks -> Mutexes]
      BY <2>2, <2>4
    <2>6. xInheritanceOccurred \in [Tasks -> BOOLEAN]
      BY Zenon DEF Init
    <2> QED
      BY <2>3, <2>5, <2>6, PrioritiesAssumption DEF Init, TypeOK, WaitKinds
  <1>2. HoldersAgree
    <2>1. \A t \in Tasks : {m \in Mutexes : pxMutexHolder[m] = t} = {}
      BY TasksAssumption DEF Init
    <2> QED
      BY <2>1, FS_EmptySet DEF Init, HoldersAgree
  <1>3. RestoredAtLast
    BY DEF Init, RestoredAtLast
  <1>4. CountFollows
    BY TasksAssumption, MutexesAssumption DEF Init, CountFollows
  <1>5. WaitersWait /\ NoLostWakeup
    BY DEF Init, WaitersWait, NoLostWakeup, IsInjective
  <1> QED
    BY <1>1, <1>2, <1>3, <1>4, <1>5 DEF IInv, Init

LEMMA NextHolds == ASSUME IInv, [Next]_vars PROVE IInv'
  <1>1. CASE UNCHANGED vars
    BY <1>1 DEF vars, mutexVars, prioVars, callVars, IInv, TypeOK,
       HoldersAgree, RestoredAtLast, CountFollows, WaitersWait, NoLostWakeup
  <1>2. CASE Next
    <2>1. UNCHANGED program
      BY <1>2 DEF Next
    <2>2. PICK t \in Tasks :
            \/ CallStep(t) \/ TimeOut(t) \/ Sleep(t) \/ Wake(t)
            \/ \E m \in Mutexes : TakeAgain(t, m)
            \/ \E m \in Mutexes, w \in WaitKinds : BeginTake(t, m, w)
            \/ \E p \in program.priorities : vTaskPrioritySet(t, p)
      BY <1>2 DEF Next
    <2>3. CASE CallStep(t)
      BY <2>1, <2>3, TakeSucceedsKeeps, TakeFailsKeeps, BlockKeeps,
         RetryKeeps, ExpireKeeps, LookAgainKeeps, DisinheritAfterTimeoutKeeps,
         CountTakeKeeps, GiveRecursiveKeeps, GiveKeeps, GiveCountKeeps
         DEF CallStep
    <2>4. CASE TimeOut(t) \/ Sleep(t) \/ Wake(t)
      BY <2>1, <2>4, TimeOutKeeps, SleepKeeps, WakeKeeps
    <2>5. CASE \E m \in Mutexes : TakeAgain(t, m)
      BY <2>1, <2>5, TakeAgainKeeps
    <2>6. CASE \E m \in Mutexes, w \in WaitKinds : BeginTake(t, m, w)
      BY <2>1, <2>6, BeginTakeKeeps
    <2>7. CASE \E p \in program.priorities : vTaskPrioritySet(t, p)
      BY <2>1, <2>7, PrioritySetKeeps
    <2> QED
      BY <2>2, <2>3, <2>4, <2>5, <2>6, <2>7
  <1> QED
    BY <1>1, <1>2

LEMMA InvariantHolds == Spec => []IInv
  <1>1. Init => IInv
    BY InitHolds
  <1>2. IInv /\ [Next]_vars => IInv'
    BY NextHolds
  <1> QED
    BY <1>1, <1>2, PTL DEF Spec

(* Every variable keeps its type: the counts of xQueueGiveMutexRecursive    *)
(* and xTaskPriorityDisinherit never go below zero.                         *)
THEOREM TypeCorrect == Spec => []TypeOK
  <1>1. IInv => TypeOK
    BY DEF IInv
  <1> QED
    BY <1>1, InvariantHolds, PTL

(* uxMessagesWaiting, pxMutexHolder, uxRecursiveCallCount and               *)
(* uxMutexesHeld, written by different functions, agree after every         *)
(* critical section.                                                        *)
THEOREM HoldersAlwaysAgree == Spec => []HoldersAgree
  <1>1. IInv => HoldersAgree
    BY DEF IInv
  <1> QED
    BY <1>1, InvariantHolds, PTL

(* xTaskPriorityDisinherit leaves no task without mutexes at an inherited   *)
(* priority, whoever inherited, timed out or called vTaskPrioritySet.       *)
THEOREM PrioritiesRestored == Spec => []RestoredAtLast
  <1>1. IInv => RestoredAtLast
    BY DEF IInv
  <1> QED
    BY <1>1, InvariantHolds, PTL

(* A give never leaves tasks asleep on a free mutex with nobody on the way, *)
(* also when a waiter times out or another task takes the mutex first.      *)
THEOREM NoWakeupLost == Spec => []NoLostWakeup
  <1>1. IInv => NoLostWakeup
    BY DEF IInv
  <1> QED
    BY <1>1, InvariantHolds, PTL
-----------------------------------------------------------------------------
(* Inheritance.  The two halves of HoldersHurryInTurn need to know who is   *)
(* on an event list, in which order, and with which flag.  A task that      *)
(* waits for one mutex while it holds another can be raised and lowered     *)
(* while it waits, and its place on the list does not follow: the           *)
(* applications are those in which such a task passes no block time.        *)
NoChains == \A p \in Programs :
    p.nested \subseteq {"none"} \/ \A t \in Tasks : p.maxHeld[t] <= 1

Waiting(m) == Range(xTasksWaitingToReceive[m])

(* On its way through the loop of a call with a block time. *)
WaitsForIt(t) == \/ pc[t] \in {"failed", "timedOut", "disinherit"}
                 \/ pc[t] = "try" /\ xTicksToWait[t] # "none"

(* Such a task holds no mutex. *)
EmptyHanded == \A t \in Tasks :
    /\ pc[t] = "failed" \/ (pc[t] = "try" /\ t \in blocked)
            => xTicksToWait[t] # "none"
    /\ WaitsForIt(t) => uxMutexesHeld[t] = 0
    /\ OneAtATime => /\ uxMutexesHeld[t] <= 1
                     /\ pc[t] = "try" => uxMutexesHeld[t] = 0

Steady == PrioritiesStay =>
    /\ eventPriority = uxPriority
    /\ \A t \in Tasks : uxBasePriority[t] <= uxPriority[t]

(* An event list is sorted. *)
Falling(q, prio) ==
    \A j, k \in DOMAIN q : j < k => prio[q[k]] <= prio[q[j]]
Sorted == PrioritiesStay =>
    \A m \in Mutexes : Falling(xTasksWaitingToReceive[m], uxPriority)

(* The task that a give has readied is not below those that wait on.        *)
Woken(u, m) ==
    /\ u \notin blocked /\ wanted[u] = m
    /\ pc[u] \in {"try", "failed", "timedOut"} /\ uxMutexesHeld[u] = 0
    /\ \A w \in Waiting(m) : uxPriority[w] <= uxPriority[u]
FirstIsWoken == PrioritiesStay =>
    \A m \in Mutexes :
        (uxMessagesWaiting[m] = 1 /\ xTasksWaitingToReceive[m] # <<>>) =>
            \E u \in Tasks : Woken(u, m)

(* A waiter above its holder knows that it raised it. *)
FlagsTell == OneAtATime =>
    \A m \in Mutexes : \A w \in Waiting(m) :
        LET h == pxMutexHolder[m] IN
        (h # Nobody /\ uxBasePriority[h] < uxPriority[w]) =>
            xInheritanceOccurred[w]

(* Whoever raised a holder will look after it. *)
Cause(t, m, prio) ==
    /\ wanted[t] = m /\ xInheritanceOccurred[t] /\ WaitsForIt(t)
    /\ prio <= uxPriority[t]
CauseLasts == OneAtATime =>
    \A m \in Mutexes :
        LET h == pxMutexHolder[m] IN
        (h # Nobody /\ uxBasePriority[h] < uxPriority[h]) =>
            \E t \in Tasks : Cause(t, m, uxPriority[h])

Turn == /\ EmptyHanded /\ Steady /\ Sorted /\ FirstIsWoken
        /\ NoInversion /\ FlagsTell /\ CauseLasts

-----------------------------------------------------------------------------
(* Sorted lists stay sorted. *)

LEMMA FallingTail ==
    ASSUME NEW q \in Seq(Tasks), q # <<>>, NEW prio, Falling(q, prio)
    PROVE  /\ Falling(Tail(q), prio)
           /\ Range(Tail(q)) \subseteq Range(q) /\ Head(q) \in Range(q)
           /\ \A w \in Range(Tail(q)) : prio[w] <= prio[Head(q)]
  <1>1. /\ Len(Tail(q)) = Len(q) - 1 /\ Tail(q) \in Seq(Tasks) /\ Len(q) \in Nat
        /\ \A j \in DOMAIN Tail(q) : Tail(q)[j] = q[j + 1] /\ j + 1 \in DOMAIN q
        /\ Head(q) = q[1] /\ 1 \in DOMAIN q
    OBVIOUS
  <1>2. \A j \in DOMAIN Tail(q) : j \in Nat /\ 1 < j + 1
    BY <1>1
  <1>3. \A j, k \in DOMAIN Tail(q) : j < k => j + 1 < k + 1
    BY <1>2
  <1>4. Falling(Tail(q), prio)
    BY <1>1, <1>3 DEF Falling
  <1>5. \A w \in Range(Tail(q)) : \E k \in DOMAIN q : w = q[k] /\ 1 < k
    BY <1>1, <1>2 DEF Range
  <1> QED
    BY <1>1, <1>4, <1>5 DEF Falling, Range

LEMMA FallingRemoveAt ==
    ASSUME NEW q \in Seq(Tasks), NEW k \in DOMAIN q, NEW prio,
           Falling(q, prio)
    PROVE  /\ Falling(RemoveAt(q, k), prio)
           /\ Range(RemoveAt(q, k)) \subseteq Range(q)
  <1> DEFINE r == RemoveAt(q, k)
             old(j) == IF j < k THEN j ELSE j + 1
  <1>1. /\ r \in Seq(Tasks) /\ Len(r) = Len(q) - 1
        /\ \A j \in DOMAIN r : r[j] = q[old(j)]
    BY RemoveAtFacts
  <1> HIDE DEF r
  <1>2. \A j \in DOMAIN r : old(j) \in DOMAIN q
    BY <1>1
  <1>3. \A i, j \in DOMAIN r : i < j => old(i) < old(j)
    BY <1>1
  <1> HIDE DEF old
  <1>4. Falling(r, prio)
    BY <1>1, <1>2, <1>3 DEF Falling
  <1>5. Range(r) \subseteq Range(q)
    BY <1>1, <1>2 DEF Range
  <1> QED
    BY <1>4, <1>5 DEF r

LEMMA FallingInsertAt ==
    ASSUME NEW q \in Seq(Tasks), NEW t \in Tasks, NEW k \in 1 .. Len(q) + 1,
           NEW prio \in [Tasks -> Nat], Falling(q, prio),
           k \in DOMAIN q => prio[q[k]] <= prio[t],
           \A j \in 1 .. k - 1 : prio[t] <= prio[q[j]]
    PROVE  Falling(InsertAt(q, k, t), prio)
  <1> DEFINE r == InsertAt(q, k, t)
             p(j) == prio[q[j]]
  <1>1. /\ r \in Seq(Tasks) /\ Len(r) = Len(q) + 1
        /\ \A j \in DOMAIN r :
              r[j] = IF j < k THEN q[j] ELSE IF j = k THEN t ELSE q[j - 1]
    BY InsertAtPlaces
  <1>2. DOMAIN r = 1 .. Len(q) + 1 /\ DOMAIN q = 1 .. Len(q) /\ Len(q) \in Nat
    BY <1>1
  <1>3. prio[t] \in Nat /\ \A j \in DOMAIN q : p(j) \in Nat
    OBVIOUS
  <1>4. \A i, j \in DOMAIN q : i <= j => p(j) <= p(i)
    BY <1>2, <1>3 DEF Falling
  <1>5. \A j \in DOMAIN q : j < k => prio[t] <= p(j)
    BY <1>2
  <1>6. \A j \in DOMAIN q : k <= j => p(j) <= prio[t]
    <2> TAKE j \in DOMAIN q
    <2>1. k <= j => k \in DOMAIN q
      BY <1>2
    <2>2. k \in DOMAIN q => p(k) <= prio[t]
      OBVIOUS
    <2> HIDE DEF p
    <2>3. ASSUME k <= j PROVE p(j) <= p(k) /\ p(k) <= prio[t] /\ p(k) \in Nat
      BY <1>3, <1>4, <2>1, <2>2, <2>3
    <2>4. p(j) \in Nat /\ prio[t] \in Nat
      BY <1>3
    <2> QED
      BY <2>3, <2>4
  <1>7. \A j \in DOMAIN r : prio[r[j]] =
             IF j < k THEN p(j) ELSE IF j = k THEN prio[t] ELSE p(j - 1)
    BY <1>1
  <1> HIDE DEF r, p
  <1> SUFFICES ASSUME NEW i \in DOMAIN r, NEW j \in DOMAIN r, i < j
               PROVE  prio[r[j]] <= prio[r[i]]
    BY DEF Falling, r
  <1>8. CASE j < k
    BY <1>2, <1>4, <1>7, <1>8
  <1>9. CASE j = k
    <2>1. i \in DOMAIN q /\ i < k
      BY <1>2, <1>9
    <2> QED
      BY <1>5, <1>7, <1>9, <2>1
  <1>10. CASE k < j
    <2>1. j - 1 \in DOMAIN q /\ k <= j - 1 /\ prio[r[j]] = p(j - 1)
      BY <1>2, <1>7, <1>10
    <2>2. CASE i < k
      <3>1. i \in DOMAIN q /\ i <= j - 1 /\ prio[r[i]] = p(i)
        BY <1>2, <1>7, <2>1, <2>2
      <3> QED
        BY <1>4, <2>1, <3>1
    <2>3. CASE i = k
      BY <1>6, <1>7, <2>1, <2>3
    <2>4. CASE k < i
      <3>1. i - 1 \in DOMAIN q /\ i - 1 <= j - 1 /\ prio[r[i]] = p(i - 1)
        BY <1>2, <1>7, <2>4
      <3> QED
        BY <1>4, <2>1, <3>1
    <2> QED
      BY <1>2, <2>2, <2>3, <2>4
  <1> QED
    BY <1>2, <1>8, <1>9, <1>10

-----------------------------------------------------------------------------
(* Who waits holds nothing, and so has its own priority. *)

LEMMA HeldIsNatural ==
    ASSUME IInv
    PROVE  \A u \in Tasks : uxMutexesHeld[u] \in Nat
  BY HeldFinite DEF IInv, TypeOK

LEMMA WaiterFacts ==
    ASSUME IInv, EmptyHanded, NEW m \in Mutexes, NEW w \in Waiting(m)
    PROVE  /\ w \in Tasks /\ w \in blocked /\ pc[w] = "try" /\ wanted[w] = m
           /\ WaitsForIt(w) /\ uxMutexesHeld[w] = 0
           /\ \A n \in Mutexes : pxMutexHolder[n] # w
  <1>1. w \in Tasks /\ w \in blocked /\ pc[w] = "try" /\ wanted[w] = m
    BY DEF IInv, TypeOK, WaitersWait, Waiting, Range
  <1>2. WaitsForIt(w) /\ uxMutexesHeld[w] = 0
    BY <1>1 DEF EmptyHanded, WaitsForIt
  <1>3. \A n \in Mutexes : pxMutexHolder[n] # w
    BY <1>1, <1>2, HolderCounts DEF IInv
  <1> QED
    BY <1>1, <1>2, <1>3

LEMMA HolderFacts ==
    ASSUME IInv, NEW m \in Mutexes, pxMutexHolder[m] # Nobody
    PROVE  /\ pxMutexHolder[m] \in Tasks
           /\ uxMutexesHeld[pxMutexHolder[m]] >= 1
  <1>1. pxMutexHolder[m] \in Tasks
    BY DEF IInv, TypeOK
  <1> QED
    BY <1>1, HolderCounts DEF IInv

(* The holder of one mutex holds no other. *)
LEMMA OneHeld ==
    ASSUME IInv, NEW m \in Mutexes, NEW n \in Mutexes,
           NEW h \in Tasks, uxMutexesHeld[h] = 1,
           pxMutexHolder[m] = h, pxMutexHolder[n] = h
    PROVE  m = n
  <1>1. m \in HeldBy(h) /\ n \in HeldBy(h)
    BY DEF HeldBy
  <1>2. Cardinality(HeldBy(h)) = 1 /\ IsFiniteSet(HeldBy(h))
    BY HeldFinite DEF IInv, HoldersAgree, HeldBy
  <1>3. Cardinality(HeldBy(h) \ {m}) = 0 /\ IsFiniteSet(HeldBy(h) \ {m})
    BY <1>1, <1>2, FS_RemoveElement
  <1>4. HeldBy(h) \ {m} = {}
    BY <1>3, FS_EmptySet
  <1> QED
    BY <1>1, <1>4

-----------------------------------------------------------------------------
(* Steps that neither touch a mutex, a list nor a priority. *)
LEMMA QuietKeepsTurn ==
    ASSUME IInv, Turn, UNCHANGED program, NEW t \in Tasks,
           UNCHANGED <<uxMessagesWaiting, pxMutexHolder, xTasksWaitingToReceive,
                       uxPriority, uxBasePriority, eventPriority, uxMutexesHeld>>,
           \A u \in Tasks \ {t} :
              /\ pc'[u] = pc[u] /\ wanted'[u] = wanted[u]
              /\ xTicksToWait'[u] = xTicksToWait[u]
              /\ xInheritanceOccurred'[u] = xInheritanceOccurred[u]
              /\ u \in blocked' <=> u \in blocked,
           t \notin blocked \/ pc[t] = "out",
           EmptyHanded',
           (/\ pc[t] \in {"try", "failed", "timedOut"} /\ t \notin blocked
            /\ uxMessagesWaiting[wanted[t]] = 1) =>
                /\ pc'[t] \in {"try", "failed", "timedOut"}
                /\ t \notin blocked' /\ wanted'[t] = wanted[t],
           (/\ WaitsForIt(t) /\ xInheritanceOccurred[t]
            /\ uxMessagesWaiting[wanted[t]] # 1) =>
                /\ WaitsForIt(t)' /\ xInheritanceOccurred'[t]
                /\ wanted'[t] = wanted[t]
    PROVE  Turn'
  <1>a. (PrioritiesStay' <=> PrioritiesStay) /\ (OneAtATime' <=> OneAtATime)
    BY DEF PrioritiesStay, OneAtATime
  <1>b. \A m \in Mutexes : Waiting(m)' = Waiting(m)
    BY DEF Waiting
  <1>c. \A m \in Mutexes : \A w \in Waiting(m) : w \in Tasks \ {t}
    BY WaiterFacts DEF Turn
  <1>1. Steady' /\ Sorted'
    BY <1>a DEF Turn, Steady, Sorted, Falling
  <1>2. FirstIsWoken'
    <2> SUFFICES ASSUME PrioritiesStay, NEW m \in Mutexes, uxMessagesWaiting[m] = 1,
                        xTasksWaitingToReceive[m] # <<>>
                 PROVE  \E u \in Tasks : Woken(u, m)'
      BY <1>a DEF FirstIsWoken
    <2>1. PICK u \in Tasks : Woken(u, m)
      BY DEF Turn, FirstIsWoken
    <2>2. CASE u = t
      BY <1>b, <2>1, <2>2 DEF Woken
    <2>3. CASE u # t
      BY <1>b, <2>1, <2>3 DEF Woken
    <2> QED
      BY <2>2, <2>3
  <1>3. NoInversion'
    BY <1>a DEF Turn, NoInversion
  <1>4. FlagsTell'
    BY <1>a, <1>b, <1>c DEF Turn, FlagsTell
  <1>5. CauseLasts'
    <2> SUFFICES ASSUME OneAtATime, NEW m \in Mutexes, pxMutexHolder[m] # Nobody,
                        uxBasePriority[pxMutexHolder[m]] < uxPriority[pxMutexHolder[m]]
                 PROVE  \E u \in Tasks : Cause(u, m, uxPriority[pxMutexHolder[m]])'
      BY <1>a DEF CauseLasts
    <2>1. PICK u \in Tasks : Cause(u, m, uxPriority[pxMutexHolder[m]])
      BY DEF Turn, CauseLasts
    <2>2. uxMessagesWaiting[m] # 1
      BY DEF IInv, HoldersAgree
    <2>3. CASE u = t
      BY <2>1, <2>2, <2>3 DEF Cause
    <2>4. CASE u # t
      BY <2>1, <2>4 DEF Cause, WaitsForIt
    <2> QED
      BY <2>3, <2>4
  <1> QED
    BY <1>1, <1>2, <1>3, <1>4, <1>5 DEF Turn

(* Each of these steps moves its task on, on the way through the loop. *)
LEMMA BeginTakeTurn ==
    ASSUME NoChains, IInv, Turn, UNCHANGED program, NEW t \in Tasks, NEW m \in Mutexes,
           NEW w \in WaitKinds, BeginTake(t, m, w)
    PROVE  Turn'
  <1>1. /\ pc[t] = "out" /\ t \notin blocked /\ CanRun(t)
        /\ pc' = [pc EXCEPT ![t] = "try"]
        /\ wanted' = [wanted EXCEPT ![t] = m]
        /\ xTicksToWait' = [xTicksToWait EXCEPT ![t] = w]
        /\ xInheritanceOccurred' = [xInheritanceOccurred EXCEPT ![t] = FALSE]
        /\ UNCHANGED <<uxMessagesWaiting, pxMutexHolder, xTasksWaitingToReceive,
                       uxPriority, uxBasePriority, eventPriority, uxMutexesHeld, blocked>>
    BY DEF BeginTake, At, CanRun, Goto, mutexVars, prioVars
  <1>2. /\ w # "none" => uxMutexesHeld[t] = 0
        /\ OneAtATime => uxMutexesHeld[t] = 0
    <2>1. /\ uxMutexesHeld[t] < program.maxHeld[t] /\ program.maxHeld[t] \in Nat
          /\ uxMutexesHeld[t] \in Nat
          /\ uxMutexesHeld[t] = 0 \/ w \in program.nested
      BY HeldIsNatural, ProgramsAssumption DEF BeginTake, IInv
    <2>2. program.nested \subseteq {"none"} \/ program.maxHeld[t] <= 1
      BY DEF NoChains, IInv
    <2> QED
      BY <2>1, <2>2 DEF OneAtATime
  <1>3. EmptyHanded'
    BY <1>1, <1>2 DEF Turn, EmptyHanded, WaitsForIt, IInv, TypeOK, OneAtATime, PrioritiesStay
  <1> QED
    BY <1>1, <1>3, QuietKeepsTurn DEF WaitsForIt, IInv, TypeOK

LEMMA LoopTurn ==
    ASSUME IInv, Turn, UNCHANGED program, NEW t \in Tasks,
           TakeFails(t) \/ Retry(t) \/ Expire(t) \/ LookAgain(t)
    PROVE  Turn'
  <1>1. /\ t \notin blocked
        /\ UNCHANGED <<uxMessagesWaiting, pxMutexHolder, xTasksWaitingToReceive,
                       uxPriority, uxBasePriority, eventPriority, uxMutexesHeld, blocked,
                       wanted, xInheritanceOccurred>>
    BY DEF TakeFails, Retry, Expire, LookAgain, At, CanRun, mutexVars, prioVars, callVars
  <1>2. /\ \A u \in Tasks \ {t} : pc'[u] = pc[u] /\ xTicksToWait'[u] = xTicksToWait[u]
        /\ wanted[t] \in Mutexes /\ uxMessagesWaiting[wanted[t]] \in 0..1
    BY DEF TakeFails, Retry, Expire, LookAgain, At, Goto, callVars, IInv, TypeOK
  <1>3. \/ /\ pc[t] = "try" /\ uxMessagesWaiting[wanted[t]] = 0
           /\ xTicksToWait'[t] = xTicksToWait[t]
           /\ pc'[t] = IF xTicksToWait[t] # "none" THEN "failed"
                       ELSE IF xInheritanceOccurred[t] THEN "assert" ELSE "out"
        \/ /\ pc[t] = "failed" /\ uxMessagesWaiting[wanted[t]] = 1 /\ pc'[t] = "try"
           /\ xTicksToWait'[t] = xTicksToWait[t]
        \/ pc[t] = "failed" /\ pc'[t] = "timedOut"
        \/ /\ pc[t] = "timedOut"
           /\ pc'[t] = IF uxMessagesWaiting[wanted[t]] = 1 THEN "try"
                       ELSE IF xInheritanceOccurred[t] THEN "disinherit" ELSE "out"
    BY DEF TakeFails, Retry, Expire, LookAgain, At, Goto, callVars, IInv, TypeOK
  <1>4. EmptyHanded'
    <2> SUFFICES ASSUME NEW u \in Tasks
                 PROVE  /\ (pc'[u] = "failed" \/ (pc'[u] = "try" /\ u \in blocked'))
                                => xTicksToWait'[u] # "none"
                        /\ WaitsForIt(u)' => uxMutexesHeld[u] = 0
                        /\ OneAtATime => /\ uxMutexesHeld[u] <= 1
                                         /\ pc'[u] = "try" => uxMutexesHeld[u] = 0
      BY <1>1 DEF EmptyHanded, OneAtATime, PrioritiesStay
    <2>1. CASE u # t
      BY <1>1, <1>2, <2>1 DEF Turn, EmptyHanded, WaitsForIt
    <2>2. CASE u = t
      BY <1>1, <1>3, <2>2 DEF Turn, EmptyHanded, WaitsForIt
    <2> QED
      BY <2>1, <2>2
  <1> QED
    BY <1>1, <1>2, <1>3, <1>4, QuietKeepsTurn DEF WaitsForIt

LEMMA AsideTurn ==
    ASSUME IInv, Turn, UNCHANGED program, NEW t \in Tasks,
           \/ CountTake(t) \/ Sleep(t) \/ Wake(t)
           \/ \E m \in Mutexes : TakeAgain(t, m) \/ xQueueGiveMutexRecursive(t, m)
    PROVE  Turn'
  <1>1. /\ pc[t] \in {"out", "taken"} /\ pc'[t] \in {"out", "give"}
        /\ t \notin blocked \/ pc[t] = "out"
        /\ \A u \in Tasks \ {t} : /\ pc'[u] = pc[u] /\ wanted'[u] = wanted[u]
                                  /\ u \in blocked' <=> u \in blocked
        /\ UNCHANGED <<uxMessagesWaiting, pxMutexHolder, xTasksWaitingToReceive,
                       uxPriority, uxBasePriority, eventPriority, uxMutexesHeld,
                       xTicksToWait, xInheritanceOccurred>>
    BY DEF CountTake, Sleep, Wake, TakeAgain, xQueueGiveMutexRecursive, At, CanRun, Goto,
      mutexVars, prioVars, callVars, IInv, TypeOK
  <1>2. EmptyHanded'
    <2> SUFFICES ASSUME NEW u \in Tasks
                 PROVE  /\ (pc'[u] = "failed" \/ (pc'[u] = "try" /\ u \in blocked'))
                                => xTicksToWait'[u] # "none"
                        /\ WaitsForIt(u)' => uxMutexesHeld[u] = 0
                        /\ OneAtATime => /\ uxMutexesHeld[u] <= 1
                                         /\ pc'[u] = "try" => uxMutexesHeld[u] = 0
      BY <1>1 DEF EmptyHanded, OneAtATime, PrioritiesStay
    <2>1. CASE u # t
      BY <1>1, <2>1 DEF Turn, EmptyHanded, WaitsForIt
    <2>2. CASE u = t
      BY <1>1, <2>2 DEF Turn, EmptyHanded, WaitsForIt
    <2> QED
      BY <2>1, <2>2
  <1> QED
    BY <1>1, <1>2, QuietKeepsTurn DEF WaitsForIt

(* Whoever takes a free mutex runs, so it is not below the task that was    *)
(* readied for it, and that one not below those that wait on.               *)
LEMMA TakeSucceedsTurn ==
    ASSUME IInv, Turn, UNCHANGED program, NEW t \in Tasks, TakeSucceeds(t)
    PROVE  Turn'
  <1> DEFINE m == wanted[t]
  <1>a. /\ m \in Mutexes /\ uxMessagesWaiting[m] = 1 /\ pxMutexHolder[m] = Nobody
        /\ pc[t] = "try" /\ CanRun(t)
    BY DEF TakeSucceeds, At, IInv, TypeOK, HoldersAgree
  <1>b. /\ pc'[t] \in {"taken", "out"}
        /\ \A u \in Tasks \ {t} : /\ pc'[u] = pc[u]
                                  /\ uxMutexesHeld'[u] = uxMutexesHeld[u]
        /\ uxMutexesHeld'[t] = uxMutexesHeld[t] + 1
        /\ pxMutexHolder'[m] = t /\ uxMessagesWaiting'[m] = 0
        /\ \A n \in Mutexes \ {m} : /\ pxMutexHolder'[n] = pxMutexHolder[n]
                                    /\ uxMessagesWaiting'[n] = uxMessagesWaiting[n]
        /\ UNCHANGED <<xTasksWaitingToReceive, uxPriority, uxBasePriority,
                       eventPriority, blocked, wanted, xTicksToWait,
                       xInheritanceOccurred>>
    BY <1>a DEF TakeSucceeds, Goto, prioVars, callVars, IInv, TypeOK
  <1>c. (PrioritiesStay' <=> PrioritiesStay) /\ (OneAtATime' <=> OneAtATime)
        /\ (OneAtATime => PrioritiesStay)
    BY DEF PrioritiesStay, OneAtATime
  <1>d. \A n \in Mutexes : /\ Waiting(n)' = Waiting(n)
                           /\ \A w \in Waiting(n) : w \in Tasks \ {t}
    BY <1>a, <1>b, WaiterFacts DEF Waiting, CanRun, Turn
  <1>e. ASSUME PrioritiesStay, NEW w \in Waiting(m)
        PROVE  uxPriority[w] <= uxPriority[t]
    <2>1. xTasksWaitingToReceive[m] # <<>>
      BY <1>e DEF Waiting, Range
    <2>2. PICK u \in Tasks : Woken(u, m)
      BY <1>a, <1>e, <2>1 DEF Turn, FirstIsWoken
    <2>3. uxPriority[w] <= uxPriority[u] /\ uxPriority[u] <= uxPriority[t]
      BY <1>a, <2>2 DEF Woken, CanRun
    <2> QED
      BY <1>d, <1>e, <2>3 DEF IInv, TypeOK
  <1>f. OneAtATime => uxMutexesHeld[t] = 0 /\ uxBasePriority[t] = uxPriority[t]
    BY <1>a DEF Turn, EmptyHanded, IInv, RestoredAtLast
  <1> HIDE DEF m
  <1>1. EmptyHanded'
    <2> SUFFICES ASSUME NEW u \in Tasks
                 PROVE  /\ (pc'[u] = "failed" \/ (pc'[u] = "try" /\ u \in blocked))
                                => xTicksToWait[u] # "none"
                        /\ WaitsForIt(u)' => uxMutexesHeld'[u] = 0
                        /\ OneAtATime => /\ uxMutexesHeld'[u] <= 1
                                         /\ pc'[u] = "try" => uxMutexesHeld'[u] = 0
      BY <1>b, <1>c DEF EmptyHanded
    <2>1. CASE u # t
      BY <1>b, <2>1 DEF Turn, EmptyHanded, WaitsForIt
    <2>2. CASE u = t
      BY <1>b, <1>f, <2>2 DEF WaitsForIt
    <2> QED
      BY <2>1, <2>2
  <1>2. Steady' /\ Sorted'
    BY <1>b, <1>c DEF Turn, Steady, Sorted, Falling
  <1>3. FirstIsWoken'
    <2> SUFFICES ASSUME PrioritiesStay, NEW n \in Mutexes,
                        uxMessagesWaiting'[n] = 1, xTasksWaitingToReceive[n] # <<>>
                 PROVE  \E u \in Tasks : Woken(u, n)'
      BY <1>b, <1>c DEF FirstIsWoken
    <2>1. n # m /\ uxMessagesWaiting[n] = 1
      BY <1>b
    <2>2. PICK u \in Tasks : Woken(u, n)
      BY <2>1 DEF Turn, FirstIsWoken
    <2>3. u # t
      BY <2>1, <2>2 DEF Woken, m
    <2> QED
      BY <1>b, <1>d, <2>2, <2>3 DEF Woken
  <1>4. NoInversion'
    <2> SUFFICES ASSUME PrioritiesStay, NEW n \in Mutexes, NEW w \in Waiting(n),
                        uxMutexesHeld'[w] = 0, pxMutexHolder'[n] # Nobody
                 PROVE  uxPriority[pxMutexHolder'[n]] >= uxPriority[w]
      BY <1>b, <1>c DEF NoInversion, Waiting
    <2>0. w \in Tasks \ {t} /\ uxPriority[w] \in Nat /\ uxPriority[t] \in Nat
      BY <1>d DEF IInv, TypeOK
    <2>1. CASE n = m
      <3>1. uxPriority[w] <= uxPriority[t] /\ pxMutexHolder'[n] = t
        BY <1>b, <1>e, <2>1
      <3> QED
        BY <2>0, <3>1
    <2>2. CASE n # m
      <3>1. uxMutexesHeld[w] = 0 /\ pxMutexHolder'[n] = pxMutexHolder[n]
        BY <1>b, <2>0, <2>2
      <3> QED
        BY <3>1 DEF Turn, NoInversion, Waiting
    <2> QED
      BY <2>1, <2>2
  <1>5. FlagsTell'
    <2> SUFFICES ASSUME OneAtATime, NEW n \in Mutexes, NEW w \in Waiting(n),
                        pxMutexHolder'[n] # Nobody,
                        uxBasePriority[pxMutexHolder'[n]] < uxPriority[w]
                 PROVE  xInheritanceOccurred[w]
      BY <1>b, <1>c, <1>d DEF FlagsTell
    <2>1. n # m
      <3>1. ASSUME n = m
            PROVE  FALSE
        <4>1. w \in Tasks /\ uxPriority[w] \in Nat /\ uxPriority[t] \in Nat
          BY <1>d DEF IInv, TypeOK
        <4>2. uxPriority[w] <= uxPriority[t] /\ uxPriority[t] < uxPriority[w]
          BY <1>b, <1>c, <1>e, <1>f, <3>1
        <4> QED
          BY <4>1, <4>2
      <3> QED
        BY <3>1
    <2> QED
      BY <1>b, <2>1 DEF Turn, FlagsTell
  <1>6. CauseLasts'
    <2> SUFFICES ASSUME OneAtATime, NEW n \in Mutexes, pxMutexHolder'[n] # Nobody,
                        uxBasePriority[pxMutexHolder'[n]] < uxPriority[pxMutexHolder'[n]]
                 PROVE  \E u \in Tasks : Cause(u, n, uxPriority[pxMutexHolder[n]])'
                                         /\ pxMutexHolder'[n] = pxMutexHolder[n]
      BY <1>b, <1>c DEF CauseLasts
    <2>1. n # m
      <3>1. uxBasePriority[t] \in Nat /\ uxPriority[t] \in Nat
        BY DEF IInv, TypeOK
      <3> QED
        BY <1>b, <1>f, <3>1
    <2>2. PICK u \in Tasks : Cause(u, n, uxPriority[pxMutexHolder[n]])
      BY <1>b, <2>1 DEF Turn, CauseLasts
    <2>3. u # t
      BY <2>1, <2>2 DEF Cause, m
    <2>4. pxMutexHolder'[n] = pxMutexHolder[n]
      BY <1>b, <2>1
    <2> QED
      BY <1>b, <2>2, <2>3, <2>4 DEF Cause, WaitsForIt
  <1> QED
    BY <1>1, <1>2, <1>3, <1>4, <1>5, <1>6 DEF Turn

(* The wait of a task ends: the others keep their order. *)
LEMMA TimeOutTurn ==
    ASSUME IInv, Turn, UNCHANGED program, NEW t \in Tasks, TimeOut(t)
    PROVE  Turn'
  <1> DEFINE m == wanted[t]
             q == xTasksWaitingToReceive[m]
  <1>a. PICK k \in DOMAIN q :
            xTasksWaitingToReceive' =
                  [xTasksWaitingToReceive EXCEPT ![m] = RemoveAt(@, k)]
    BY DEF TimeOut
  <1>b. /\ blocked' = blocked \ {t}
        /\ UNCHANGED <<uxMessagesWaiting, pxMutexHolder, uxPriority, uxBasePriority,
                       eventPriority, uxMutexesHeld, pc, wanted, xTicksToWait,
                       xInheritanceOccurred>>
    BY DEF TimeOut, mutexVars, prioVars, callVars
  <1>c. (PrioritiesStay' <=> PrioritiesStay) /\ (OneAtATime' <=> OneAtATime)
    BY DEF PrioritiesStay, OneAtATime
  <1>d. m \in Mutexes /\ q \in Seq(Tasks)
    BY DEF IInv, TypeOK
  <1>e. /\ xTasksWaitingToReceive'[m] = RemoveAt(q, k)
        /\ \A n \in Mutexes \ {m} :
              xTasksWaitingToReceive'[n] = xTasksWaitingToReceive[n]
    BY <1>a, <1>d DEF IInv, TypeOK
  <1> HIDE DEF m
  <1>f. \A n \in Mutexes : Waiting(n)' \subseteq Waiting(n)
    <2>1. Range(RemoveAt(q, k)) \subseteq Range(q)
      BY <1>d, RemoveAtInjective DEF IInv, WaitersWait, Range
    <2> QED
      BY <1>e, <2>1 DEF Waiting
  <1>1. EmptyHanded'
    BY <1>b, <1>c DEF Turn, EmptyHanded, WaitsForIt
  <1>2. Steady'
    BY <1>b, <1>c DEF Turn, Steady
  <1>3. Sorted'
    <2> SUFFICES ASSUME PrioritiesStay, NEW n \in Mutexes
                 PROVE  Falling(xTasksWaitingToReceive'[n], uxPriority)
      BY <1>b, <1>c DEF Sorted
    <2>1. Falling(xTasksWaitingToReceive[n], uxPriority)
      BY DEF Turn, Sorted
    <2>2. CASE n = m
      BY <1>d, <1>e, <2>1, <2>2, FallingRemoveAt
    <2>3. CASE n # m
      BY <1>e, <2>1, <2>3
    <2> QED
      BY <2>2, <2>3
  <1>4. FirstIsWoken'
    <2> SUFFICES ASSUME PrioritiesStay, NEW n \in Mutexes,
                        uxMessagesWaiting[n] = 1, xTasksWaitingToReceive'[n] # <<>>
                 PROVE  \E u \in Tasks : Woken(u, n)'
      BY <1>b, <1>c DEF FirstIsWoken
    <2>1. xTasksWaitingToReceive[n] # <<>>
      <3>1. CASE n = m
        BY <1>d, <3>1
      <3>2. CASE n # m
        BY <1>e, <3>2
      <3> QED
        BY <3>1, <3>2
    <2>2. PICK u \in Tasks : Woken(u, n)
      BY <2>1 DEF Turn, FirstIsWoken
    <2> QED
      BY <1>b, <1>f, <2>2 DEF Woken
  <1>5. NoInversion'
    BY <1>b, <1>c, <1>f DEF Turn, NoInversion, Waiting
  <1>6. FlagsTell'
    BY <1>b, <1>c, <1>f DEF Turn, FlagsTell
  <1>7. CauseLasts'
    BY <1>b, <1>c DEF Turn, CauseLasts, Cause, WaitsForIt
  <1> QED
    BY <1>1, <1>2, <1>3, <1>4, <1>5, <1>6, <1>7 DEF Turn

(* Where priorities change, only EmptyHanded says anything. *)
LEMMA PrioritySetTurn ==
    ASSUME IInv, Turn, UNCHANGED program, NEW t \in Tasks,
           NEW p \in program.priorities, vTaskPrioritySet(t, p)
    PROVE  Turn'
  <1>1. ~ PrioritiesStay' /\ ~ OneAtATime'
    BY DEF PrioritiesStay, OneAtATime
  <1>2. UNCHANGED <<uxMutexesHeld, blocked, pc, xTicksToWait>>
    BY DEF vTaskPrioritySet, callVars
  <1>3. EmptyHanded'
    BY <1>1, <1>2 DEF Turn, EmptyHanded, WaitsForIt
  <1> QED
    BY <1>1, <1>3 DEF Turn, Steady, Sorted, FirstIsWoken, NoInversion, FlagsTell, CauseLasts

(* What inheritance does to the holder h, and to the flag of the caller.    *)
LEMMA InheritFacts ==
    ASSUME IInv, Steady, PrioritiesStay, NEW t \in Tasks, NEW h \in Tasks,
           xTaskPriorityInherit(h, t), UNCHANGED uxBasePriority
    PROVE  /\ \A u \in Tasks : uxPriority[u] <= uxPriority'[u]
           /\ \A u \in Tasks \ {h} : uxPriority'[u] = uxPriority[u]
           /\ uxPriority[t] <= uxPriority'[h]
           /\ uxPriority'[h] # uxPriority[h] =>
                    uxPriority'[h] = uxPriority[t] /\ xInheritanceOccurred'[t]
           /\ uxBasePriority[h] < uxPriority[t] => xInheritanceOccurred'[t]
           /\ \A u \in Tasks \ {t} : xInheritanceOccurred'[u] = xInheritanceOccurred[u]
           /\ eventPriority' = uxPriority'
  <1>1. /\ \A u \in Tasks : uxPriority[u] \in Nat /\ uxBasePriority[u] \in Nat
        /\ uxPriority \in [Tasks -> Nat]
        /\ xInheritanceOccurred \in [Tasks -> BOOLEAN]
        /\ eventPriority = uxPriority /\ uxBasePriority[h] <= uxPriority[h]
    BY DEF IInv, TypeOK, Steady
  <1>2. CASE uxPriority[h] < uxPriority[t]
    <2>1. /\ uxPriority' = [uxPriority EXCEPT ![h] = uxPriority[t]]
          /\ eventPriority' = [eventPriority EXCEPT ![h] = uxPriority[t]]
          /\ xInheritanceOccurred' = [xInheritanceOccurred EXCEPT ![t] = TRUE]
      BY <1>2 DEF xTaskPriorityInherit
    <2>2. xInheritanceOccurred'[t]
      BY <1>1, <2>1, Zenon
    <2>3. \A u \in Tasks \ {t} : xInheritanceOccurred'[u] = xInheritanceOccurred[u]
      BY <1>1, <2>1
    <2>4. \A u \in Tasks : uxPriority'[u] = IF u = h THEN uxPriority[t] ELSE uxPriority[u]
      BY <1>1, <2>1
    <2> QED
      BY <1>1, <1>2, <2>1, <2>2, <2>3, <2>4
  <1>3. CASE ~ (uxPriority[h] < uxPriority[t])
    <2> DEFINE raised == uxBasePriority[h] < uxPriority[t]
    <2>1. /\ xInheritanceOccurred' = [xInheritanceOccurred EXCEPT ![t] = raised]
          /\ UNCHANGED <<uxPriority, eventPriority>>
      BY <1>3 DEF xTaskPriorityInherit
    <2>2. raised => xInheritanceOccurred'[t]
      <3> HIDE DEF raised
      <3> QED
        BY <1>1, <2>1, Zenon
    <2>3. \A u \in Tasks \ {t} : xInheritanceOccurred'[u] = xInheritanceOccurred[u]
      <3> HIDE DEF raised
      <3> QED
        BY <1>1, <2>1
    <2> QED
      BY <1>1, <1>3, <2>1, <2>2, <2>3
  <1> QED
    BY <1>2, <1>3

(* A task that blocks raises the holder to its own priority, at least, and  *)
(* takes its place among the waiters.                                       *)
LEMMA BlockTurn ==
    ASSUME IInv, Turn, UNCHANGED program, NEW t \in Tasks, Block(t)
    PROVE  Turn'
  <1>0. PICK m, q, h : m = wanted[t] /\ q = xTasksWaitingToReceive[m]
                       /\ h = pxMutexHolder[m]
    OBVIOUS
  <1>a. /\ m \in Mutexes /\ q \in Seq(Tasks) /\ h \in Tasks /\ h # Nobody
        /\ uxMessagesWaiting[m] = 0 /\ t \notin blocked /\ pc[t] = "failed"
    BY <1>0, TasksAssumption DEF IInv, TypeOK, HoldersAgree, Block, At, CanRun
  <1>b. /\ uxMutexesHeld[h] >= 1 /\ uxMutexesHeld[t] = 0 /\ h # t
        /\ WaitsForIt(t) /\ xTicksToWait[t] # "none"
    BY <1>0, <1>a, HolderCounts DEF Turn, EmptyHanded, WaitsForIt, IInv
  <1>c. PICK k \in 1 .. Len(q) + 1 :
            /\ InsertByPriority(q, t) = InsertAt(q, k, t)
            /\ k \in DOMAIN q => eventPriority[q[k]] <= eventPriority[t]
            /\ \A j \in 1 .. k - 1 : eventPriority[t] <= eventPriority[q[j]]
    BY <1>a, InsertByPriorityFacts DEF IInv
  <1>d. /\ xTasksWaitingToReceive'[m] = InsertAt(q, k, t)
        /\ \A n \in Mutexes \ {m} :
              xTasksWaitingToReceive'[n] = xTasksWaitingToReceive[n]
    BY <1>0, <1>a, <1>c DEF IInv, TypeOK, Block
  <1>e. /\ blocked' = blocked \cup {t} /\ pc'[t] = "try"
        /\ \A u \in Tasks \ {t} : pc'[u] = pc[u]
        /\ UNCHANGED <<uxMessagesWaiting, pxMutexHolder, uxBasePriority,
                       uxMutexesHeld, wanted, xTicksToWait>>
    BY  DEF IInv, TypeOK, Block, Goto, mutexVars
  <1>f. (PrioritiesStay' <=> PrioritiesStay) /\ (OneAtATime' <=> OneAtATime)
        /\ (OneAtATime => PrioritiesStay)
    BY  DEF PrioritiesStay, OneAtATime
  <1>g. /\ Waiting(m)' = Waiting(m) \cup {t}
        /\ \A n \in Mutexes \ {m} : Waiting(n)' = Waiting(n)
    BY <1>0, <1>a, <1>d, InsertAtFacts DEF Waiting
  <1>h. \A n \in Mutexes : \A w \in Waiting(n) :
             /\ w \in Tasks \ {t, h} /\ uxMutexesHeld[w] = 0
    BY <1>0, <1>a, WaiterFacts DEF Turn
  <1>i. PrioritiesStay =>
           /\ \A u \in Tasks : uxPriority[u] <= uxPriority'[u]
           /\ \A u \in Tasks \ {h} : uxPriority'[u] = uxPriority[u]
           /\ uxPriority[t] <= uxPriority'[h]
           /\ uxPriority'[h] # uxPriority[h] =>
                    uxPriority'[h] = uxPriority[t] /\ xInheritanceOccurred'[t]
           /\ uxBasePriority[h] < uxPriority[t] => xInheritanceOccurred'[t]
           /\ \A u \in Tasks \ {t} : xInheritanceOccurred'[u] = xInheritanceOccurred[u]
           /\ eventPriority' = uxPriority'
    BY <1>0, <1>a, <1>e, InheritFacts DEF Block, Turn
  <1>j. /\ uxPriority \in [Tasks -> Nat]
        /\ \A u \in Tasks : uxPriority[u] \in Nat /\ uxBasePriority[u] \in Nat
    BY  DEF IInv, TypeOK
  <1>k. uxPriority' \in [Tasks -> Nat]
    BY BlockKeeps DEF IInv, TypeOK
  <1>l. \A u \in Tasks : uxPriority'[u] \in Nat
    BY <1>k
  <1>1. EmptyHanded'
    <2> SUFFICES ASSUME NEW u \in Tasks
                 PROVE  /\ (pc'[u] = "failed" \/ (pc'[u] = "try" /\ u \in blocked'))
                                => xTicksToWait[u] # "none"
                        /\ WaitsForIt(u)' => uxMutexesHeld[u] = 0
                        /\ OneAtATime => /\ uxMutexesHeld[u] <= 1
                                         /\ pc'[u] = "try" => uxMutexesHeld[u] = 0
      BY <1>e, <1>f DEF EmptyHanded
    <2>1. CASE u # t
      BY <1>e, <2>1 DEF Turn, EmptyHanded, WaitsForIt
    <2>2. CASE u = t
      BY <1>b, <1>e, <2>2
    <2> QED
      BY <2>1, <2>2
  <1>2. Steady'
    <2> SUFFICES ASSUME PrioritiesStay, NEW u \in Tasks
                 PROVE  uxBasePriority[u] <= uxPriority'[u]
      BY <1>e, <1>f, <1>i DEF Steady
    <2>1. uxBasePriority[u] <= uxPriority[u] /\ uxPriority[u] <= uxPriority'[u]
      BY <1>i DEF Turn, Steady
    <2> QED
      BY <1>j, <1>l, <2>1
  <1>3. Sorted'
    <2> SUFFICES ASSUME PrioritiesStay, NEW n \in Mutexes
                 PROVE  Falling(xTasksWaitingToReceive'[n], uxPriority')
      BY <1>f DEF Sorted
    <2>1. Falling(xTasksWaitingToReceive[n], uxPriority')
      <3>1. Falling(xTasksWaitingToReceive[n], uxPriority)
        BY  DEF Turn, Sorted
      <3>2. \A j \in DOMAIN xTasksWaitingToReceive[n] :
                LET w == xTasksWaitingToReceive[n][j]
                IN  uxPriority'[w] = uxPriority[w]
        BY <1>h, <1>i DEF Waiting, Range
      <3> QED
        BY <3>1, <3>2 DEF Falling
    <2>2. CASE n = m
      <3>1. /\ \A j \in DOMAIN q : /\ eventPriority[q[j]] = uxPriority'[q[j]]
            /\ eventPriority[t] = uxPriority'[t]
        <4>1. eventPriority = uxPriority
          BY  DEF Turn, Steady
        <4>2. \A j \in DOMAIN q : q[j] \in Tasks \ {h}
          BY <1>0, <1>a, <1>h DEF Waiting, Range
        <4>3. t \in Tasks \ {h}
          BY <1>b
        <4> QED
          BY <1>i, <4>1, <4>2, <4>3
      <3>2. k \in DOMAIN q => uxPriority'[q[k]] <= uxPriority'[t]
        BY <1>c, <3>1
      <3>3. \A j \in 1 .. k - 1 : uxPriority'[t] <= uxPriority'[q[j]]
        BY <1>a, <1>c, <3>1
      <3>4. Falling(q, uxPriority')
        BY <1>0, <2>1, <2>2
      <3>5. PICK prio \in [Tasks -> Nat] : prio = uxPriority'
        BY <1>k
      <3>6. Falling(InsertAt(q, k, t), prio)
        BY <1>a, <3>2, <3>3, <3>4, <3>5, FallingInsertAt
      <3> QED
        BY <1>d, <2>2, <3>5, <3>6
    <2>3. CASE n # m
      BY <1>d, <2>1, <2>3
    <2> QED
      BY <2>2, <2>3
  <1>4. FirstIsWoken'
    <2> SUFFICES ASSUME PrioritiesStay, NEW n \in Mutexes,
                        uxMessagesWaiting[n] = 1, xTasksWaitingToReceive'[n] # <<>>
                 PROVE  \E u \in Tasks : Woken(u, n)'
      BY <1>e, <1>f DEF FirstIsWoken
    <2>1. n # m /\ xTasksWaitingToReceive[n] # <<>>
      BY <1>a, <1>d
    <2>2. PICK u \in Tasks : Woken(u, n)
      BY <2>1 DEF Turn, FirstIsWoken
    <2>3. u # t /\ u # h
      BY <1>b, <2>1, <2>2, <1>0 DEF Woken
    <2>4. \A w \in Waiting(n)' : uxPriority'[w] <= uxPriority'[u]
      BY <1>g, <1>h, <1>i, <2>1, <2>2, <2>3 DEF Woken
    <2> QED
      BY <1>e, <2>2, <2>3, <2>4 DEF Woken
  <1>5. NoInversion'
    <2> SUFFICES ASSUME PrioritiesStay, NEW n \in Mutexes, NEW w \in Waiting(n)',
                        uxMutexesHeld[w] = 0, pxMutexHolder[n] # Nobody
                 PROVE  uxPriority'[pxMutexHolder[n]] >= uxPriority'[w]
      BY <1>e, <1>f DEF NoInversion, Waiting
    <2>1. pxMutexHolder[n] \in Tasks
      BY HolderFacts
    <2>2. CASE w \in Waiting(n)
      <3>1. uxPriority[pxMutexHolder[n]] >= uxPriority[w]
        BY <2>2 DEF Turn, NoInversion, Waiting
      <3>2. /\ uxPriority'[w] = uxPriority[w] /\ w \in Tasks
            /\ uxPriority[pxMutexHolder[n]] <= uxPriority'[pxMutexHolder[n]]
        BY <1>h, <1>i, <2>1, <2>2
      <3> QED
        BY <1>j, <1>l, <2>1, <3>1, <3>2
    <2>3. CASE w \notin Waiting(n)
      <3>1. n = m /\ w = t
        BY <1>g, <2>3
      <3>2. uxPriority[t] <= uxPriority'[h] /\ uxPriority'[t] = uxPriority[t]
        BY <1>b, <1>i
      <3>3. pxMutexHolder[n] = h
        BY <3>1, <1>0
      <3> QED
        BY <1>a, <1>l, <3>1, <3>2, <3>3
    <2> QED
      BY <2>2, <2>3
  <1>6. FlagsTell'
    <2> SUFFICES ASSUME OneAtATime, NEW n \in Mutexes, NEW w \in Waiting(n)',
                        pxMutexHolder[n] # Nobody,
                        uxBasePriority[pxMutexHolder[n]] < uxPriority'[w]
                 PROVE  xInheritanceOccurred'[w]
      BY <1>e, <1>f DEF FlagsTell
    <2>1. CASE w \in Waiting(n)
      <3>1. uxPriority'[w] = uxPriority[w] /\ w \in Tasks \ {t}
        BY <1>f, <1>h, <1>i, <2>1
      <3> QED
        BY <1>f, <1>i, <2>1, <3>1 DEF Turn, FlagsTell
    <2>2. CASE w \notin Waiting(n)
      <3>1. n = m /\ w = t
        BY <1>g, <2>2
      <3>2. uxPriority'[t] = uxPriority[t]
        BY <1>b, <1>f, <1>i
      <3> QED
        BY <1>f, <1>i, <3>1, <3>2, <1>0
    <2> QED
      BY <2>1, <2>2
  <1>7. CauseLasts'
    <2> SUFFICES ASSUME OneAtATime, NEW n \in Mutexes, pxMutexHolder[n] # Nobody,
                        uxBasePriority[pxMutexHolder[n]] < uxPriority'[pxMutexHolder[n]]
                 PROVE  \E u \in Tasks : Cause(u, n, uxPriority[pxMutexHolder[n]])'
      BY <1>e, <1>f DEF CauseLasts
    <2> DEFINE g == pxMutexHolder[n]
    <2>1. g \in Tasks /\ g' = g
      BY <1>e, HolderFacts
    <2>t. WaitsForIt(t)' /\ wanted'[t] = m /\ uxPriority'[t] = uxPriority[t]
      BY <1>b, <1>e, <1>f, <1>i, <1>0 DEF WaitsForIt
    <2>2. CASE n = m /\ uxPriority'[h] # uxPriority[h]
      <3>1. uxPriority'[h] = uxPriority[t] /\ xInheritanceOccurred'[t]
        BY <1>f, <1>i, <2>2
      <3>2. Cause(t, n, uxPriority[g])'
        <4>1. uxPriority'[g] <= uxPriority'[t] /\ g' = g
          BY <1>l, <2>1, <2>2, <2>t, <3>1, <1>0
        <4> HIDE DEF g
        <4> QED
          BY <2>2, <2>t, <3>1, <4>1 DEF Cause
      <3> QED
        BY <3>2
    <2>3. CASE ~ (n = m /\ uxPriority'[h] # uxPriority[h])
      <3>1. uxPriority'[g] = uxPriority[g]
        <4>1. CASE n = m
          BY <2>3, <4>1, <1>0
        <4>2. CASE n # m
          <5>1. uxMutexesHeld[h] = 1
            BY <1>a, <1>b, HeldIsNatural DEF Turn, EmptyHanded
          <5>2. g # h
            BY <1>a, <4>2, <5>1, OneHeld, <1>0
          <5> QED
            BY <1>f, <1>i, <2>1, <5>2
        <4> QED
          BY <4>1, <4>2
      <3>2. PICK u \in Tasks : Cause(u, n, uxPriority[g])
        BY <3>1 DEF Turn, CauseLasts
      <3>3. u # h /\ uxPriority'[u] = uxPriority[u]
        BY <1>b, <1>f, <1>i, <3>2 DEF Cause, Turn, EmptyHanded
      <3>4. CASE u # t
        <4>1. xInheritanceOccurred'[u]
          BY <1>f, <1>i, <3>2, <3>4 DEF Cause
        <4>2. WaitsForIt(u)'
          BY <1>e, <3>2, <3>4 DEF Cause, WaitsForIt
        <4> HIDE DEF g
        <4>3. uxPriority'[g'] <= uxPriority'[u]
          BY <2>1, <3>1, <3>2, <3>3 DEF Cause
        <4>4. Cause(u, n, uxPriority[g])'
          BY <1>e, <3>2, <4>1, <4>2, <4>3 DEF Cause
        <4> QED
          BY <4>4 DEF g
      <3>5. CASE u = t
        <4>1. n = m
          BY <3>2, <3>5, <1>0 DEF Cause
        <4>2. uxBasePriority[h] < uxPriority[h] /\ uxPriority[h] <= uxPriority[t]
          BY <3>1, <3>2, <3>5, <4>1, <1>0 DEF Cause
        <4>3. xInheritanceOccurred'[t]
          BY <1>a, <1>f, <1>i, <1>j, <4>2
        <4>4. uxPriority'[g'] <= uxPriority'[t]
          BY <2>1, <2>t, <3>1, <4>1, <4>2, <1>0
        <4> HIDE DEF g
        <4>5. Cause(t, n, uxPriority[g])'
          BY <2>t, <4>1, <4>3, <4>4 DEF Cause
        <4> QED
          BY <4>5 DEF g
      <3> QED
        BY <3>4, <3>5
    <2> QED
      BY <2>2, <2>3
  <1> QED
    BY <1>1, <1>2, <1>3, <1>4, <1>5, <1>6, <1>7 DEF Turn

(* A waiter that gives up lowers the holder to the highest that still waits.*)
LEMMA DisinheritAfterTimeoutTurn ==
    ASSUME IInv, Turn, UNCHANGED program, NEW t \in Tasks,
           vTaskPriorityDisinheritAfterTimeout(t)
    PROVE  Turn'
  <1>0. PICK m, q, h : /\ m = wanted[t] /\ q = xTasksWaitingToReceive[m]
                       /\ h = pxMutexHolder[m]
    OBVIOUS
  <1>a. /\ m \in Mutexes /\ q \in Seq(Tasks) /\ h \in Tasks \cup {Nobody}
        /\ pc[t] = "disinherit"
    BY <1>0 DEF IInv, TypeOK, vTaskPriorityDisinheritAfterTimeout, At
  <1>b. /\ pc'[t] = "out" /\ \A u \in Tasks \ {t} : pc'[u] = pc[u]
        /\ UNCHANGED <<uxMessagesWaiting, pxMutexHolder, xTasksWaitingToReceive,
                       uxBasePriority, uxMutexesHeld, blocked, wanted, xTicksToWait,
                       xInheritanceOccurred>>
    BY DEF IInv, TypeOK, vTaskPriorityDisinheritAfterTimeout, At, Goto, mutexVars, callVars
  <1>c. (PrioritiesStay' <=> PrioritiesStay) /\ (OneAtATime' <=> OneAtATime)
        /\ (OneAtATime => PrioritiesStay)
    BY DEF PrioritiesStay, OneAtATime
  <1>d. /\ \A u \in Tasks : uxPriority[u] \in Nat /\ uxBasePriority[u] \in Nat
        /\ uxPriority \in [Tasks -> Nat]
        /\ \A n \in Mutexes : Waiting(n)' = Waiting(n)
    BY <1>b DEF IInv, TypeOK, Waiting
  <1>e. PrioritiesStay =>
           /\ \A u \in Tasks : (u # h \/ uxMutexesHeld[u] # 1) =>
                    uxPriority'[u] = uxPriority[u]
           /\ (h # Nobody /\ uxMutexesHeld[h] = 1) =>
                 /\ uxPriority'[h] \in Nat /\ uxBasePriority[h] <= uxPriority'[h]
                 /\ \A w \in Waiting(m) : uxPriority[w] <= uxPriority'[h]
                 /\ uxBasePriority[h] < uxPriority'[h] =>
                       \E w \in Waiting(m) : uxPriority'[h] = uxPriority[w]
           /\ eventPriority' = uxPriority'
    <2> SUFFICES ASSUME PrioritiesStay
                 PROVE  /\ \A u \in Tasks : (u # h \/ uxMutexesHeld[u] # 1) =>
                              uxPriority'[u] = uxPriority[u]
                        /\ (h # Nobody /\ uxMutexesHeld[h] = 1) =>
                              /\ uxPriority'[h] \in Nat
                              /\ uxBasePriority[h] <= uxPriority'[h]
                              /\ \A w \in Waiting(m) : uxPriority[w] <= uxPriority'[h]
                              /\ uxBasePriority[h] < uxPriority'[h] =>
                                    \E w \in Waiting(m) : uxPriority'[h] = uxPriority[w]
                        /\ eventPriority' = uxPriority'
      OBVIOUS
    <2>1. eventPriority = uxPriority
      BY DEF Turn, Steady
    <2>2. CASE h # Nobody /\ uxMutexesHeld[h] = 1
      <3>1. PICK top, prio : /\ top = prvGetDisinheritPriorityAfterTimeout(m)
                             /\ prio = Greater(uxBasePriority[h], top)
        OBVIOUS
      <3>2. /\ uxPriority' = [uxPriority EXCEPT ![h] = prio]
            /\ eventPriority' = [eventPriority EXCEPT ![h] =
                                    IF uxPriority[h] # prio THEN prio ELSE @]
        BY <1>0, <2>2, <3>1 DEF vTaskPriorityDisinheritAfterTimeout
      <3>3. CASE q = <<>>
        <4>1. top = 0 /\ Waiting(m) = {}
          BY <1>0, <3>1, <3>3 DEF prvGetDisinheritPriorityAfterTimeout, Waiting, Range
        <4>2. h \in Tasks /\ prio = uxBasePriority[h]
          BY <1>a, <1>d, <2>2, <3>1, <4>1 DEF Greater
        <4>3. eventPriority' = uxPriority'
          BY <2>1, <3>2
        <4>4. /\ uxPriority'[h] = uxBasePriority[h] /\ uxBasePriority[h] \in Nat
              /\ \A u \in Tasks \ {h} : uxPriority'[u] = uxPriority[u]
          BY <1>d, <3>2, <4>2
        <4> QED
          BY <2>2, <4>1, <4>3, <4>4
      <3>4. CASE q # <<>>
        <4>1. top = uxPriority[Head(q)]
          BY <1>0, <2>1, <3>1, <3>4 DEF prvGetDisinheritPriorityAfterTimeout
        <4>2. Falling(q, uxPriority)
          BY <1>0, <1>a DEF Turn, Sorted
        <4>3. Waiting(m) = Range(q)
          BY <1>0 DEF Waiting
        <4>4. /\ Head(q) \in Waiting(m) /\ Head(q) \in Tasks
              /\ \A w \in Waiting(m) : w \in Tasks /\ uxPriority[w] <= top
          <5>1. /\ Head(q) = q[1] /\ 1 \in DOMAIN q /\ \A j \in DOMAIN q : j \in Nat /\ 1 <= j
            BY <1>a, <3>4
          <5>2. \A w \in Range(q) : w \in Tasks /\ \E j \in DOMAIN q : w = q[j]
            BY <1>a DEF Range
          <5>3. \A j \in DOMAIN q : uxPriority[q[j]] <= uxPriority[q[1]]
            <6> TAKE j \in DOMAIN q
            <6>1. j = 1 \/ 1 < j
              BY <5>1
            <6>2. uxPriority[q[1]] \in Nat
              BY <1>a, <1>d, <5>1
            <6> QED
              BY <4>2, <5>1, <6>1, <6>2 DEF Falling
          <5> QED
            BY <1>a, <4>1, <4>3, <5>1, <5>2, <5>3 DEF Range
        <4>5. /\ h \in Tasks /\ top \in Nat /\ uxBasePriority[h] \in Nat
              /\ \A w \in Waiting(m) : uxPriority[w] \in Nat
          BY <1>a, <1>d, <2>2, <4>1, <4>4
        <4>6. /\ prio \in Nat /\ uxBasePriority[h] <= prio /\ top <= prio
              /\ uxBasePriority[h] < prio => prio = top
          BY <3>1, <4>5 DEF Greater
        <4>7. uxPriority'[h] = prio /\ \A u \in Tasks \ {h} : uxPriority'[u] = uxPriority[u]
          BY <1>d, <3>2, <4>5
        <4>8. \A w \in Waiting(m) : uxPriority[w] <= prio
          BY <4>4, <4>5, <4>6
        <4>9. eventPriority' = uxPriority'
          BY <2>1, <3>2
        <4> QED
          BY <2>2, <4>1, <4>4, <4>6, <4>7, <4>8, <4>9
      <3> QED
        BY <3>3, <3>4
    <2>3. CASE ~ (h # Nobody /\ uxMutexesHeld[h] = 1)
      <3>1. UNCHANGED <<uxPriority, eventPriority>>
        BY <1>0, <2>3 DEF vTaskPriorityDisinheritAfterTimeout
      <3> QED
        BY <2>1, <2>3, <3>1
    <2> QED
      BY <2>2, <2>3
  <1>f. \A n \in Mutexes : \A w \in Waiting(n) :
             /\ w \in Tasks \ {t, h} /\ uxMutexesHeld[w] = 0 /\ WaitsForIt(w)
             /\ wanted[w] = n
    <2>1. \A n \in Mutexes : \A w \in Waiting(n) : w # h
      BY <1>0, <1>a, WaiterFacts DEF Turn
    <2> QED
      BY <1>a, <2>1, WaiterFacts DEF Turn
  (* Another mutex has another holder, if this one is lowered. *)
  <1>g. ASSUME PrioritiesStay, NEW n \in Mutexes, n # m, pxMutexHolder[n] # Nobody
        PROVE  /\ pxMutexHolder[n] \in Tasks
               /\ uxPriority'[pxMutexHolder[n]] = uxPriority[pxMutexHolder[n]]
    <2>1. pxMutexHolder[n] \in Tasks
      BY <1>g, HolderFacts
    <2>2. pxMutexHolder[n] # h \/ uxMutexesHeld[h] # 1
      BY <1>0, <1>a, <1>g, <2>1, OneHeld
    <2> QED
      BY <1>e, <1>g, <2>1, <2>2
  <1>1. EmptyHanded'
    <2> SUFFICES ASSUME NEW u \in Tasks
                 PROVE  /\ (pc'[u] = "failed" \/ (pc'[u] = "try" /\ u \in blocked))
                                => xTicksToWait[u] # "none"
                        /\ WaitsForIt(u)' => uxMutexesHeld[u] = 0
                        /\ OneAtATime => /\ uxMutexesHeld[u] <= 1
                                         /\ pc'[u] = "try" => uxMutexesHeld[u] = 0
      BY <1>b, <1>c DEF EmptyHanded
    <2>1. CASE u # t
      BY <1>b, <2>1 DEF Turn, EmptyHanded, WaitsForIt
    <2>2. CASE u = t
      BY <1>b, <2>2 DEF Turn, EmptyHanded, WaitsForIt
    <2> QED
      BY <2>1, <2>2
  <1>2. Steady'
    <2> SUFFICES ASSUME PrioritiesStay, NEW u \in Tasks
                 PROVE  uxBasePriority[u] <= uxPriority'[u]
      BY <1>b, <1>c, <1>e DEF Steady
    <2>1. CASE u = h /\ uxMutexesHeld[u] = 1
      BY <1>e, <2>1, TasksAssumption
    <2>2. CASE ~ (u = h /\ uxMutexesHeld[u] = 1)
      BY <1>e, <2>2 DEF Turn, Steady
    <2> QED
      BY <2>1, <2>2
  <1>3. Sorted'
    <2> SUFFICES ASSUME PrioritiesStay, NEW n \in Mutexes
                 PROVE  Falling(xTasksWaitingToReceive[n], uxPriority')
      BY <1>b, <1>c DEF Sorted
    <2>1. Falling(xTasksWaitingToReceive[n], uxPriority)
      BY DEF Turn, Sorted
    <2>2. \A j \in DOMAIN xTasksWaitingToReceive[n] :
              LET w == xTasksWaitingToReceive[n][j]
              IN  uxPriority'[w] = uxPriority[w]
      BY <1>e, <1>f DEF Waiting, Range
    <2> QED
      BY <2>1, <2>2 DEF Falling
  <1>4. FirstIsWoken'
    <2> SUFFICES ASSUME PrioritiesStay, NEW n \in Mutexes,
                        uxMessagesWaiting[n] = 1, xTasksWaitingToReceive[n] # <<>>
                 PROVE  \E u \in Tasks : Woken(u, n)'
      BY <1>b, <1>c DEF FirstIsWoken
    <2>1. PICK u \in Tasks : Woken(u, n)
      BY DEF Turn, FirstIsWoken
    <2>2. u # t /\ uxMutexesHeld[u] # 1
      BY <1>a, <2>1 DEF Woken
    <2>3. \A w \in Waiting(n) : uxPriority'[w] <= uxPriority'[u]
      BY <1>e, <1>f, <2>1, <2>2 DEF Woken
    <2> QED
      BY <1>b, <1>d, <2>1, <2>2, <2>3 DEF Woken
  <1>5. NoInversion'
    <2> SUFFICES ASSUME PrioritiesStay, NEW n \in Mutexes, NEW w \in Waiting(n),
                        uxMutexesHeld[w] = 0, pxMutexHolder[n] # Nobody
                 PROVE  uxPriority'[pxMutexHolder[n]] >= uxPriority'[w]
      BY <1>b, <1>c, <1>d DEF NoInversion, Waiting
    <2>1. /\ pxMutexHolder[n] \in Tasks /\ w \in Tasks
          /\ uxPriority'[w] = uxPriority[w]
      BY <1>e, <1>f, HolderFacts
    <2>2. uxPriority[pxMutexHolder[n]] >= uxPriority[w]
      BY DEF Turn, NoInversion, Waiting
    <2>3. CASE n = m /\ uxMutexesHeld[h] = 1
      <3>1. uxPriority[w] <= uxPriority'[h] /\ uxPriority'[h] \in Nat
        BY <1>0, <1>e, <2>3
      <3> QED
        BY <1>0, <1>d, <2>1, <2>3, <3>1
    <2>4. CASE n = m /\ uxMutexesHeld[h] # 1
      BY <1>0, <1>e, <2>1, <2>2, <2>4
    <2>5. CASE n # m
      BY <1>g, <2>1, <2>2, <2>5
    <2> QED
      BY <2>3, <2>4, <2>5
  <1>6. FlagsTell'
    BY <1>b, <1>c, <1>d, <1>e, <1>f DEF Turn, FlagsTell
  <1>7. CauseLasts'
    <2> SUFFICES ASSUME OneAtATime, NEW n \in Mutexes, pxMutexHolder[n] # Nobody,
                        uxBasePriority[pxMutexHolder[n]] < uxPriority'[pxMutexHolder[n]]
                 PROVE  \E u \in Tasks : Cause(u, n, uxPriority[pxMutexHolder[n]])'
      BY <1>b, <1>c DEF CauseLasts
    <2>1. PICK g : g = pxMutexHolder[n]
      OBVIOUS
    <2>2. g \in Tasks /\ uxMutexesHeld[g] >= 1 /\ g = pxMutexHolder'[n]
      BY <1>b, <2>1, HolderFacts
    <2>3. CASE n = m
      <3>1. g = h /\ uxMutexesHeld[h] = 1 /\ h # Nobody
        <4>1. g = h /\ h # Nobody
          BY <1>0, <2>1, <2>3
        <4>2. uxMutexesHeld[g] <= 1 /\ uxMutexesHeld[g] \in Nat
          BY <2>2, HeldIsNatural DEF Turn, EmptyHanded
        <4> QED
          BY <2>2, <4>1, <4>2
      <3>2. PICK w \in Waiting(m) : uxPriority'[h] = uxPriority[w]
        BY <1>c, <1>e, <2>1, <3>1
      <3>3. /\ w \in Tasks \ {t} /\ WaitsForIt(w) /\ wanted[w] = m
            /\ uxPriority'[w] = uxPriority[w]
        BY <1>a, <1>c, <1>e, <1>f
      <3>4. xInheritanceOccurred[w]
        BY <1>0, <1>a, <1>c, <2>1, <3>1, <3>2 DEF Turn, FlagsTell
      <3>5. WaitsForIt(w)' /\ wanted'[w] = n /\ xInheritanceOccurred'[w]
        BY <1>b, <2>3, <3>3, <3>4 DEF WaitsForIt
      <3>6. uxPriority'[g] <= uxPriority'[w]
        BY <1>d, <3>1, <3>2, <3>3
      <3> QED
        BY <2>2, <3>3, <3>5, <3>6 DEF Cause
    <2>4. CASE n # m
      <3>1. uxPriority'[g] = uxPriority[g]
        BY <1>c, <1>g, <2>1, <2>4
      <3>2. PICK u \in Tasks : Cause(u, n, uxPriority[g])
        BY <2>1, <3>1 DEF Turn, CauseLasts
      <3>3. u # t /\ uxMutexesHeld[u] = 0
        BY <1>0, <2>4, <3>2 DEF Cause, Turn, EmptyHanded
      <3>4. uxPriority'[u] = uxPriority[u]
        BY <1>c, <1>e, <3>3
      <3>5. WaitsForIt(u)' /\ wanted'[u] = n /\ xInheritanceOccurred'[u]
        BY <1>b, <3>2, <3>3 DEF WaitsForIt, Cause
      <3>6. uxPriority'[g] <= uxPriority'[u]
        BY <3>1, <3>2, <3>4 DEF Cause
      <3> QED
        BY <2>2, <3>5, <3>6 DEF Cause
    <2> QED
      BY <2>3, <2>4
  <1> QED
    BY <1>1, <1>2, <1>3, <1>4, <1>5, <1>6, <1>7 DEF Turn

(* A give takes the inherited priority only with the last mutex, and the    *)
(* task that it readies is not below those that wait on.                    *)
LEMMA GiveMutexTurn ==
    ASSUME IInv, Turn, UNCHANGED program, NEW t \in Tasks, NEW m \in Mutexes,
           CanRun(t), GiveMutex(t, m), pc' = [pc EXCEPT ![t] = "out"],
           pc[t] \in {"out", "give"}, UNCHANGED <<uxBasePriority, callVars>>
    PROVE  Turn'
  <1>0. PICK q : q = xTasksWaitingToReceive[m]
    OBVIOUS
  <1>a. /\ q \in Seq(Tasks) /\ t \notin blocked /\ pxMutexHolder[m] = t
        /\ uxMutexesHeld[t] \in Nat /\ t # Nobody
    BY <1>0, HeldIsNatural, TasksAssumption DEF IInv, TypeOK, CanRun, GiveMutex
  <1>b. /\ pc'[t] = "out" /\ \A u \in Tasks \ {t} : pc'[u] = pc[u]
        /\ pxMutexHolder'[m] = Nobody /\ uxMessagesWaiting'[m] = 1
        /\ \A n \in Mutexes \ {m} : /\ pxMutexHolder'[n] = pxMutexHolder[n]
                                    /\ uxMessagesWaiting'[n] = uxMessagesWaiting[n]
        /\ UNCHANGED <<uxBasePriority, wanted, xTicksToWait, xInheritanceOccurred>>
    BY DEF GiveMutex, callVars, IInv, TypeOK
  <1>c. (PrioritiesStay' <=> PrioritiesStay) /\ (OneAtATime' <=> OneAtATime)
        /\ (OneAtATime => PrioritiesStay)
    BY DEF PrioritiesStay, OneAtATime
  <1>d. /\ \A u \in Tasks : uxPriority[u] \in Nat /\ uxBasePriority[u] \in Nat
        /\ uxPriority \in [Tasks -> Nat]
    BY DEF IInv, TypeOK
  <1>e. /\ \A u \in Tasks \ {t} : /\ uxPriority'[u] = uxPriority[u]
                                  /\ uxMutexesHeld'[u] = uxMutexesHeld[u]
        /\ uxMutexesHeld'[t] = uxMutexesHeld[t] - 1
        /\ uxPriority'[t] \in {uxPriority[t], uxBasePriority[t]}
        /\ uxMutexesHeld[t] # 1 => uxPriority'[t] = uxPriority[t]
        /\ eventPriority = uxPriority => eventPriority' = uxPriority'
    BY DEF GiveMutex, xTaskPriorityDisinherit, IInv, TypeOK
  <1>f. /\ xTasksWaitingToReceive'[m] = IF q = <<>> THEN q ELSE Tail(q)
        /\ blocked' \subseteq blocked
        /\ q # <<>> => blocked' = blocked \ {Head(q)}
        /\ \A n \in Mutexes \ {m} :
              xTasksWaitingToReceive'[n] = xTasksWaitingToReceive[n]
    BY <1>0 DEF GiveMutex, IInv, TypeOK
  <1>g. \A n \in Mutexes : \A w \in Waiting(n) :
             /\ w \in Tasks \ {t} /\ uxMutexesHeld[w] = 0
             /\ pc[w] = "try" /\ wanted[w] = n
    BY <1>a, WaiterFacts DEF Turn
  <1>h. /\ \A n \in Mutexes \ {m} : Waiting(n)' = Waiting(n)
        /\ Waiting(m)' \subseteq Waiting(m)
    <2>1. \A n \in Mutexes \ {m} : Waiting(n)' = Waiting(n)
      BY <1>f DEF Waiting
    <2>2. Waiting(m)' \subseteq Waiting(m)
      <3>1. CASE q = <<>>
        BY <1>0, <1>f, <3>1 DEF Waiting
      <3>2. CASE q # <<>>
        <4>1. Range(Tail(q)) \subseteq Range(q)
          BY <1>a, <3>2 DEF Range
        <4> QED
          BY <1>0, <1>f, <3>2, <4>1 DEF Waiting
      <3> QED
        BY <3>1, <3>2
    <2> QED
      BY <2>1, <2>2
  (* The other holders, and t if it still holds one, keep their priority. *)
  <1>i. ASSUME NEW n \in Mutexes, n # m, pxMutexHolder[n] # Nobody
        PROVE  /\ pxMutexHolder[n] \in Tasks
               /\ uxPriority'[pxMutexHolder[n]] = uxPriority[pxMutexHolder[n]]
    <2>1. pxMutexHolder[n] \in Tasks
      BY <1>i, HolderFacts
    <2>2. pxMutexHolder[n] # t \/ uxMutexesHeld[t] # 1
      BY <1>a, <1>i, OneHeld
    <2> QED
      BY <1>e, <2>1, <2>2
  <1>1. EmptyHanded'
    <2> SUFFICES ASSUME NEW u \in Tasks
                 PROVE  /\ (pc'[u] = "failed" \/ (pc'[u] = "try" /\ u \in blocked'))
                                => xTicksToWait[u] # "none"
                        /\ WaitsForIt(u)' => uxMutexesHeld'[u] = 0
                        /\ OneAtATime => /\ uxMutexesHeld'[u] <= 1
                                         /\ pc'[u] = "try" => uxMutexesHeld'[u] = 0
      BY <1>b, <1>c DEF EmptyHanded
    <2>1. CASE u # t
      BY <1>b, <1>e, <1>f, <2>1 DEF Turn, EmptyHanded, WaitsForIt
    <2>2. CASE u = t
      BY <1>a, <1>b, <1>e, <2>2 DEF Turn, EmptyHanded, WaitsForIt
    <2> QED
      BY <2>1, <2>2
  <1>2. Steady'
    <2> SUFFICES ASSUME PrioritiesStay, NEW u \in Tasks
                 PROVE  uxBasePriority[u] <= uxPriority'[u]
      BY <1>b, <1>c, <1>e DEF Steady, Turn
    <2> QED
      BY <1>d, <1>e DEF Turn, Steady
  <1>3. ASSUME PrioritiesStay
        PROVE  /\ Falling(q, uxPriority')
               /\ q # <<>> => /\ Falling(Tail(q), uxPriority') /\ Head(q) \in Waiting(m)
                              /\ \A w \in Waiting(m)' : uxPriority'[w] <= uxPriority'[Head(q)]
    <2>1. Falling(q, uxPriority')
      <3>1. Falling(q, uxPriority)
        BY <1>0, <1>3 DEF Turn, Sorted
      <3>2. \A j \in DOMAIN q : uxPriority'[q[j]] = uxPriority[q[j]]
        BY <1>0, <1>e, <1>g DEF Waiting, Range
      <3> QED
        BY <3>1, <3>2 DEF Falling
    <2>2. ASSUME q # <<>>
          PROVE  /\ Falling(Tail(q), uxPriority') /\ Head(q) \in Waiting(m)
                 /\ \A w \in Waiting(m)' : uxPriority'[w] <= uxPriority'[Head(q)]
      <3>1. PICK prio : prio = uxPriority'
        OBVIOUS
      <3>2. /\ Falling(Tail(q), prio) /\ Head(q) \in Range(q)
            /\ \A w \in Range(Tail(q)) : prio[w] <= prio[Head(q)]
        BY <1>a, <2>1, <2>2, <3>1, FallingTail
      <3> QED
        BY <1>0, <1>f, <2>2, <3>1, <3>2 DEF Waiting
    <2> QED
      BY <2>1, <2>2
  <1>4. Sorted'
    <2> SUFFICES ASSUME PrioritiesStay, NEW n \in Mutexes
                 PROVE  Falling(xTasksWaitingToReceive'[n], uxPriority')
      BY <1>c DEF Sorted
    <2>1. CASE n = m
      BY <1>3, <1>f, <2>1
    <2>2. CASE n # m
      <3>1. Falling(xTasksWaitingToReceive[n], uxPriority)
        BY DEF Turn, Sorted
      <3>2. \A j \in DOMAIN xTasksWaitingToReceive[n] :
                LET w == xTasksWaitingToReceive[n][j]
                IN  uxPriority'[w] = uxPriority[w]
        BY <1>e, <1>g DEF Waiting, Range
      <3> QED
        BY <1>f, <2>2, <3>1, <3>2 DEF Falling
    <2> QED
      BY <2>1, <2>2
  <1>5. FirstIsWoken'
    <2> SUFFICES ASSUME PrioritiesStay, NEW n \in Mutexes,
                        uxMessagesWaiting'[n] = 1, xTasksWaitingToReceive'[n] # <<>>
                 PROVE  \E u \in Tasks : Woken(u, n)'
      BY <1>c DEF FirstIsWoken
    <2>1. CASE n = m
      <3>1. q # <<>>
        BY <1>f, <2>1
      <3>2. PICK u : u = Head(q)
        OBVIOUS
      <3>3. /\ u \in Waiting(m) /\ u \notin blocked'
            /\ \A w \in Waiting(m)' : uxPriority'[w] <= uxPriority'[u]
        BY <1>3, <1>f, <3>1, <3>2
      <3>4. u \in Tasks \ {t} /\ uxMutexesHeld[u] = 0 /\ pc[u] = "try" /\ wanted[u] = m
        BY <1>g, <3>3
      <3> QED
        BY <1>b, <1>e, <2>1, <3>3, <3>4 DEF Woken
    <2>2. CASE n # m
      <3>1. PICK u \in Tasks : Woken(u, n)
        BY <1>b, <1>f, <2>2 DEF Turn, FirstIsWoken
      <3>2. u # t
        BY <3>1 DEF Woken
      <3>3. \A w \in Waiting(n)' : uxPriority'[w] <= uxPriority'[u]
        BY <1>e, <1>g, <1>h, <2>2, <3>1, <3>2 DEF Woken
      <3> QED
        BY <1>b, <1>e, <1>f, <3>1, <3>2, <3>3 DEF Woken
    <2> QED
      BY <2>1, <2>2
  <1>6. NoInversion'
    <2> SUFFICES ASSUME PrioritiesStay, NEW n \in Mutexes, NEW w \in Waiting(n)',
                        uxMutexesHeld'[w] = 0, pxMutexHolder'[n] # Nobody
                 PROVE  uxPriority'[pxMutexHolder'[n]] >= uxPriority'[w]
      BY <1>c DEF NoInversion, Waiting
    <2>1. n # m /\ pxMutexHolder'[n] = pxMutexHolder[n] /\ w \in Waiting(n)
      BY <1>b, <1>h
    <2>2. uxMutexesHeld[w] = 0 /\ uxPriority'[w] = uxPriority[w]
      BY <1>e, <1>g, <2>1
    <2>3. uxPriority[pxMutexHolder[n]] >= uxPriority[w]
      BY <2>1, <2>2 DEF Turn, NoInversion, Waiting
    <2> QED
      BY <1>i, <2>1, <2>2, <2>3
  <1>7. FlagsTell'
    <2> SUFFICES ASSUME OneAtATime, NEW n \in Mutexes, NEW w \in Waiting(n)',
                        pxMutexHolder'[n] # Nobody,
                        uxBasePriority[pxMutexHolder'[n]] < uxPriority'[w]
                 PROVE  xInheritanceOccurred[w]
      BY <1>b, <1>c DEF FlagsTell
    <2>1. n # m /\ pxMutexHolder'[n] = pxMutexHolder[n] /\ w \in Waiting(n)
      BY <1>b, <1>h
    <2>2. uxPriority'[w] = uxPriority[w]
      BY <1>e, <1>g, <2>1
    <2> QED
      BY <2>1, <2>2 DEF Turn, FlagsTell
  <1>8. CauseLasts'
    <2> SUFFICES ASSUME OneAtATime, NEW n \in Mutexes, pxMutexHolder'[n] # Nobody,
                        uxBasePriority[pxMutexHolder'[n]] < uxPriority'[pxMutexHolder'[n]]
                 PROVE  \E u \in Tasks : Cause(u, n, uxPriority[pxMutexHolder[n]])'
      BY <1>b, <1>c DEF CauseLasts
    <2>1. PICK g : g = pxMutexHolder[n]
      OBVIOUS
    <2>2. n # m /\ g = pxMutexHolder'[n] /\ uxPriority'[g] = uxPriority[g]
      BY <1>b, <1>i, <2>1
    <2>3. PICK u \in Tasks : Cause(u, n, uxPriority[g])
      BY <2>1, <2>2 DEF Turn, CauseLasts
    <2>4. u # t
      BY <2>3 DEF Cause, WaitsForIt
    <2>5. WaitsForIt(u)' /\ wanted'[u] = n /\ xInheritanceOccurred'[u]
      BY <1>b, <2>3, <2>4 DEF WaitsForIt, Cause
    <2>6. uxPriority'[g] <= uxPriority'[u]
      BY <1>e, <2>2, <2>3, <2>4 DEF Cause
    <2> QED
      BY <2>2, <2>5, <2>6 DEF Cause
  <1> QED
    BY <1>1, <1>2, <1>4, <1>5, <1>6, <1>7, <1>8 DEF Turn

-----------------------------------------------------------------------------
LEMMA InitTurn == ASSUME Init PROVE Turn
  <1>1. \A m \in Mutexes : xTasksWaitingToReceive[m] = <<>> /\ pxMutexHolder[m] = Nobody
    BY DEF Init
  <1>2. EmptyHanded
    BY DEF Init, EmptyHanded, WaitsForIt
  <1>3. Steady
    BY PrioritiesAssumption DEF Init, Steady
  <1>4. \A m \in Mutexes : Waiting(m) = {}
    BY <1>1 DEF Waiting, Range
  <1> QED
    BY <1>1, <1>2, <1>3, <1>4 DEF Turn, Sorted, Falling, FirstIsWoken, NoInversion,
      FlagsTell, CauseLasts

LEMMA NextTurn == ASSUME NoChains, IInv, Turn, [Next]_vars PROVE Turn'
  <1>1. CASE UNCHANGED vars
    BY <1>1 DEF vars, mutexVars, prioVars, callVars, Turn, EmptyHanded, WaitsForIt,
      OneAtATime, PrioritiesStay, Steady, Sorted, Falling, FirstIsWoken, Woken, Waiting,
      NoInversion, FlagsTell, CauseLasts, Cause
  <1>2. CASE Next
    <2>1. UNCHANGED program
      BY <1>2 DEF Next
    <2>2. PICK t \in Tasks :
            \/ CallStep(t) \/ TimeOut(t) \/ Sleep(t) \/ Wake(t)
            \/ \E m \in Mutexes : TakeAgain(t, m)
            \/ \E m \in Mutexes, w \in WaitKinds : BeginTake(t, m, w)
            \/ \E p \in program.priorities : vTaskPrioritySet(t, p)
      BY <1>2 DEF Next
    <2>3. CASE TakeSucceeds(t)
      BY <2>1, <2>3, TakeSucceedsTurn
    <2>4. CASE TakeFails(t) \/ Retry(t) \/ Expire(t) \/ LookAgain(t)
      BY <2>1, <2>4, LoopTurn
    <2>5. CASE Block(t)
      BY <2>1, <2>5, BlockTurn
    <2>6. CASE vTaskPriorityDisinheritAfterTimeout(t)
      BY <2>1, <2>6, DisinheritAfterTimeoutTurn
    <2>7. CASE \/ CountTake(t) \/ Sleep(t) \/ Wake(t)
               \/ \E m \in Mutexes : TakeAgain(t, m) \/ xQueueGiveMutexRecursive(t, m)
      BY <2>1, <2>7, AsideTurn
    <2>8. CASE GiveRecursive(t)
      <3>1. wanted[t] \in Mutexes
        BY DEF IInv, TypeOK
      <3> QED
        BY <2>1, <2>8, <3>1, GiveMutexTurn DEF GiveRecursive, At, Goto
    <2>9. ASSUME NEW m \in Mutexes, Give(t, m)
          PROVE  Turn'
      <3>1. pc' = [pc EXCEPT ![t] = "out"]
        BY <2>9 DEF IInv, TypeOK, Give, At
      <3> QED
        BY <2>1, <2>9, <3>1, GiveMutexTurn DEF Give, At
    <2>10. CASE TimeOut(t)
      BY <2>1, <2>10, TimeOutTurn
    <2>11. ASSUME NEW m \in Mutexes, NEW w \in WaitKinds, BeginTake(t, m, w)
           PROVE  Turn'
      BY <2>1, <2>11, BeginTakeTurn
    <2>12. ASSUME NEW p \in program.priorities, vTaskPrioritySet(t, p)
           PROVE  Turn'
      BY <2>1, <2>12, PrioritySetTurn
    <2> QED
      BY <2>2, <2>3, <2>4, <2>5, <2>6, <2>7, <2>8, <2>9, <2>10, <2>11, <2>12 DEF CallStep
  <1> QED
    BY <1>1, <1>2

(* No inversion, and no priority inherited for nothing: whatever takes,     *)
(* gives and time-outs interleave, a holder has at least the priority of    *)
(* every waiter without a mutex, and no more than its own and that of the   *)
(* tasks that wait for it or still have to look after it.  Nobody waits     *)
(* while it holds a mutex (NoChains); with chains of holders TLC finds the  *)
(* inversion (section 5 of the README).                                     *)
THEOREM HoldersAlwaysHurry == ASSUME NoChains PROVE Spec => []HoldersHurryInTurn
  <1>1. Init => Turn
    BY InitTurn
  <1>2. IInv /\ Turn /\ [Next]_vars => Turn'
    BY NextTurn
  <1>3. IInv /\ Turn => HoldersHurryInTurn
    <2> SUFFICES ASSUME IInv, Turn PROVE HoldersHurryInTurn
      OBVIOUS
    <2>1. BoostHasCause
      <3> SUFFICES ASSUME OneAtATime, NEW m \in Mutexes, pxMutexHolder[m] # Nobody,
                          uxPriority[pxMutexHolder[m]] > uxBasePriority[pxMutexHolder[m]]
                   PROVE  \E t \in Tasks :
                             /\ wanted[t] = m /\ xInheritanceOccurred[t]
                             /\ pc[t] \in {"try", "failed", "timedOut", "disinherit"}
                             /\ uxPriority[t] >= uxPriority[pxMutexHolder[m]]
        BY DEF BoostHasCause
      <3>1. /\ pxMutexHolder[m] \in Tasks
            /\ \A u \in Tasks : uxPriority[u] \in Nat /\ uxBasePriority[u] \in Nat
        BY HolderFacts DEF IInv, TypeOK
      <3>2. PICK t \in Tasks : Cause(t, m, uxPriority[pxMutexHolder[m]])
        BY <3>1 DEF Turn, CauseLasts
      <3> QED
        BY <3>1, <3>2 DEF Cause, WaitsForIt
    <2> QED
      BY <2>1 DEF HoldersHurryInTurn, Turn
  <1> QED
    BY <1>1, <1>2, <1>3, InvariantHolds, PTL DEF Spec
=============================================================================
