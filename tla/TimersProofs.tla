---------------------------- MODULE TimersProofs ----------------------------
(***************************************************************************)
(* Machine-checked proofs about the software timers: across every wrap of  *)
(* the tick counter the two lists mean one time line (ListsOnOneLine), no  *)
(* callback runs before its time (CallbacksInTime), and the timer task     *)
(* never sleeps past an expiry (NobodyForgotten).                          *)
(***************************************************************************)
EXTENDS Timers, SequenceProofs

ItemSet == [timer : Timers, value : Ticks]
Periods == {p \in Nat \ {0} : p + MaxBehind < TickMod}
MessageSet ==
    {m \in [id : Commands \union {"reload", "function"}, timer : Timers \union {NoTimer},
            value : Ticks] :
        /\ m.id = "function" <=> m.timer = NoTimer
        /\ m.id = "period" => m.value \in Periods}

Current == ToSet(pxCurrentTimerList)
Overflow == ToSet(pxOverflowTimerList)
OnList(t) == \E item \in Current \union Overflow : item.timer = t

\* The timer task moves timers from one list to the other; it is at the callback
\* of a timer it puts back, or whose next expiry it still has to ask for; it has
\* taken a command whose timer is in no list.
Switching == pc \in {"switch", "reload"} \/ (pc = "callback" /\ after \in {"switch", "reload"})
Reloading == pc = "reload" \/ (pc = "callback" /\ after = "reload")
Restarting == pc = "restart" \/ (pc = "callback" /\ after = "restart")
Pending == xMessage # NoMessage
Sampled == Elapsed(xTickCount, xLastTime)       \* ticks since the lists were up to date
Since == Elapsed(xTickCount, xTimeNow)

(* The types of the variables. *)
Typed ==
    /\ program \in Programs
    /\ xTickCount \in Ticks /\ xLastTime \in Ticks /\ xTimeNow \in Ticks
    /\ wakeTime \in Ticks \union {NoTime}
    /\ pxCurrentTimerList \in Seq(ItemSet) /\ pxOverflowTimerList \in Seq(ItemSet)
    /\ xTimerPeriodInTicks \in [Timers -> Periods]
    /\ xTimerQueue \in Seq(MessageSet) /\ Len(xTimerQueue) <= QueueLength
    /\ pc \in {"query", "expired", "callback", "switch", "reload", "receive", "handle",
               "restart", "blocked", "assert"}
    /\ after \in {"receive", "switch", "reload", "restart"}
    /\ xMessage \in MessageSet \union {NoMessage}
    /\ running \in ItemSet \union {NoItem}
    /\ suspended \in BOOLEAN
    /\ life \in [Timers -> {"created", "deleting", "freed"}]
    /\ due \in [Timers -> (-TickMod .. TickMod) \union {Off}]

(* Where the timer task is, and what it then has in hand. *)
Steady ==
    /\ pc # "callback" => after = "receive"
    /\ Reloading => running \in ItemSet /\ AutoReload(running.timer)
    /\ Restarting => running \in ItemSet /\ AutoReload(running.timer)
    /\ pc \notin {"callback", "reload", "restart", "assert"} => running = NoItem
    /\ pc = "handle" => Pending
    /\ Pending => pc \in {"handle", "assert"} \/ Switching
    /\ Pending => xMessage.id # "function"
    /\ Switching => (Pending <=> ~suspended)
    /\ suspended => Switching \/ pc = "assert"
    /\ pc = "expired" => pxCurrentTimerList # <<>> /\ Head(pxCurrentTimerList).value <= xTimeNow
    /\ ~ Switching /\ pc # "assert" => xLastTime = xTimeNow

(* A list is in the order of its values. *)
InOrder(list) == \A i, j \in DOMAIN list : i < j => list[i].value <= list[j].value
Sorted == InOrder(pxCurrentTimerList) /\ InOrder(pxOverflowTimerList)

(* A timer is in one place. *)
Apart ==
    /\ IsInjective(pxCurrentTimerList) /\ IsInjective(pxOverflowTimerList)
    /\ \A a, b \in Current : a.timer = b.timer => a = b
    /\ \A a, b \in Overflow : a.timer = b.timer => a = b
    /\ \A a \in Current, b \in Overflow : a.timer # b.timer
OnePlace ==
    /\ Apart
    /\ Reloading => ~ OnList(running.timer)
    /\ Pending => ~ OnList(xMessage.timer)
    /\ Pending /\ Reloading => xMessage.timer # running.timer

(* What the values in the lists mean. *)
OnTime(t, left) == due[t] # Off /\ due[t] + Sampled = left /\ due[t] >= -MaxBehind
KeepTime ==
    /\ \A item \in Current : OnTime(item.timer, item.value - xLastTime)
    /\ \A item \in Overflow :
          /\ OnTime(item.timer, item.value + TickMod - xLastTime)
          /\ item.value + TickMod - xLastTime <= xTimerPeriodInTicks[item.timer]
    /\ ~ Switching /\ pc # "assert" =>
          \A item \in Current : item.value - xLastTime <= xTimerPeriodInTicks[item.timer]

(* While the lists are switched the counter is between the sample, after    *)
(* the wrap, and the sample before it.                                      *)
Reloads == Reloading /\ running.value + xTimerPeriodInTicks[running.timer] < TickMod
Wrapped ==
    /\ Switching => xTimeNow < xLastTime
    /\ Switching /\ (Current \union Overflow # {} \/ Reloads) =>
          xTimeNow <= xTickCount /\ xTickCount < xLastTime
    /\ Switching => \A item \in Current :
          \/ item.value - xLastTime <= xTimerPeriodInTicks[item.timer]
          \/ MaxBehind <= xLastTime
    /\ Reloads => /\ MaxBehind <= xLastTime
                  /\ OnTime(running.timer, running.value - xLastTime
                                             + xTimerPeriodInTicks[running.timer])

(* The command in hand says when its timer should expire. *)
InHand ==
    LET t == xMessage.timer
    IN  Pending =>
        /\ xMessage.id \in {"start", "reload"} =>
              due[t] = xTimerPeriodInTicks[t] - Elapsed(xTimeNow, xMessage.value) - Since
        /\ xMessage.id = "period" => due[t] = xMessage.value - Since
        /\ xMessage.id \in {"stop", "delete"} => due[t] = Off
        /\ xMessage.id \notin {"stop", "delete"} =>
              due[t] # Off /\ (due[t] >= -MaxBehind \/ Since = 0)

(* A timer that should expire is in a list, or somebody still sees to it. *)
Accounted ==
    pc # "assert" =>
        \A t \in Armed :
            \/ OnList(t)
            \/ \E m \in ToSet(xTimerQueue) : m.id = "reload" /\ m.timer = t
            \/ Pending /\ xMessage.timer = t
            \/ (Reloading \/ Restarting) /\ running.timer = t

(* While the timer task waits, it waits for the first expiry. *)
Waits ==
    pc = "blocked" =>
        /\ xTimerQueue = <<>>
        /\ pxCurrentTimerList # <<>> =>
              /\ wakeTime = Head(pxCurrentTimerList).value
              /\ xLastTime <= xTickCount /\ xTickCount < wakeTime
        /\ pxCurrentTimerList = <<>> /\ pxOverflowTimerList # <<>> =>
              wakeTime = 0 /\ 0 < xTickCount /\ xLastTime <= xTickCount

(* Nothing is left of a timer that was freed, nor comes behind its deletion. *)
DeletesLast ==
    /\ "delete" \notin program.calls => \A t \in Timers : life[t] = "created"
    /\ \A t \in Timers : life[t] = "freed" =>
          /\ ~ OnList(t)
          /\ \A m \in ToSet(xTimerQueue) : m.timer # t
          /\ Pending => xMessage.timer # t
    /\ \A m \in ToSet(xTimerQueue) : m.id = "delete" => life[m.timer] = "deleting"
    /\ \A i, j \in DOMAIN xTimerQueue : i < j /\ xTimerQueue[i].id = "delete" =>
          xTimerQueue[j].timer # xTimerQueue[i].timer
    /\ xMessage.id = "delete" =>
          /\ life[xMessage.timer] = "deleting"
          /\ \A m \in ToSet(xTimerQueue) : m.timer # xMessage.timer

TimeLine == Typed /\ Steady /\ Sorted /\ OnePlace /\ KeepTime /\ Wrapped
InOneTime == TimeLine /\ InHand /\ Accounted /\ Waits /\ DeletesLast

-----------------------------------------------------------------------------
(* The tick counter. *)

LEMMA Clock ==
    ASSUME NEW x \in Ticks, NEW y \in Ticks
    PROVE  /\ Elapsed(x, y) = IF y <= x THEN x - y ELSE x - y + TickMod
           /\ Elapsed(x, y) \in Ticks
  <1>1. x \in Int /\ y \in Int /\ TickMod \in Nat /\ 0 <= x /\ x < TickMod /\ 0 <= y /\ y < TickMod
    BY BoundsAssumption DEF Ticks
  <1>2. CASE y <= x
    <2>1. (x - y) % TickMod = x - y
      BY <1>1, <1>2
    <2> QED BY <1>1, <1>2, <2>1 DEF Elapsed, Ticks
  <1>3. CASE ~ (y <= x)
    <2>1. (x - y) % TickMod = x - y + TickMod
      BY <1>1, <1>3
    <2> QED BY <1>1, <1>3, <2>1 DEF Elapsed, Ticks
  <1> QED BY <1>2, <1>3

LEMMA Later ==
    ASSUME NEW x \in Ticks, NEW p \in Periods
    PROVE  /\ Add(x, p) = IF x + p < TickMod THEN x + p ELSE x + p - TickMod
           /\ Add(x, p) \in Ticks
  <1>1. /\ x \in Int /\ p \in Int /\ TickMod \in Nat /\ 0 <= x /\ x < TickMod
        /\ 0 < p /\ p < TickMod
    BY BoundsAssumption DEF Ticks, Periods
  <1>2. CASE x + p < TickMod
    <2>1. (x + p) % TickMod = x + p
      BY <1>1, <1>2
    <2> QED BY <1>1, <1>2, <2>1 DEF Add, Ticks
  <1>3. CASE ~ (x + p < TickMod)
    <2>1. (x + p) % TickMod = x + p - TickMod
      BY <1>1, <1>3
    <2> QED BY <1>1, <1>3, <2>1 DEF Add, Ticks
  <1> QED BY <1>2, <1>3

LEMMA NextTick ==
    ASSUME NEW x \in Ticks
    PROVE  /\ Add(x, 1) = IF x + 1 < TickMod THEN x + 1 ELSE 0
           /\ Add(x, 1) \in Ticks
  <1>1. x \in Int /\ TickMod \in Nat /\ 0 <= x /\ x < TickMod
    BY BoundsAssumption DEF Ticks
  <1>2. CASE x + 1 < TickMod
    <2>1. (x + 1) % TickMod = x + 1
      BY <1>1, <1>2
    <2> QED BY <1>1, <1>2, <2>1 DEF Add, Ticks
  <1>3. CASE ~ (x + 1 < TickMod)
    <2>1. x + 1 = TickMod
      BY <1>1, <1>3
    <2>2. (x + 1) % TickMod = 0
      BY <1>1, <2>1
    <2> QED BY <1>1, <1>3, <2>2 DEF Add, Ticks
  <1> QED BY <1>2, <1>3

(* What the types say of the numbers. *)
LEMMA Numbers ==
    ASSUME Typed
    PROVE  /\ TickMod \in Nat /\ 0 < TickMod /\ MaxBehind \in Nat /\ 3 * MaxBehind <= TickMod
           /\ xTickCount \in Int /\ 0 <= xTickCount /\ xTickCount < TickMod
           /\ xLastTime \in Int /\ 0 <= xLastTime /\ xLastTime < TickMod
           /\ xTimeNow \in Int /\ 0 <= xTimeNow /\ xTimeNow < TickMod
           /\ Sampled = IF xLastTime <= xTickCount THEN xTickCount - xLastTime
                                                   ELSE xTickCount - xLastTime + TickMod
           /\ Since = IF xTimeNow <= xTickCount THEN xTickCount - xTimeNow
                                                ELSE xTickCount - xTimeNow + TickMod
           /\ Sampled \in Int /\ Since \in Int
           /\ 0 <= Sampled /\ Sampled < TickMod /\ 0 <= Since /\ Since < TickMod
           /\ Off = TickMod + TickMod
  <1>1. xTickCount \in Ticks /\ xLastTime \in Ticks /\ xTimeNow \in Ticks
    BY DEF Typed
  <1>2. /\ Sampled = IF xLastTime <= xTickCount THEN xTickCount - xLastTime
                                                ELSE xTickCount - xLastTime + TickMod
        /\ Since = IF xTimeNow <= xTickCount THEN xTickCount - xTimeNow
                                             ELSE xTickCount - xTimeNow + TickMod
        /\ Sampled \in Ticks /\ Since \in Ticks
    BY <1>1, Clock DEF Sampled, Since
  <1> QED BY <1>1, <1>2, BoundsAssumption DEF Ticks, Off

LEMMA PerTimer ==
    ASSUME Typed, NEW t \in Timers
    PROVE  /\ xTimerPeriodInTicks[t] \in Int /\ 0 < xTimerPeriodInTicks[t]
           /\ xTimerPeriodInTicks[t] + MaxBehind < TickMod
           /\ xTimerPeriodInTicks[t] \in Periods
           /\ due[t] \in Int
           /\ due[t] # Off => -TickMod <= due[t] /\ due[t] <= TickMod
  <1>1. TickMod \in Nat /\ MaxBehind \in Nat /\ Off = 2 * TickMod
    BY BoundsAssumption DEF Off
  <1>2. xTimerPeriodInTicks[t] \in Periods
    BY DEF Typed
  <1>3. due[t] \in (-TickMod .. TickMod) \union {Off}
    BY DEF Typed
  <1> QED BY <1>1, <1>2, <1>3 DEF Periods

LEMMA PerItem ==
    ASSUME Typed, NEW item \in Current \union Overflow
    PROVE  /\ item \in ItemSet /\ item.timer \in Timers
           /\ item.value \in Int /\ 0 <= item.value /\ item.value < TickMod
           /\ item.value \in Ticks
  <1>1. pxCurrentTimerList \in Seq(ItemSet) /\ pxOverflowTimerList \in Seq(ItemSet)
    BY DEF Typed
  <1>2. item \in ItemSet
    BY <1>1 DEF Current, Overflow, ToSet
  <1> QED BY <1>2, BoundsAssumption DEF ItemSet, Ticks

-----------------------------------------------------------------------------
(* The lists. *)

LEMMA HeadFirst ==
    ASSUME NEW list \in Seq(ItemSet), list # <<>>, InOrder(list), IsInjective(list)
    PROVE  /\ Tail(list) \in Seq(ItemSet) /\ IsInjective(Tail(list)) /\ InOrder(Tail(list))
           /\ Head(list) \in ItemSet /\ Head(list) \in ToSet(list)
           /\ ToSet(Tail(list)) = ToSet(list) \ {Head(list)}
           /\ \A item \in ToSet(list) : Head(list).value <= item.value
  <1>1. /\ Tail(list) \in Seq(ItemSet) /\ IsInjective(Tail(list))
        /\ Head(list) \in ItemSet /\ Head(list) \in ToSet(list)
        /\ ToSet(Tail(list)) = ToSet(list) \ {Head(list)}
    BY TailFacts DEF ToSet, Range
  <1>2. /\ Len(list) \in Nat /\ DOMAIN list = 1..Len(list) /\ DOMAIN Tail(list) = 1..Len(list) - 1
        /\ \A j \in 1..Len(list) - 1 : Tail(list)[j] = list[j + 1]
        /\ Head(list) = list[1] /\ 1 \in DOMAIN list
    OBVIOUS
  <1>3. InOrder(Tail(list))
    <2> SUFFICES ASSUME NEW i \in DOMAIN Tail(list), NEW j \in DOMAIN Tail(list), i < j
                 PROVE  Tail(list)[i].value <= Tail(list)[j].value
      BY DEF InOrder
    <2>1. i + 1 \in DOMAIN list /\ j + 1 \in DOMAIN list /\ i + 1 < j + 1
      BY <1>2
    <2> QED BY <1>2, <2>1 DEF InOrder
  <1>4. \A item \in ToSet(list) : Head(list).value <= item.value
    <2> SUFFICES ASSUME NEW j \in DOMAIN list PROVE list[1].value <= list[j].value
      BY <1>2 DEF ToSet
    <2>1. list[1].value \in Int
      <3>1. list[1] \in ItemSet
        BY <1>2
      <3> QED BY <3>1, BoundsAssumption DEF ItemSet, Ticks
    <2>2. j = 1 \/ 1 < j
      BY <1>2
    <2> QED BY <1>2, <2>1, <2>2 DEF InOrder
  <1> QED BY <1>1, <1>3, <1>4

LEMMA InsertFacts ==
    ASSUME NEW list \in Seq(ItemSet), NEW item \in ItemSet, InOrder(list)
    PROVE  LET r == Insert(list, item)
           IN  /\ r \in Seq(ItemSet) /\ InOrder(r)
               /\ ToSet(r) = ToSet(list) \union {item}
               /\ IsInjective(list) /\ item \notin ToSet(list) => IsInjective(r)
  <1> DEFINE behind == {i \in ToSet(list) : i.value > item.value}
             r == InsertBefore(list, item, behind)
  <1>1. r \in Seq(ItemSet) /\ ToSet(r) = ToSet(list) \union {item}
        /\ (IsInjective(list) /\ item \notin ToSet(list) => IsInjective(r))
    <2> HIDE DEF behind
    <2> QED BY InsertBeforeFacts DEF ToSet, Range
  <1>2. PICK k \in 1..Len(list) + 1 :
            /\ r = InsertAt(list, k, item)
            /\ k \in DOMAIN list => list[k] \in behind
            /\ \A j \in 1..k - 1 : list[j] \notin behind
    <2> HIDE DEF behind
    <2> QED BY InsertBeforePlace
  <1>3. /\ Len(r) = Len(list) + 1 /\ Len(list) \in Nat
        /\ DOMAIN list = 1..Len(list) /\ DOMAIN r = 1..Len(list) + 1
        /\ \A j \in DOMAIN r :
              r[j] = IF j < k THEN list[j] ELSE IF j = k THEN item ELSE list[j - 1]
    <2>1. /\ InsertAt(list, k, item) \in Seq(ItemSet)
          /\ Len(InsertAt(list, k, item)) = Len(list) + 1
          /\ \A j \in DOMAIN InsertAt(list, k, item) :
                InsertAt(list, k, item)[j] =
                    IF j < k THEN list[j] ELSE IF j = k THEN item ELSE list[j - 1]
      BY InsertAtPlaces
    <2> HIDE DEF r
    <2>2. Len(list) \in Nat /\ DOMAIN list = 1..Len(list) /\ DOMAIN r = 1..Len(r)
      BY <1>1 DEF r
    <2> QED BY <1>2, <2>1, <2>2
  <1>4. /\ \A j \in DOMAIN list : list[j].value \in Int
        /\ item.value \in Int
    <2>1. \A j \in DOMAIN list : list[j] \in ItemSet
      OBVIOUS
    <2>2. \A i \in ItemSet : i.value \in Int
      BY BoundsAssumption DEF ItemSet, Ticks
    <2> QED BY <2>1, <2>2
  <1>5. \A j \in DOMAIN list : list[j].value > item.value <=> list[j] \in behind
    BY DEF ToSet
  <1> HIDE DEF behind, r
  <1>6. \A j \in DOMAIN list : j < k => list[j].value <= item.value
    BY <1>2, <1>3, <1>4, <1>5
  <1>7. \A j \in DOMAIN list : k <= j => item.value <= list[j].value
    <2> SUFFICES ASSUME NEW j \in DOMAIN list, k <= j PROVE item.value <= list[j].value
      OBVIOUS
    <2>1. k \in DOMAIN list /\ list[k].value > item.value
      BY <1>2, <1>3, <1>5
    <2>2. k = j \/ k < j
      BY <1>3
    <2>3. list[k].value <= list[j].value
      BY <1>4, <2>1, <2>2 DEF InOrder
    <2> QED BY <1>4, <2>1, <2>3
  <1>8. InOrder(r)
    <2> SUFFICES ASSUME NEW i \in DOMAIN r, NEW j \in DOMAIN r, i < j
                 PROVE  r[i].value <= r[j].value
      BY DEF InOrder
    <2>1. CASE j < k
      <3>1. i \in DOMAIN list /\ j \in DOMAIN list /\ r[i] = list[i] /\ r[j] = list[j]
        BY <1>3, <2>1
      <3> QED BY <3>1 DEF InOrder
    <2>2. CASE j = k
      <3>1. i \in DOMAIN list /\ r[i] = list[i] /\ r[j] = item /\ i < k
        BY <1>3, <2>2
      <3> QED BY <1>6, <3>1
    <2>3. CASE k < j
      <3>1. j - 1 \in DOMAIN list /\ r[j] = list[j - 1] /\ k <= j - 1
        BY <1>3, <2>3
      <3>2. CASE i < k
        <4>1. i \in DOMAIN list /\ r[i] = list[i] /\ i < j - 1
          BY <1>3, <2>3, <3>2
        <4> QED BY <3>1, <4>1 DEF InOrder
      <3>3. CASE i = k
        <4>1. r[i] = item
          BY <1>3, <3>3
        <4> QED BY <1>7, <3>1, <4>1
      <3>4. CASE k < i
        <4>1. i - 1 \in DOMAIN list /\ r[i] = list[i - 1] /\ i - 1 < j - 1
          BY <1>3, <3>4
        <4> QED BY <3>1, <4>1 DEF InOrder
      <3> QED BY <1>3, <3>2, <3>3, <3>4
    <2> QED BY <1>3, <2>1, <2>2, <2>3
  <1> QED BY <1>1, <1>8 DEF Insert, r, behind

LEMMA WithoutTimerFacts ==
    ASSUME NEW list \in Seq(ItemSet), NEW t, InOrder(list), IsInjective(list)
    PROVE  LET r == WithoutTimer(list, t)
           IN  /\ r \in Seq(ItemSet) /\ InOrder(r) /\ IsInjective(r)
               /\ ToSet(r) = {item \in ToSet(list) : item.timer # t}
  <1> DEFINE X == {i \in ToSet(list) : i.timer = t}
             r == Without(list, X)
  <1>1. /\ r \in Seq(ItemSet) /\ IsInjective(r)
        /\ ToSet(r) = ToSet(list) \ X
    <2> HIDE DEF X
    <2>1. /\ r \in Seq(ItemSet) /\ Range(r) = Range(list) \ X
          /\ IsInjective(list) => IsInjective(r)
      BY WithoutFacts
    <2>2. ToSet(r) = Range(r) /\ ToSet(list) = Range(list)
      BY DEF ToSet, Range
    <2> HIDE DEF r
    <2> QED BY <2>1, <2>2
  <1>2. ToSet(r) = {item \in ToSet(list) : item.timer # t}
    BY <1>1
  <1> HIDE DEF X
  <1>3. PICK p \in [DOMAIN r -> DOMAIN list] : OthersInOrder(list, X, r, p)
    BY WithoutPlaces
  <1> HIDE DEF r
  <1>4. InOrder(r)
    BY <1>1, <1>3 DEF InOrder, OthersInOrder
  <1> QED BY <1>1, <1>2, <1>4 DEF WithoutTimer, r, X

-----------------------------------------------------------------------------
(* The invariant holds at the start. *)

LEMMA ProgramFacts ==
    ASSUME NEW app \in Programs
    PROVE  /\ app.period \in [Timers -> Periods]
           /\ app.periods \subseteq Periods
           /\ app.autoReload \subseteq Timers
           /\ app.calls \subseteq Commands \union {"function"}
           /\ "delete" \in app.calls => app.autoReload = {}
  <1>1. /\ app.period \in [Timers -> Nat \ {0}] /\ app.periods \subseteq Nat \ {0}
        /\ app.autoReload \subseteq Timers
        /\ app.calls \subseteq Commands \union {"function"}
        /\ "delete" \in app.calls => app.autoReload = {}
    BY ProgramsAssumption
  <1>2. \A p \in app.periods \union {app.period[t] : t \in Timers} : p + MaxBehind < TickMod
    BY ProgramsAssumption
  <1>3. \A t \in Timers : app.period[t] \in Periods
    BY <1>1, <1>2 DEF Periods
  <1>4. app.periods \subseteq Periods
    BY <1>1, <1>2 DEF Periods
  <1> QED BY <1>1, <1>3, <1>4

LEMMA PeriodIsTick ==
    ASSUME NEW p \in Periods
    PROVE  p \in Ticks /\ p \in Int /\ 0 < p /\ p + MaxBehind < TickMod /\ MaxBehind \in Nat
  BY BoundsAssumption DEF Periods, Ticks

LEMMA Starts == TimersInit => InOneTime
  <1> SUFFICES ASSUME TimersInit PROVE InOneTime
    OBVIOUS
  <1>1. 0 \in Ticks /\ Off \in Int
    BY BoundsAssumption DEF Ticks, Off
  <1>2. \A t \in Timers : Message("start", t, 0) \in MessageSet
    BY <1>1, TimersAssumption DEF Message, MessageSet, Commands
  <1>3. xTimerQueue \in Seq(MessageSet) /\ Len(xTimerQueue) <= QueueLength
    <2>1. CASE xTimerQueue = <<>>
      BY <2>1, BoundsAssumption
    <2>2. CASE xTimerQueue # <<>>
      <3>1. PICK t \in Timers : xTimerQueue = <<Message("start", t, 0)>>
        BY <2>2 DEF TimersInit
      <3> QED BY <1>2, <3>1, BoundsAssumption
    <2> QED BY <2>1, <2>2
  <1>4. Typed
    <2>1. xTimerPeriodInTicks \in [Timers -> Periods]
      BY ProgramFacts DEF TimersInit
    <2>2. due \in [Timers -> (-TickMod .. TickMod) \union {Off}]
      BY DEF TimersInit
    <2>3. life \in [Timers -> {"created", "deleting", "freed"}]
      BY DEF TimersInit
    <2>4. pxCurrentTimerList \in Seq(ItemSet) /\ pxOverflowTimerList \in Seq(ItemSet)
      BY DEF TimersInit
    <2> QED BY <1>1, <1>3, <2>1, <2>2, <2>3, <2>4 DEF TimersInit, Typed
  <1>5. Current = {} /\ Overflow = {} /\ pxCurrentTimerList = <<>> /\ pxOverflowTimerList = <<>>
    BY DEF TimersInit, Current, Overflow, ToSet
  <1>6. pc = "query" /\ after = "receive" /\ xMessage = NoMessage /\ running = NoItem
        /\ xLastTime = xTimeNow /\ suspended = FALSE
    BY DEF TimersInit
  <1>7. ~ Switching /\ ~ Reloading /\ ~ Restarting /\ ~ Pending /\ ~ Reloads
    BY <1>6 DEF Switching, Reloading, Restarting, Pending, Reloads
  <1>8. Armed = {}
    BY DEF TimersInit, Armed
  <1>9. Steady
    BY <1>6, <1>7 DEF Steady
  <1>10. Sorted /\ OnePlace
    BY <1>5, <1>7 DEF Sorted, InOrder, OnePlace, Apart, IsInjective
  <1>11. KeepTime /\ Wrapped
    BY <1>5, <1>7 DEF KeepTime, Wrapped
  <1>12. InHand /\ Accounted /\ Waits
    BY <1>6, <1>7, <1>8 DEF InHand, Accounted, Waits
  <1>13. DeletesLast
    <2>1. \A t \in Timers : life[t] = "created"
      BY DEF TimersInit
    <2>2. \A i \in DOMAIN xTimerQueue : xTimerQueue[i].id = "start"
      BY DEF TimersInit, Message
    <2>3. xMessage.id # "delete"
      BY <1>6 DEF NoMessage
    <2>4. \A m \in ToSet(xTimerQueue) : m.id # "delete"
      BY <2>2 DEF ToSet
    <2> QED BY <2>1, <2>2, <2>3, <2>4 DEF DeletesLast
  <1> QED BY <1>4, <1>9, <1>10, <1>11, <1>12, <1>13 DEF InOneTime, TimeLine

-----------------------------------------------------------------------------
(* A tick: the counter stays within a round of the last sample, because no  *)
(* timer is left lying for longer than MaxBehind.                           *)

LEMMA TickRoom ==
    ASSUME TimeLine, KeepsUp, pc # "assert"
    PROVE  /\ \A item \in Current \union Overflow : Sampled + 1 < TickMod
           /\ Reloads => Sampled + 1 < TickMod
           /\ Switching /\ (Current \union Overflow # {} \/ Reloads) => xTickCount + 1 < xLastTime
  <1> USE DEF TimeLine
  <1>1. Sampled + 1 < TickMod /\ Switching => xTickCount + 1 < xLastTime \/ ~ (xTickCount < xLastTime)
    BY Numbers
  <1>2. \A t \in Armed : due[t] > -MaxBehind
    BY DEF KeepsUp
  <1>3. ASSUME NEW item \in Current PROVE Sampled + 1 < TickMod
    <2> DEFINE t == item.timer
               p == xTimerPeriodInTicks[t]
    <2>1. t \in Timers /\ item.value \in Int /\ item.value < TickMod
      BY <1>3, PerItem
    <2>2. due[t] \in Int /\ due[t] # Off /\ due[t] + Sampled = item.value - xLastTime
      BY <1>3, <2>1, PerTimer DEF KeepTime, OnTime
    <2>3. due[t] > -MaxBehind
      BY <1>2, <2>1, <2>2 DEF Armed
    <2>4. p \in Int /\ p + MaxBehind < TickMod
      BY <2>1, PerTimer
    <2>5. CASE item.value - xLastTime <= p
      <3> HIDE DEF p, t
      <3> QED BY <2>1, <2>2, <2>3, <2>4, <2>5, Numbers
    <2>6. CASE ~ (item.value - xLastTime <= p)
      <3>1. Switching /\ MaxBehind <= xLastTime /\ xTickCount < xLastTime
        BY <1>3, <2>6 DEF KeepTime, Wrapped
      <3> HIDE DEF p, t
      <3> QED BY <2>1, <2>2, <2>3, <3>1, Numbers
    <2> QED BY <2>5, <2>6
  <1>4. ASSUME NEW item \in Overflow PROVE Sampled + 1 < TickMod
    <2> DEFINE t == item.timer
               p == xTimerPeriodInTicks[t]
    <2>1. t \in Timers /\ item.value \in Int
      BY <1>4, PerItem
    <2>2. /\ due[t] \in Int /\ due[t] # Off
          /\ due[t] + Sampled = item.value + TickMod - xLastTime
          /\ item.value + TickMod - xLastTime <= p
      BY <1>4, <2>1, PerTimer DEF KeepTime, OnTime
    <2>3. due[t] > -MaxBehind
      BY <1>2, <2>1, <2>2 DEF Armed
    <2>4. p \in Int /\ p + MaxBehind < TickMod
      BY <2>1, PerTimer
    <2> HIDE DEF p, t
    <2> QED BY <2>1, <2>2, <2>3, <2>4, Numbers
  <1>5. ASSUME Reloads PROVE Sampled + 1 < TickMod
    <2> DEFINE t == running.timer
               p == xTimerPeriodInTicks[t]
               v == running.value
    <2>1. Reloading /\ Switching /\ v + p < TickMod
      BY <1>5 DEF Reloads, Reloading, Switching
    <2>2. t \in Timers /\ v \in Int
      BY <2>1, BoundsAssumption DEF Steady, ItemSet, Ticks
    <2>3. /\ due[t] \in Int /\ due[t] # Off /\ due[t] + Sampled = v - xLastTime + p
          /\ MaxBehind <= xLastTime /\ xTickCount < xLastTime
      BY <1>5, <2>1, <2>2, PerTimer DEF Wrapped, OnTime
    <2>4. due[t] > -MaxBehind
      BY <1>2, <2>2, <2>3 DEF Armed
    <2>5. p \in Int
      BY <2>2, PerTimer
    <2> HIDE DEF p, t, v
    <2> QED BY <2>1, <2>2, <2>3, <2>4, <2>5, Numbers
  <1>6. Switching /\ (Current \union Overflow # {} \/ Reloads) => xTickCount < xLastTime
    BY DEF Wrapped
  <1> QED BY <1>1, <1>3, <1>4, <1>5, <1>6

(* Only an expiry or a command ends the wait of the timer task. *)
LEMMA AwakeFacts ==
    ASSUME Awake
    PROVE  /\ pc = "blocked" => pc' = "receive" /\ wakeTime' = NoTime
           /\ pc # "blocked" => pc' = pc /\ wakeTime' = wakeTime
  BY DEF Awake

LEMMA TickCounts ==
    ASSUME TimeLine, Tick
    PROVE  /\ xTickCount' \in Ticks /\ xTickCount' \in Int
           /\ xTickCount' = IF xTickCount + 1 < TickMod THEN xTickCount + 1 ELSE 0
           /\ Sampled + 1 < TickMod => Sampled' = Sampled + 1
           /\ Since + 1 < TickMod => Since' = Since + 1
           /\ \A t \in Timers : /\ due[t] = Off => due'[t] = Off
                                /\ due[t] # Off => /\ due'[t] = due[t] - 1 /\ due'[t] # Off
                                                   /\ due[t] > -MaxBehind
                                                   /\ due'[t] >= -MaxBehind
                                                   /\ due'[t] \in -TickMod .. TickMod
           /\ Armed' = Armed
  <1> USE DEF TimeLine
  <1>1. xTickCount \in Ticks /\ xTickCount' = Add(xTickCount, 1)
        /\ UNCHANGED <<xLastTime, xTimeNow>>
    BY DEF Tick, Typed
  <1>2. xTickCount' \in Ticks
        /\ xTickCount' = IF xTickCount + 1 < TickMod THEN xTickCount + 1 ELSE 0
    BY <1>1, NextTick
  <1>3. Sampled' = Elapsed(xTickCount', xLastTime) /\ Since' = Elapsed(xTickCount', xTimeNow)
    BY <1>1 DEF Sampled, Since
  <1>4. xLastTime \in Ticks /\ xTimeNow \in Ticks
    BY DEF Typed
  <1>5. /\ Sampled' = IF xLastTime <= xTickCount' THEN xTickCount' - xLastTime
                                                  ELSE xTickCount' - xLastTime + TickMod
        /\ Since' = IF xTimeNow <= xTickCount' THEN xTickCount' - xTimeNow
                                               ELSE xTickCount' - xTimeNow + TickMod
    BY <1>2, <1>3, <1>4, Clock
  <1>6. Sampled + 1 < TickMod => Sampled' = Sampled + 1
    BY <1>2, <1>5, Numbers
  <1>7. Since + 1 < TickMod => Since' = Since + 1
    BY <1>2, <1>5, Numbers
  <1>8. ASSUME NEW t \in Timers
        PROVE  /\ due[t] = Off => due'[t] = Off
               /\ due[t] # Off => /\ due'[t] = due[t] - 1 /\ due'[t] # Off
                                  /\ due[t] > -MaxBehind /\ due'[t] >= -MaxBehind
                                  /\ due'[t] \in -TickMod .. TickMod
    <2>1. due'[t] = IF due[t] = Off THEN Off ELSE due[t] - 1
      BY DEF Tick
    <2>2. due[t] # Off => due[t] > -MaxBehind
      BY DEF Tick, KeepsUp, Armed
    <2> QED BY <2>1, <2>2, PerTimer, Numbers
  <1>9. Armed' = Armed
    BY <1>8 DEF Armed
  <1> QED BY <1>2, <1>6, <1>7, <1>8, <1>9, Numbers

LEMMA TickKeeps == InOneTime /\ Tick => InOneTime'
  <1> SUFFICES ASSUME InOneTime, Tick PROVE InOneTime'
    OBVIOUS
  <1> USE DEF InOneTime
  <1>a. Typed /\ Steady /\ Sorted /\ OnePlace /\ KeepTime /\ Wrapped
    BY DEF TimeLine
  <1>b. /\ UNCHANGED <<program, pxCurrentTimerList, pxOverflowTimerList, xTimerPeriodInTicks,
                       xTimerQueue, xLastTime, xTimeNow, after, xMessage, running, suspended,
                       life, stopped>>
        /\ pc # "assert" /\ ~ suspended /\ KeepsUp
        /\ IF xTickCount' = wakeTime THEN Awake ELSE UNCHANGED <<pc, wakeTime>>
    BY DEF Tick, listVars, Running
  <1>c. \/ pc' = pc /\ wakeTime' = wakeTime /\ (pc = "blocked" => xTickCount' # wakeTime)
        \/ pc = "blocked" /\ pc' = "receive" /\ wakeTime' = NoTime
        \/ pc # "blocked" /\ pc' = pc /\ wakeTime' = wakeTime
    BY <1>b, AwakeFacts
  <1>d. pc' = pc \/ (pc = "blocked" /\ pc' = "receive")
    BY <1>c
  <1>e. Current' = Current /\ Overflow' = Overflow /\ (\A t : OnList(t)' <=> OnList(t))
    BY <1>b DEF Current, Overflow, OnList
  <1>f. /\ Switching' <=> Switching
        /\ Reloading' <=> Reloading
        /\ Restarting' <=> Restarting
        /\ Pending' <=> Pending
        /\ Reloads' <=> Reloads
    BY <1>b, <1>d DEF Switching, Reloading, Restarting, Pending, Reloads
  <1>g. \A t \in Timers : due[t] # Off => /\ due'[t] = due[t] - 1 /\ due'[t] # Off
                                          /\ due'[t] >= -MaxBehind
    BY TickCounts
  <1>1. Typed'
    <2>1. due' \in [Timers -> (-TickMod .. TickMod) \union {Off}]
      <3>1. due' = [t \in Timers |-> IF due[t] = Off THEN Off ELSE due[t] - 1]
        BY DEF Tick
      <3>2. \A t \in Timers : (IF due[t] = Off THEN Off ELSE due[t] - 1)
                                  \in (-TickMod .. TickMod) \union {Off}
        BY <3>1, TickCounts
      <3> QED BY <3>1, <3>2
    <2>2. xTickCount' \in Ticks
      BY TickCounts
    <2>3. wakeTime' \in Ticks \union {NoTime}
      BY <1>a, <1>c DEF Typed
    <2> QED BY <1>a, <1>b, <1>d, <2>1, <2>2, <2>3 DEF Typed
  <1>2. Steady'
    BY <1>a, <1>b, <1>d, <1>f DEF Steady, AutoReload
  <1>3. Sorted'
    BY <1>a, <1>b DEF Sorted
  <1>4. OnePlace'
    BY <1>a, <1>b, <1>e, <1>f DEF OnePlace, Apart
  <1>5. KeepTime'
    <2>1. ASSUME NEW item \in Current \union Overflow, NEW left \in Int, OnTime(item.timer, left)
          PROVE  OnTime(item.timer, left)'
      <3>1. Sampled + 1 < TickMod
        BY <1>b, TickRoom
      <3>2. Sampled' = Sampled + 1
        BY <3>1, TickCounts
      <3>3. item.timer \in Timers
        BY <1>a, PerItem
      <3>4. /\ due[item.timer] # Off /\ due'[item.timer] = due[item.timer] - 1
            /\ due'[item.timer] # Off /\ due'[item.timer] >= -MaxBehind
            /\ due[item.timer] \in Int /\ Sampled \in Int
        BY <1>a, <1>g, <2>1, <3>3, PerTimer, Numbers DEF OnTime
      <3> QED BY <2>1, <3>2, <3>4 DEF OnTime
    <2>2. \A item \in Current' :
              item.value - xLastTime \in Int /\ OnTime(item.timer, item.value - xLastTime)'
      BY <1>a, <1>b, <1>e, <2>1, PerItem, Numbers DEF KeepTime
    <2>3. \A item \in Overflow' :
              item.value + TickMod - xLastTime \in Int
              /\ OnTime(item.timer, item.value + TickMod - xLastTime)'
      BY <1>a, <1>b, <1>e, <2>1, PerItem, Numbers DEF KeepTime
    <2>4. ~ Switching' /\ pc' # "assert" => ~ Switching /\ pc # "assert"
      BY <1>b, <1>f
    <2> QED BY <1>a, <1>b, <1>e, <2>2, <2>3, <2>4 DEF KeepTime
  <1>6. Wrapped'
    <2>1. Switching' /\ (Current' \union Overflow' # {} \/ Reloads') =>
              xTimeNow' <= xTickCount' /\ xTickCount' < xLastTime'
      <3> SUFFICES ASSUME Switching, Current \union Overflow # {} \/ Reloads
                   PROVE  xTimeNow <= xTickCount' /\ xTickCount' < xLastTime
        BY <1>b, <1>e, <1>f
      <3>1. xTickCount + 1 < xLastTime /\ xTimeNow <= xTickCount
        BY <1>a, <1>b, TickRoom DEF Wrapped
      <3> QED BY <1>a, <3>1, TickCounts, Numbers
    <2>2. Reloads => OnTime(running.timer, running.value - xLastTime
                                             + xTimerPeriodInTicks[running.timer])'
      <3> SUFFICES ASSUME Reloads PROVE OnTime(running.timer, running.value - xLastTime
                                             + xTimerPeriodInTicks[running.timer])'
        OBVIOUS
      <3> DEFINE t == running.timer
                 left == running.value - xLastTime + xTimerPeriodInTicks[t]
      <3>1. t \in Timers /\ running.value \in Int
        BY <1>a, BoundsAssumption DEF Steady, Reloads, ItemSet, Ticks
      <3>2. Sampled' = Sampled + 1
        BY <1>b, TickRoom, TickCounts
      <3>3. due[t] # Off /\ due[t] + Sampled = left /\ t' = t /\ left' = left
        BY <1>a, <1>b DEF Wrapped, OnTime
      <3>4. due'[t] = due[t] - 1 /\ due'[t] # Off /\ due'[t] >= -MaxBehind
        BY <1>g, <3>1, <3>3
      <3>5. due[t] \in Int /\ Sampled \in Int /\ left \in Int
        BY <1>a, <3>1, PerTimer, Numbers
      <3> HIDE DEF left, t
      <3>6. due'[t] + Sampled' = left
        BY <3>2, <3>3, <3>4, <3>5
      <3> QED BY <3>3, <3>4, <3>6 DEF OnTime, left, t
    <2> QED BY <1>a, <1>b, <1>e, <1>f, <2>1, <2>2 DEF Wrapped
  <1>7. InHand'
    <2> DEFINE t == xMessage.timer
    <2> SUFFICES ASSUME Pending PROVE InHand'
      BY <1>f DEF InHand
    <2>1. xMessage \in MessageSet /\ xMessage.id # "function"
      BY <1>a DEF Typed, Steady, Pending
    <2>2. t \in Timers /\ xMessage.value \in Ticks
          /\ (xMessage.id = "period" => xMessage.value \in Periods)
          /\ xMessage.id \in {"start", "reload", "period", "stop", "delete"}
      BY <2>1 DEF MessageSet, Commands
    <2>3. CASE xMessage.id \in {"stop", "delete"}
      <3>1. due[t] = Off /\ due'[t] = Off
        BY <2>2, <2>3, TickCounts DEF InHand
      <3> QED BY <1>b, <2>3, <3>1 DEF InHand
    <2>4. CASE xMessage.id \notin {"stop", "delete"}
      <3> DEFINE e == Elapsed(xTimeNow, xMessage.value)
                 p == IF xMessage.id = "period" THEN xMessage.value ELSE xTimerPeriodInTicks[t] - e
      <3>1. e \in Int /\ 0 <= e
        <4>1. xTimeNow \in Ticks
          BY <1>a DEF Typed
        <4>2. e \in Ticks
          BY <2>2, <4>1, Clock
        <4> QED BY <4>2, BoundsAssumption DEF Ticks
      <3>2. p \in Int /\ p + MaxBehind < TickMod
        BY <1>a, <2>2, <3>1, PeriodIsTick, PerTimer, Numbers
      <3>3. due[t] # Off /\ due[t] = p - Since
        BY <2>2, <2>4 DEF InHand
      <3>4. /\ due'[t] = due[t] - 1 /\ due'[t] # Off /\ due'[t] >= -MaxBehind
            /\ due[t] > -MaxBehind /\ due[t] \in Int
        BY <1>a, <2>2, <3>3, TickCounts, PerTimer
      <3> HIDE DEF e, p
      <3>5. Since + 1 < TickMod
        BY <1>a, <3>2, <3>3, <3>4, Numbers
      <3>6. Since' = Since + 1
        BY <3>5, TickCounts
      <3>7. due'[t] = p - Since'
        BY <1>a, <3>2, <3>3, <3>4, <3>6, Numbers
      <3> QED BY <1>b, <2>2, <2>4, <3>4, <3>7 DEF InHand, p, e
    <2> QED BY <2>3, <2>4
  <1>8. Accounted'
    BY <1>b, <1>e, <1>f, TickCounts DEF Accounted
  <1>9. Waits'
    <2> SUFFICES ASSUME pc' = "blocked" PROVE Waits'
      BY DEF Waits
    <2>1. pc = "blocked" /\ wakeTime' = wakeTime /\ xTickCount' # wakeTime
      BY <1>c
    <2>2. /\ xTimerQueue = <<>>
          /\ pxCurrentTimerList # <<>> =>
                /\ wakeTime = Head(pxCurrentTimerList).value
                /\ xLastTime <= xTickCount /\ xTickCount < wakeTime
          /\ pxCurrentTimerList = <<>> /\ pxOverflowTimerList # <<>> =>
                wakeTime = 0 /\ 0 < xTickCount /\ xLastTime <= xTickCount
      BY <2>1 DEF Waits
    <2>3. wakeTime \in Int /\ wakeTime < TickMod
      BY <1>a, Numbers DEF Typed, Ticks, NoTime
    <2>4. xTickCount' = IF xTickCount + 1 < TickMod THEN xTickCount + 1 ELSE 0
      BY TickCounts
    <2>5. pxCurrentTimerList # <<>> => xLastTime <= xTickCount' /\ xTickCount' < wakeTime
      BY <1>a, <2>1, <2>2, <2>3, <2>4, Numbers
    <2>6. pxCurrentTimerList = <<>> /\ pxOverflowTimerList # <<>> =>
                wakeTime = 0 /\ 0 < xTickCount' /\ xLastTime <= xTickCount'
      BY <1>a, <2>1, <2>2, <2>4, Numbers
    <2> QED BY <1>b, <2>1, <2>2, <2>5, <2>6 DEF Waits
  <1>10. DeletesLast'
    BY <1>b, <1>e, <1>f DEF DeletesLast
  <1> QED BY <1>1, <1>2, <1>3, <1>4, <1>5, <1>6, <1>7, <1>8, <1>9, <1>10 DEF TimeLine

-----------------------------------------------------------------------------
(* Commands are sent. *)

(* What is sent: no start, and no new period, for a timer that is deleted. *)
LEMMA SendableFacts ==
    ASSUME Typed, NEW issued \in Ticks, NEW m \in Sendable(issued)
    PROVE  /\ m \in MessageSet
           /\ m.timer # NoTimer => life[m.timer] = "created"
           /\ m.id = "delete" => "delete" \in program.calls
  <1>1. program \in Programs
    BY DEF Typed
  <1>2. 0 \in Ticks /\ \A p \in program.periods : p \in Periods /\ p \in Ticks
    BY <1>1, ProgramFacts, PeriodIsTick, BoundsAssumption DEF Ticks
  <1>3. program.calls \subseteq Commands \union {"function"}
    BY <1>1, ProgramFacts
  <1>4. CASE m \in {Message("function", NoTimer, 0) : c \in program.calls \intersect {"function"}}
    <2>1. m = [id |-> "function", timer |-> NoTimer, value |-> 0]
      BY <1>4 DEF Message
    <2> QED BY <1>2, <2>1 DEF MessageSet
  <1>5. CASE m \in [id : program.calls \ {"function"}, timer : Timers,
                    value : {0, issued} \union program.periods]
    <2>1. /\ m.id \in program.calls /\ m.id \in Commands /\ m.timer \in Timers /\ m.timer # NoTimer
          /\ m.value \in Ticks /\ m.id # "function"
      BY <1>2, <1>3, <1>5, TimersAssumption
    <2>2. m \notin {Message("function", NoTimer, 0) : c \in program.calls \intersect {"function"}}
      BY <2>1 DEF Message
    <2>3. life[m.timer] = "created"
          /\ m.value \in CASE m.id = "start" -> {issued}
                           [] m.id = "period" -> program.periods
                           [] OTHER -> {0}
      BY <2>2 DEF Sendable
    <2>4. m.id = "period" => m.value \in Periods
      BY <1>2, <2>3
    <2>5. m \in [id : Commands \union {"reload", "function"}, timer : Timers \union {NoTimer},
                 value : Ticks]
      BY <1>2, <1>3, <1>5
    <2> QED BY <2>1, <2>3, <2>4, <2>5 DEF MessageSet
  <1> QED BY <1>4, <1>5 DEF Sendable

LEMMA AppendedMessages ==
    ASSUME NEW q \in Seq(MessageSet), NEW m \in MessageSet
    PROVE  /\ Append(q, m) \in Seq(MessageSet) /\ Len(Append(q, m)) = Len(q) + 1
           /\ ToSet(Append(q, m)) = ToSet(q) \union {m} /\ Append(q, m) # <<>>
           /\ DOMAIN Append(q, m) = 1..Len(q) + 1 /\ DOMAIN q = 1..Len(q) /\ Len(q) \in Nat
           /\ \A i \in 1..Len(q) : Append(q, m)[i] = q[i]
           /\ Append(q, m)[Len(q) + 1] = m
  <1>1. ToSet(Append(q, m)) = ToSet(q) \union {m}
    BY AppendFacts DEF ToSet, Range
  <1> QED BY <1>1

(* What a command that arrives changes in the queue and in the lives. *)
LEMMA SendFacts ==
    ASSUME Typed, DeletesLast, NEW issued \in Ticks, NEW m \in Sendable(issued), Send(m),
           UNCHANGED <<program, pxCurrentTimerList, pxOverflowTimerList, xMessage>>
    PROVE  /\ xTimerQueue' \in Seq(MessageSet) /\ Len(xTimerQueue') <= QueueLength
           /\ life' \in [Timers -> {"created", "deleting", "freed"}]
           /\ ToSet(xTimerQueue) \subseteq ToSet(xTimerQueue') /\ xTimerQueue' # <<>>
           /\ DeletesLast'
  <1>1. /\ m \in MessageSet
        /\ m.timer # NoTimer => life[m.timer] = "created"
        /\ m.id = "delete" => "delete" \in program.calls
    BY SendableFacts
  <1>2. /\ xTimerQueue \in Seq(MessageSet) /\ xTimerQueue' = Append(xTimerQueue, m)
        /\ Len(xTimerQueue) < QueueLength /\ QueueLength \in Nat
    BY BoundsAssumption DEF Typed, Send, Room
  <1>3. /\ xTimerQueue' \in Seq(MessageSet) /\ Len(xTimerQueue') <= QueueLength
        /\ ToSet(xTimerQueue') = ToSet(xTimerQueue) \union {m} /\ xTimerQueue' # <<>>
    BY <1>1, <1>2, AppendedMessages
  <1>4. life' = IF m.id = "delete" THEN [life EXCEPT ![m.timer] = "deleting"] ELSE life
    BY DEF Send
  <1>5. m.id = "delete" => m.timer \in Timers
    BY <1>1 DEF MessageSet
  <1>6. life \in [Timers -> {"created", "deleting", "freed"}]
    BY DEF Typed
  <1>7. life' \in [Timers -> {"created", "deleting", "freed"}]
    BY <1>4, <1>5, <1>6
  <1>8. \A t \in Timers : life'[t] = IF m.id = "delete" /\ t = m.timer THEN "deleting" ELSE life[t]
    BY <1>4, <1>5, <1>6
  <1>9. \A t \in Timers : OnList(t)' <=> OnList(t)
    BY DEF OnList, Current, Overflow
  <1>10. Pending' <=> Pending
    BY DEF Pending
  <1>11. \A n \in ToSet(xTimerQueue) : n \in MessageSet /\ (n.id # "function" => n.timer \in Timers)
    <2>1. \A n \in ToSet(xTimerQueue) : n \in MessageSet
      BY <1>2 DEF ToSet
    <2> QED BY <2>1 DEF MessageSet
  <1>12. DeletesLast'
    <2>1. "delete" \notin program'.calls => \A t \in Timers : life'[t] = "created"
      BY <1>1, <1>8 DEF DeletesLast
    <2>2. \A t \in Timers : life'[t] = "freed" =>
              /\ ~ OnList(t)'
              /\ \A n \in ToSet(xTimerQueue') : n.timer # t
              /\ Pending' => xMessage'.timer # t
      <3> SUFFICES ASSUME NEW t \in Timers, life'[t] = "freed"
                   PROVE  /\ ~ OnList(t)'
                          /\ \A n \in ToSet(xTimerQueue') : n.timer # t
                          /\ Pending' => xMessage'.timer # t
        OBVIOUS
      <3>1. life[t] = "freed" /\ m.timer # t
        BY <1>1, <1>8, TimersAssumption
      <3> QED BY <1>3, <1>9, <1>10, <3>1 DEF DeletesLast
    <2>3. \A n \in ToSet(xTimerQueue') : n.id = "delete" => life'[n.timer] = "deleting"
      <3> SUFFICES ASSUME NEW n \in ToSet(xTimerQueue'), n.id = "delete"
                   PROVE  life'[n.timer] = "deleting"
        OBVIOUS
      <3>1. CASE n = m
        BY <1>5, <1>8, <3>1
      <3>2. CASE n \in ToSet(xTimerQueue)
        <4>1. n.timer \in Timers /\ life[n.timer] = "deleting"
          BY <1>11, <3>2 DEF DeletesLast
        <4> QED BY <1>8, <4>1
      <3> QED BY <1>3, <3>1, <3>2
    <2>4. \A i, j \in DOMAIN xTimerQueue' : i < j /\ xTimerQueue'[i].id = "delete" =>
              xTimerQueue'[j].timer # xTimerQueue'[i].timer
      <3> SUFFICES ASSUME NEW i \in DOMAIN xTimerQueue', NEW j \in DOMAIN xTimerQueue', i < j,
                          xTimerQueue'[i].id = "delete"
                   PROVE  xTimerQueue'[j].timer # xTimerQueue'[i].timer
        OBVIOUS
      <3> DEFINE n == Len(xTimerQueue)
      <3>1. /\ DOMAIN xTimerQueue' = 1..n + 1 /\ DOMAIN xTimerQueue = 1..n /\ n \in Nat
            /\ \A k \in 1..n : xTimerQueue'[k] = xTimerQueue[k]
            /\ xTimerQueue'[n + 1] = m
        BY <1>1, <1>2, AppendedMessages
      <3> HIDE DEF n
      <3>2. i \in DOMAIN xTimerQueue /\ xTimerQueue'[i] = xTimerQueue[i]
        BY <3>1
      <3>3. CASE j \in DOMAIN xTimerQueue
        BY <3>1, <3>2, <3>3 DEF DeletesLast
      <3>4. CASE j \notin DOMAIN xTimerQueue
        <4>1. xTimerQueue'[j] = m
          BY <3>1, <3>4
        <4>2. xTimerQueue[i] \in ToSet(xTimerQueue) /\ xTimerQueue[i].id = "delete"
          BY <3>2 DEF ToSet
        <4>3. life[xTimerQueue[i].timer] = "deleting" /\ xTimerQueue[i].timer \in Timers
          BY <1>11, <4>2 DEF DeletesLast
        <4> QED BY <1>1, <3>2, <4>1, <4>3, TimersAssumption
      <3> QED BY <3>3, <3>4
    <2>5. xMessage'.id = "delete" =>
              /\ life'[xMessage'.timer] = "deleting"
              /\ \A n \in ToSet(xTimerQueue') : n.timer # xMessage'.timer
      <3> SUFFICES ASSUME xMessage.id = "delete"
                   PROVE  /\ life'[xMessage.timer] = "deleting"
                          /\ \A n \in ToSet(xTimerQueue') : n.timer # xMessage.timer
        OBVIOUS
      <3>1. xMessage \in MessageSet
        BY DEF Typed, NoMessage
      <3>2. xMessage.timer \in Timers
        BY <3>1 DEF MessageSet
      <3>3. life[xMessage.timer] = "deleting"
            /\ \A n \in ToSet(xTimerQueue) : n.timer # xMessage.timer
        BY DEF DeletesLast
      <3>4. m.timer # xMessage.timer
        BY <1>1, <3>2, <3>3, TimersAssumption
      <3> QED BY <1>3, <1>8, <3>2, <3>3, <3>4
    <2> QED BY <2>1, <2>2, <2>3, <2>4, <2>5 DEF DeletesLast
  <1> QED BY <1>3, <1>7, <1>12

(* A step that leaves the lists, the clocks and what is due alone keeps the *)
(* time line, wherever the timer task goes on.                              *)
StandStill ==
    UNCHANGED <<program, xTickCount, pxCurrentTimerList, pxOverflowTimerList,
                xTimerPeriodInTicks, xLastTime, xTimeNow, xMessage, due>>

LEMMA StillFacts ==
    ASSUME StandStill
    PROVE  /\ Current' = Current /\ Overflow' = Overflow /\ (\A t : OnList(t)' <=> OnList(t))
           /\ Sampled' = Sampled /\ Since' = Since /\ Armed' = Armed
           /\ Pending' <=> Pending
           /\ \A t, left : OnTime(t, left)' <=> OnTime(t, left)
           /\ \A t : AutoReload(t)' <=> AutoReload(t)
           /\ Sorted' <=> Sorted
  BY DEF StandStill, Current, Overflow, OnList, Sampled, Since, Armed, Pending, OnTime,
         AutoReload, Sorted

LEMMA StillKeeps ==
    ASSUME InOneTime, StandStill, Typed', Steady', pc # "assert",
           Switching' <=> Switching, Reloading' <=> Reloading, Restarting' <=> Restarting,
           Reloading \/ Restarting => running' = running,
           \A m \in ToSet(xTimerQueue) : m.id = "reload" => m \in ToSet(xTimerQueue')
    PROVE  TimeLine' /\ InHand' /\ Accounted'
  <1>a. Typed /\ Steady /\ Sorted /\ OnePlace /\ KeepTime /\ Wrapped /\ InHand /\ Accounted
    BY DEF InOneTime, TimeLine
  <1>b. /\ Current' = Current /\ Overflow' = Overflow /\ (\A t : OnList(t)' <=> OnList(t))
        /\ Sampled' = Sampled /\ Since' = Since /\ Armed' = Armed
        /\ Pending' <=> Pending
        /\ \A t, left : OnTime(t, left)' <=> OnTime(t, left)
        /\ Sorted' <=> Sorted
    BY StillFacts
  <1>c. UNCHANGED <<program, xTickCount, pxCurrentTimerList, pxOverflowTimerList,
                    xTimerPeriodInTicks, xLastTime, xTimeNow, xMessage, due>>
    BY DEF StandStill
  <1>d. Reloads' <=> Reloads
    BY <1>c DEF Reloads
  <1>1. OnePlace'
    BY <1>a, <1>b, <1>c DEF OnePlace, Apart
  <1>2. KeepTime'
    BY <1>a, <1>b, <1>c DEF KeepTime
  <1>3. Wrapped'
    <2>1. Reloads => /\ Reloading /\ running' = running
                     /\ OnTime(running.timer, running.value - xLastTime
                                                + xTimerPeriodInTicks[running.timer])'
      <3> SUFFICES ASSUME Reloads
                   PROVE  Reloading /\ running' = running
                          /\ OnTime(running.timer, running.value - xLastTime
                                                     + xTimerPeriodInTicks[running.timer])'
        OBVIOUS
      <3>1. Reloading /\ running' = running
        BY DEF Reloads
      <3>2. OnTime(running.timer, running.value - xLastTime
                                    + xTimerPeriodInTicks[running.timer])
        BY <1>a DEF Wrapped
      <3> QED BY <1>b, <1>c, <3>1, <3>2 DEF OnTime
    <2> QED BY <1>a, <1>b, <1>c, <1>d, <2>1 DEF Wrapped
  <1>4. InHand'
    BY <1>a, <1>b, <1>c DEF InHand
  <1>5. Accounted'
    BY <1>a, <1>b, <1>c DEF Accounted
  <1> QED BY <1>a, <1>b, <1>1, <1>2, <1>3, <1>4, <1>5 DEF TimeLine

LEMMA SendKeeps ==
    ASSUME InOneTime, pc # "assert", Awake, NEW issued \in Ticks, NEW m \in Sendable(issued),
           Send(m),
           UNCHANGED <<program, xTickCount, listVars, xTimerPeriodInTicks, xLastTime,
                       xTimeNow, after, xMessage, running, suspended, promiseVars>>
    PROVE  InOneTime'
  <1>a. Typed /\ Steady /\ DeletesLast
    BY DEF InOneTime, TimeLine
  <1>b. StandStill /\ UNCHANGED <<after, running, suspended>>
    BY DEF StandStill, listVars, promiseVars
  <1>c. /\ xTimerQueue' \in Seq(MessageSet) /\ Len(xTimerQueue') <= QueueLength
        /\ life' \in [Timers -> {"created", "deleting", "freed"}]
        /\ ToSet(xTimerQueue) \subseteq ToSet(xTimerQueue')
        /\ DeletesLast'
    BY <1>a, <1>b, SendFacts DEF StandStill
  <1>d. /\ pc = "blocked" => pc' = "receive" /\ wakeTime' = NoTime
        /\ pc # "blocked" => pc' = pc /\ wakeTime' = wakeTime
    BY AwakeFacts
  <1>1. Typed'
    BY <1>a, <1>b, <1>c, <1>d DEF Typed, StandStill
  <1>2. /\ Switching' <=> Switching
        /\ Reloading' <=> Reloading
        /\ Restarting' <=> Restarting
        /\ Pending' <=> Pending
    BY <1>b, <1>d DEF Switching, Reloading, Restarting, Pending, StandStill
  <1>3. Steady'
    BY <1>a, <1>b, <1>d, <1>2 DEF Steady, AutoReload, StandStill
  <1>4. Waits'
    BY <1>d DEF Waits
  <1> QED BY <1>1, <1>2, <1>3, <1>4, <1>b, <1>c, StillKeeps DEF InOneTime

LEMMA SendFromISRKeeps == InOneTime /\ SendFromISR => InOneTime'
  <1> SUFFICES ASSUME InOneTime, SendFromISR PROVE InOneTime'
    OBVIOUS
  <1>1. PICK m \in Sendable(xTickCount) : Send(m)
    BY DEF SendFromISR
  <1>2. xTickCount \in Ticks
    BY DEF InOneTime, TimeLine, Typed
  <1> QED BY <1>1, <1>2, SendKeeps DEF SendFromISR, Running

LEMMA SendFromTaskKeeps == InOneTime /\ SendFromTask => InOneTime'
  <1> SUFFICES ASSUME InOneTime, SendFromTask PROVE InOneTime'
    OBVIOUS
  <1>1. PICK late \in 0 .. MaxBehind : \E m \in Sendable(Elapsed(xTickCount, late)) : Send(m)
    BY DEF SendFromTask
  <1>2. xTickCount \in Ticks
    BY DEF InOneTime, TimeLine, Typed
  <1>3. late \in Ticks
    BY BoundsAssumption DEF Ticks
  <1>4. Elapsed(xTickCount, late) \in Ticks
    BY <1>2, <1>3, Clock
  <1> QED BY <1>1, <1>4, SendKeeps DEF SendFromTask

LEMMA CreateKeeps ==
    ASSUME InOneTime, NEW t \in Timers, xTimerCreate(t)
    PROVE  InOneTime'
  <1>a. Typed /\ Steady /\ Sorted /\ OnePlace /\ KeepTime /\ Wrapped /\ InHand /\ Accounted
        /\ Waits /\ DeletesLast
    BY DEF InOneTime, TimeLine
  <1>b. /\ UNCHANGED <<program, xTickCount, pxCurrentTimerList, pxOverflowTimerList, xTimerQueue,
                       xLastTime, xTimeNow, pc, after, xMessage, running, suspended, wakeTime,
                       due>>
        /\ pc = "blocked" /\ life[t] = "freed"
        /\ life' = [life EXCEPT ![t] = "created"]
        /\ xTimerPeriodInTicks' = [xTimerPeriodInTicks EXCEPT ![t] = program.period[t]]
    BY DEF xTimerCreate, listVars, taskVars, promiseVars
  <1>c. /\ Current' = Current /\ Overflow' = Overflow /\ (\A u : OnList(u)' <=> OnList(u))
        /\ Sampled' = Sampled /\ Since' = Since /\ Armed' = Armed
        /\ \A u, left : OnTime(u, left)' <=> OnTime(u, left)
    BY <1>b DEF Current, Overflow, OnList, Sampled, Since, Armed, OnTime
  <1>d. ~ Switching /\ ~ Reloading /\ ~ Restarting /\ ~ Reloads /\ ~ Pending
    BY <1>a, <1>b DEF Switching, Reloading, Restarting, Reloads, Steady
  <1>e. ~ Switching' /\ ~ Reloading' /\ ~ Restarting' /\ ~ Reloads' /\ ~ Pending'
    BY <1>b, <1>d DEF Switching, Reloading, Restarting, Reloads, Pending
  <1>f. \A item \in Current \union Overflow :
            xTimerPeriodInTicks'[item.timer] = xTimerPeriodInTicks[item.timer]
    <2>1. \A item \in Current \union Overflow : item.timer # t /\ item.timer \in Timers
      BY <1>a, <1>b, PerItem DEF DeletesLast, OnList
    <2> QED BY <1>a, <1>b, <2>1 DEF Typed
  <1>1. Typed'
    <2>1. program.period \in [Timers -> Periods]
      BY <1>a, ProgramFacts DEF Typed
    <2>2. xTimerPeriodInTicks' \in [Timers -> Periods]
          /\ life' \in [Timers -> {"created", "deleting", "freed"}]
      BY <1>a, <1>b, <2>1 DEF Typed
    <2> QED BY <1>a, <1>b, <2>2 DEF Typed
  <1>2. Steady'
    BY <1>a, <1>b, <1>d, <1>e DEF Steady
  <1>3. Sorted' /\ OnePlace'
    BY <1>a, <1>b, <1>c, <1>e DEF Sorted, OnePlace, Apart
  <1>4. KeepTime'
    BY <1>a, <1>b, <1>c, <1>d, <1>f DEF KeepTime
  <1>5. Wrapped' /\ InHand'
    BY <1>e DEF Wrapped, InHand
  <1>6. Accounted' /\ Waits'
    BY <1>a, <1>b, <1>c, <1>d, <1>e DEF Accounted, Waits
  <1>7. DeletesLast'
    <2>1. \A u \in Timers : life'[u] = IF u = t THEN "created" ELSE life[u]
      BY <1>a, <1>b DEF Typed
    <2>2. \A m \in ToSet(xTimerQueue) : m.timer # t /\ (m.id = "delete" => m.timer \in Timers)
      <3>1. \A m \in ToSet(xTimerQueue) : m \in MessageSet
        BY <1>a DEF Typed, ToSet
      <3> QED BY <1>a, <1>b, <3>1 DEF DeletesLast, MessageSet
    <2>3. xMessage.id # "delete"
      BY <1>d DEF Pending, NoMessage
    <2> QED BY <1>a, <1>b, <1>c, <1>e, <2>1, <2>2, <2>3 DEF DeletesLast
  <1> QED BY <1>1, <1>2, <1>3, <1>4, <1>5, <1>6, <1>7 DEF InOneTime, TimeLine

-----------------------------------------------------------------------------
(* The timer task between two commands. *)

LEMMA NoMoreCommandsKeeps == InOneTime /\ NoMoreCommands => InOneTime'
  <1> SUFFICES ASSUME InOneTime, NoMoreCommands PROVE InOneTime'
    OBVIOUS
  <1>a. Typed /\ Steady /\ DeletesLast
    BY DEF InOneTime, TimeLine
  <1>b. /\ StandStill /\ UNCHANGED <<xTimerQueue, after, running, suspended, wakeTime, life>>
        /\ pc = "receive" /\ pc' = "query"
    BY DEF NoMoreCommands, StandStill, listVars, promiseVars
  <1>c. /\ ~ Switching /\ ~ Reloading /\ ~ Restarting
        /\ ~ Switching' /\ ~ Reloading' /\ ~ Restarting'
        /\ Pending' <=> Pending
    BY <1>b DEF Switching, Reloading, Restarting, Pending, StandStill
  <1>1. Typed'
    BY <1>a, <1>b DEF Typed, StandStill
  <1>2. Steady'
    BY <1>a, <1>b, <1>c DEF Steady, StandStill
  <1>3. Waits'
    BY <1>b DEF Waits
  <1>4. DeletesLast'
    BY <1>a, <1>b, <1>c, StillFacts DEF DeletesLast, StandStill
  <1> QED BY <1>1, <1>2, <1>3, <1>4, <1>b, <1>c, StillKeeps DEF InOneTime

LEMMA CallbackKeeps == InOneTime /\ Callback => InOneTime'
  <1> SUFFICES ASSUME InOneTime, Callback PROVE InOneTime'
    OBVIOUS
  <1>a. Typed /\ Steady /\ DeletesLast
    BY DEF InOneTime, TimeLine
  <1>b. /\ StandStill /\ UNCHANGED <<suspended, wakeTime>>
        /\ pc = "callback" /\ pc' = after /\ after' = "receive"
        /\ running' = IF after \in {"reload", "restart"} THEN running ELSE NoItem
    BY DEF Callback, StandStill, listVars, promiseVars
  <1>c. /\ xTimerQueue' \in Seq(MessageSet) /\ Len(xTimerQueue') <= QueueLength
        /\ life' \in [Timers -> {"created", "deleting", "freed"}]
        /\ ToSet(xTimerQueue) \subseteq ToSet(xTimerQueue')
        /\ DeletesLast'
    <2>1. CASE UNCHANGED <<xTimerQueue, life>>
      <3>1. DeletesLast'
        BY <1>a, <1>b, <2>1, StillFacts DEF DeletesLast, StandStill
      <3> QED BY <1>a, <2>1, <3>1 DEF Typed
    <2>2. CASE \E m \in Sendable(xTickCount) : Send(m)
      <3>1. PICK m \in Sendable(xTickCount) : Send(m)
        BY <2>2
      <3> QED BY <1>a, <1>b, <3>1, SendFacts DEF StandStill, Typed
    <2> QED BY <2>1, <2>2 DEF Callback
  <1>d. /\ Switching' <=> Switching
        /\ Reloading' <=> Reloading
        /\ Restarting' <=> Restarting
        /\ Pending' <=> Pending
    BY <1>a, <1>b DEF Switching, Reloading, Restarting, Pending, StandStill, Typed
  <1>1. Typed'
    BY <1>a, <1>b, <1>c DEF Typed, StandStill
  <1>2. after \in {"receive", "switch", "reload", "restart"}
    BY <1>a DEF Typed
  <1>3. Reloading \/ Restarting => running' = running
    BY <1>b DEF Reloading, Restarting
  <1>4. Steady'
    <2>1. Reloading' => running' \in ItemSet /\ AutoReload(running.timer)'
      BY <1>a, <1>b, <1>d, <1>3 DEF Steady, AutoReload, StandStill
    <2>2. Restarting' => running' \in ItemSet /\ AutoReload(running.timer)'
      BY <1>a, <1>b, <1>d, <1>3 DEF Steady, AutoReload, StandStill
    <2>3. pc' \notin {"callback", "reload", "restart", "assert"} => running' = NoItem
      BY <1>b
    <2>4. pc' \notin {"handle", "expired", "assert", "callback"}
      BY <1>b, <1>2
    <2>5. /\ Pending' => pc' \in {"handle", "assert"} \/ Switching'
          /\ Pending' => xMessage'.id # "function"
          /\ Switching' => (Pending' <=> ~suspended')
          /\ suspended' => Switching'
      BY <1>a, <1>b, <1>d DEF Steady, StandStill
    <2>6. ~ Switching' /\ pc' # "assert" => xLastTime' = xTimeNow'
      BY <1>a, <1>b, <1>d DEF Steady, StandStill
    <2> QED BY <1>b, <2>1, <2>2, <2>3, <2>4, <2>5, <2>6 DEF Steady, AutoReload
  <1>5. Waits'
    BY <1>b, <1>2 DEF Waits
  <1> QED BY <1>1, <1>3, <1>4, <1>5, <1>b, <1>c, <1>d, StillKeeps DEF InOneTime

(* A sample is the present, and the lists' time as well unless the counter  *)
(* has wrapped.                                                             *)
LEMMA SampleFacts ==
    ASSUME Typed, NEW next, Sample(next), xTickCount' = xTickCount
    PROVE  /\ xTimeNow' = xTickCount /\ Since' = 0
           /\ xTimeNow' \in Ticks /\ xLastTime' \in Ticks
           /\ \/ /\ xTickCount < xLastTime /\ pc' = "switch"
                 /\ xLastTime' = xLastTime /\ Sampled' = Sampled
              \/ /\ xLastTime <= xTickCount /\ pc' = next /\ xLastTime' = xTickCount
                 /\ Sampled' = 0 /\ Sampled = xTickCount - xLastTime
                 /\ xLastTime' = xTimeNow'
  <1>1. /\ xTimeNow' = xTickCount
        /\ \/ xTickCount < xLastTime /\ pc' = "switch" /\ xLastTime' = xLastTime
           \/ ~ (xTickCount < xLastTime) /\ pc' = next /\ xLastTime' = xTickCount
    BY DEF Sample
  <1>2. xTickCount \in Ticks /\ xLastTime \in Ticks
    BY DEF Typed
  <1>3. Since' = Elapsed(xTickCount, xTickCount) /\ Sampled' = Elapsed(xTickCount, xLastTime')
    BY <1>1 DEF Since, Sampled
  <1>4. Elapsed(xTickCount, xTickCount) = 0
    BY <1>2, Clock, Numbers
  <1> QED BY <1>1, <1>2, <1>3, <1>4, Numbers DEF Sampled

(* A sample without a wrap moves the whole time line. *)
LEMMA Resampled ==
    ASSUME Typed, KeepTime, pc # "assert", ~ Switching,
           xLastTime <= xTickCount, xLastTime' = xTickCount, Sampled' = 0,
           Sampled = xTickCount - xLastTime, xTimerPeriodInTicks' = xTimerPeriodInTicks,
           Current' \subseteq Current, Overflow' \subseteq Overflow,
           \A item \in Current' \union Overflow' : due'[item.timer] = due[item.timer]
    PROVE  KeepTime'
  <1>1. /\ xTickCount \in Int /\ xLastTime \in Int /\ TickMod \in Int
    BY Numbers
  <1>2. ASSUME NEW t \in Timers, NEW left \in Int, OnTime(t, left), due'[t] = due[t]
        PROVE  /\ due'[t] # Off /\ due'[t] >= -MaxBehind
               /\ due'[t] + Sampled' = left - (xTickCount - xLastTime)
    <2>1. due[t] \in Int /\ due[t] # Off /\ due[t] + Sampled = left /\ due[t] >= -MaxBehind
      BY <1>2, PerTimer DEF OnTime
    <2>2. due[t] + 0 = left - (xTickCount - xLastTime)
      BY <1>1, <2>1
    <2>3. due'[t] + Sampled' = left - (xTickCount - xLastTime)
      BY <1>2, <2>2
    <2> QED BY <1>2, <2>1, <2>3
  <1>3. ASSUME NEW item \in Current'
        PROVE  /\ OnTime(item.timer, item.value - xLastTime)'
               /\ item.value - xLastTime' <= xTimerPeriodInTicks[item.timer]
    <2>1. /\ item.timer \in Timers /\ item.value \in Int
          /\ xTimerPeriodInTicks[item.timer] \in Int
      BY PerItem, PerTimer
    <2>2. /\ OnTime(item.timer, item.value - xLastTime)
          /\ item.value - xLastTime <= xTimerPeriodInTicks[item.timer]
      BY DEF KeepTime
    <2>3. item.value - xLastTime - (xTickCount - xLastTime) = item.value - xLastTime'
      BY <1>1, <2>1
    <2>4. item.value - xLastTime' <= xTimerPeriodInTicks[item.timer]
      BY <1>1, <2>1, <2>2
    <2>5. /\ due'[item.timer] # Off /\ due'[item.timer] >= -MaxBehind
          /\ due'[item.timer] + Sampled' = item.value - xLastTime - (xTickCount - xLastTime)
      BY <1>1, <1>2, <2>1, <2>2
    <2> QED BY <2>3, <2>4, <2>5 DEF OnTime
  <1>4. ASSUME NEW item \in Overflow'
        PROVE  /\ OnTime(item.timer, item.value + TickMod - xLastTime)'
               /\ item.value + TickMod - xLastTime' <= xTimerPeriodInTicks[item.timer]
    <2>1. /\ item.timer \in Timers /\ item.value \in Int
          /\ xTimerPeriodInTicks[item.timer] \in Int
      BY PerItem, PerTimer
    <2>2. /\ OnTime(item.timer, item.value + TickMod - xLastTime)
          /\ item.value + TickMod - xLastTime <= xTimerPeriodInTicks[item.timer]
      BY DEF KeepTime
    <2>3. item.value + TickMod - xLastTime - (xTickCount - xLastTime)
              = item.value + TickMod - xLastTime'
      BY <1>1, <2>1
    <2>4. item.value + TickMod - xLastTime' <= xTimerPeriodInTicks[item.timer]
      BY <1>1, <2>1, <2>2
    <2>5. /\ due'[item.timer] # Off /\ due'[item.timer] >= -MaxBehind
          /\ due'[item.timer] + Sampled'
                 = item.value + TickMod - xLastTime - (xTickCount - xLastTime)
      BY <1>1, <1>2, <2>1, <2>2
    <2> QED BY <2>3, <2>4, <2>5 DEF OnTime
  <1> QED BY <1>3, <1>4 DEF KeepTime

(* The next expiry. *)
LEMMA ProcessTimerOrBlockKeeps == InOneTime /\ ProcessTimerOrBlock => InOneTime'
  <1> SUFFICES ASSUME InOneTime, ProcessTimerOrBlock PROVE InOneTime'
    OBVIOUS
  <1>a. Typed /\ Steady /\ Sorted /\ OnePlace /\ KeepTime /\ Wrapped /\ InHand /\ Accounted
        /\ Waits /\ DeletesLast
    BY DEF InOneTime, TimeLine
  <1> DEFINE listWasEmpty == pxCurrentTimerList = <<>>
             next == IF listWasEmpty THEN 0 ELSE Head(pxCurrentTimerList).value
             wait == IF next = xTickCount THEN Add(next, 1) ELSE next
  <1>b. /\ pc = "query"
        /\ UNCHANGED <<program, xTickCount, pxCurrentTimerList, pxOverflowTimerList,
                       xTimerPeriodInTicks, xTimerQueue, after, xMessage, running, life, due>>
        /\ suspended' = (xTickCount < xLastTime)
        /\ \/ /\ ~listWasEmpty /\ next <= xTickCount
              /\ Sample("expired")
              /\ UNCHANGED wakeTime
           \/ /\ listWasEmpty \/ next > xTickCount
              /\ Sample(IF xTimerQueue = <<>> THEN "blocked" ELSE "receive")
              /\ wakeTime' = IF pc' = "blocked" /\ Active # {} THEN wait ELSE NoTime
    BY DEF ProcessTimerOrBlock, listVars, promiseVars
  <1>c. /\ ~ Switching /\ ~ Reloading /\ ~ Restarting /\ ~ Pending
        /\ after = "receive" /\ running = NoItem
    BY <1>a, <1>b DEF Switching, Reloading, Restarting, Steady
  <1>d. /\ Current' = Current /\ Overflow' = Overflow /\ (\A t : OnList(t)' <=> OnList(t))
        /\ Armed' = Armed /\ ~ Pending'
    BY <1>b, <1>c DEF Current, Overflow, OnList, Armed, Pending
  <1>e. \E place \in {"expired", "blocked", "receive"} : Sample(place)
            /\ (place = "expired" => ~listWasEmpty /\ next <= xTickCount)
            /\ (place # "expired" => listWasEmpty \/ next > xTickCount)
            /\ (place = "blocked" => xTimerQueue = <<>>)
            /\ (pc' = "blocked" /\ Active # {} /\ place # "expired" => wakeTime' = wait)
            /\ wakeTime' \in {wakeTime, wait, NoTime}
    <2> HIDE DEF wait, next, listWasEmpty
    <2> QED BY <1>b
  <1>f. PICK place \in {"expired", "blocked", "receive"} : Sample(place)
            /\ (place = "expired" => ~listWasEmpty /\ next <= xTickCount)
            /\ (place # "expired" => listWasEmpty \/ next > xTickCount)
            /\ (place = "blocked" => xTimerQueue = <<>>)
            /\ (pc' = "blocked" /\ Active # {} /\ place # "expired" => wakeTime' = wait)
            /\ wakeTime' \in {wakeTime, wait, NoTime}
    BY <1>e
  <1>g. next \in Ticks /\ wait \in Ticks
    <2>1. 0 \in Ticks
      BY BoundsAssumption DEF Ticks
    <2>2. ~listWasEmpty => Head(pxCurrentTimerList) \in ItemSet
      BY <1>a DEF Typed
    <2>3. next \in Ticks
      BY <2>1, <2>2 DEF ItemSet
    <2> HIDE DEF next
    <2> QED BY <2>3, NextTick
  <1>h. /\ xTimeNow' = xTickCount /\ xTimeNow' \in Ticks /\ xLastTime' \in Ticks
        /\ \/ /\ xTickCount < xLastTime /\ pc' = "switch"
              /\ xLastTime' = xLastTime /\ Sampled' = Sampled
           \/ /\ xLastTime <= xTickCount /\ pc' = place /\ xLastTime' = xTickCount
              /\ Sampled' = 0 /\ Sampled = xTickCount - xLastTime
              /\ xLastTime' = xTimeNow'
    BY <1>a, <1>b, <1>f, SampleFacts
  <1>i. ~ Reloading' /\ ~ Restarting' /\ ~ Reloads'
    BY <1>h DEF Reloading, Restarting, Reloads
  <1> HIDE DEF wait
  <1>1. Typed'
    <2>1. pc' \in {"query", "expired", "callback", "switch", "reload", "receive", "handle",
                   "restart", "blocked", "assert"}
      BY <1>h
    <2>2. wakeTime' \in Ticks \union {NoTime}
      BY <1>a, <1>f, <1>g DEF Typed
    <2>3. suspended' \in BOOLEAN
      BY <1>b
    <2> QED BY <1>a, <1>b, <1>h, <2>1, <2>2, <2>3 DEF Typed
  <1>2. Steady'
    <2>1. pc' = "expired" =>
              pxCurrentTimerList' # <<>> /\ Head(pxCurrentTimerList').value <= xTimeNow'
      BY <1>b, <1>f, <1>h
    <2>2. Switching' <=> suspended'
      <3>1. suspended' <=> xTickCount < xLastTime
        BY <1>b
      <3>2. Switching' <=> pc' = "switch"
        BY <1>b, <1>c, <1>h DEF Switching
      <3>3. pc' = "switch" <=> xTickCount < xLastTime
        BY <1>a, <1>f, <1>h, Numbers
      <3> QED BY <3>1, <3>2, <3>3
    <2>3. ~ Switching' => xLastTime' = xTimeNow'
      BY <1>h DEF Switching
    <2> QED BY <1>b, <1>c, <1>d, <1>h, <1>i, <2>1, <2>2, <2>3 DEF Steady
  <1>3. Sorted' /\ OnePlace'
    BY <1>a, <1>b, <1>d, <1>i DEF Sorted, OnePlace, Apart
  <1>4. KeepTime' /\ Wrapped'
    <2>1. CASE xTickCount < xLastTime
      <3>1. pc' = "switch" /\ Switching' /\ xLastTime' = xLastTime /\ Sampled' = Sampled
        BY <1>a, <1>h, <2>1, Numbers DEF Switching
      <3>2. KeepTime'
        BY <1>a, <1>b, <1>d, <3>1 DEF KeepTime, OnTime
      <3>3. \A item \in Current : item.value - xLastTime <= xTimerPeriodInTicks[item.timer]
        BY <1>a, <1>b, <1>c DEF KeepTime
      <3>4. Wrapped'
        BY <1>a, <1>b, <1>d, <1>h, <1>i, <2>1, <3>1, <3>3, Numbers DEF Wrapped
      <3> QED BY <3>2, <3>4
    <2>2. CASE xLastTime <= xTickCount
      <3>1. /\ pc' = place /\ xLastTime' = xTickCount /\ Sampled' = 0
            /\ Sampled = xTickCount - xLastTime
        BY <1>a, <1>h, <2>2, Numbers
      <3>2. ~ Switching'
        BY <1>b, <1>c, <1>f, <3>1 DEF Switching
      <3>3. KeepTime'
        BY <1>a, <1>b, <1>c, <1>d, <2>2, <3>1, Resampled
      <3> QED BY <1>i, <3>2, <3>3 DEF Wrapped
    <2> QED BY <1>a, <2>1, <2>2, Numbers
  <1>5. InHand'
    BY <1>d DEF InHand
  <1>6. Accounted'
    BY <1>a, <1>b, <1>c, <1>d DEF Accounted
  <1>7. Waits'
    <2> SUFFICES ASSUME pc' = "blocked" PROVE Waits'
      BY DEF Waits
    <2>1. /\ place = "blocked" /\ xLastTime <= xTickCount /\ xLastTime' = xTickCount
          /\ xTimerQueue = <<>> /\ (listWasEmpty \/ next > xTickCount)
          /\ (Active # {} => wakeTime' = wait)
      BY <1>f, <1>h
    <2>2. pxCurrentTimerList # <<>> \/ pxOverflowTimerList # <<>> => Active # {}
      <3>1. pxCurrentTimerList # <<>> => pxCurrentTimerList[1] \in ToSet(pxCurrentTimerList)
        BY <1>a DEF Typed, ToSet
      <3>2. pxOverflowTimerList # <<>> => pxOverflowTimerList[1] \in ToSet(pxOverflowTimerList)
        BY <1>a DEF Typed, ToSet
      <3> QED BY <3>1, <3>2 DEF Active
    <2>3. CASE pxCurrentTimerList # <<>>
      <3>1. next = Head(pxCurrentTimerList).value /\ next > xTickCount /\ next \in Int
        BY <1>g, <2>1, <2>3, BoundsAssumption DEF Ticks
      <3>2. wakeTime' = next
        BY <1>a, <2>1, <2>2, <2>3, <3>1, Numbers DEF wait
      <3> QED BY <1>a, <1>b, <2>1, <2>3, <3>1, <3>2, Numbers DEF Waits
    <2>4. CASE pxCurrentTimerList = <<>> /\ pxOverflowTimerList # <<>>
      <3>1. PICK item \in Overflow : TRUE
        <4>1. pxOverflowTimerList[1] \in ToSet(pxOverflowTimerList)
          BY <1>a, <2>4 DEF Typed, ToSet
        <4> QED BY <4>1 DEF Overflow
      <3>2. /\ item.value \in Int /\ 0 <= item.value /\ item.timer \in Timers
            /\ item.value + TickMod - xLastTime <= xTimerPeriodInTicks[item.timer]
        BY <1>a, <3>1, PerItem DEF KeepTime
      <3>3. xTimerPeriodInTicks[item.timer] \in Int /\ xTimerPeriodInTicks[item.timer] < TickMod
        BY <1>a, <3>2, PerTimer, Numbers
      <3>4. 0 < xTickCount
        BY <1>a, <2>1, <3>2, <3>3, Numbers
      <3>5. next = 0 /\ wakeTime' = 0
        BY <1>a, <2>1, <2>2, <2>4, <3>4, Numbers DEF wait
      <3> QED BY <1>a, <1>b, <2>1, <2>4, <3>4, <3>5, Numbers DEF Waits
    <2>5. CASE pxCurrentTimerList = <<>> /\ pxOverflowTimerList = <<>>
      BY <1>b, <2>1, <2>5 DEF Waits
    <2> QED BY <2>3, <2>4, <2>5
  <1>8. DeletesLast'
    BY <1>a, <1>b, <1>c, <1>d DEF DeletesLast
  <1> QED BY <1>1, <1>2, <1>3, <1>4, <1>5, <1>6, <1>7, <1>8 DEF InOneTime, TimeLine

-----------------------------------------------------------------------------
(* A command is taken from the queue. *)

LEMMA FirstMessage ==
    ASSUME NEW q \in Seq(MessageSet), q # <<>>
    PROVE  /\ Head(q) \in MessageSet /\ Head(q) \in ToSet(q)
           /\ Tail(q) \in Seq(MessageSet) /\ Len(Tail(q)) <= Len(q)
           /\ ToSet(Tail(q)) \subseteq ToSet(q)
           /\ \A m \in ToSet(q) : m = Head(q) \/ m \in ToSet(Tail(q))
           /\ 1 \in DOMAIN q /\ Head(q) = q[1]
           /\ \A i \in DOMAIN Tail(q) : i + 1 \in DOMAIN q /\ Tail(q)[i] = q[i + 1] /\ 1 < i + 1
           /\ \A i, j \in DOMAIN Tail(q) : i < j => i + 1 < j + 1
           /\ \A m \in ToSet(Tail(q)) : \E i \in DOMAIN q : 1 < i /\ q[i] = m
  <1>1. /\ Tail(q) \in Seq(MessageSet) /\ Len(Tail(q)) = Len(q) - 1 /\ Len(q) \in Nat
        /\ \A j \in 1..Len(q) - 1 : Tail(q)[j] = q[j + 1]
        /\ Head(q) \in MessageSet /\ Head(q) = q[1] /\ 1 \in DOMAIN q
        /\ DOMAIN q = 1..Len(q) /\ DOMAIN Tail(q) = 1..Len(q) - 1
    OBVIOUS
  <1>2. \A j \in DOMAIN q : j # 1 => j - 1 \in DOMAIN Tail(q) /\ Tail(q)[j - 1] = q[j]
    BY <1>1
  <1>3. \A i \in DOMAIN Tail(q) : i + 1 \in DOMAIN q /\ Tail(q)[i] = q[i + 1] /\ 1 < i + 1
    BY <1>1
  <1>4. \A i, j \in DOMAIN Tail(q) : i < j => i + 1 < j + 1
    BY <1>1
  <1>5. Len(Tail(q)) <= Len(q)
    BY <1>1
  <1>6. \A m \in ToSet(q) : m = Head(q) \/ m \in ToSet(Tail(q))
    <2> SUFFICES ASSUME NEW j \in DOMAIN q PROVE q[j] = Head(q) \/ q[j] \in ToSet(Tail(q))
      BY DEF ToSet
    <2>1. CASE j = 1
      BY <1>1, <2>1
    <2>2. CASE j # 1
      <3>1. j - 1 \in DOMAIN Tail(q) /\ Tail(q)[j - 1] = q[j]
        BY <1>2, <2>2
      <3> QED BY <3>1 DEF ToSet
    <2> QED BY <2>1, <2>2
  <1>7. \A m \in ToSet(Tail(q)) : \E i \in DOMAIN q : 1 < i /\ q[i] = m
    BY <1>3 DEF ToSet
  <1>8. ToSet(Tail(q)) \subseteq ToSet(q) /\ Head(q) \in ToSet(q)
    BY <1>1, <1>7 DEF ToSet
  <1> QED BY <1>1, <1>3, <1>4, <1>5, <1>6, <1>7, <1>8

LEMMA ReceiveDeletes ==
    ASSUME Typed, DeletesLast, ~ Pending, xTimerQueue # <<>>, xTimerQueue' = Tail(xTimerQueue),
           UNCHANGED <<program, life>>, \A t : OnList(t)' => OnList(t),
           xMessage' = Head(xTimerQueue) \/ xMessage' = xMessage
    PROVE  DeletesLast'
  <1> DEFINE q == xTimerQueue
             r == Tail(q)
             h == Head(q)
  <1>1. /\ h \in ToSet(q) /\ ToSet(r) \subseteq ToSet(q)
        /\ 1 \in DOMAIN q /\ h = q[1]
        /\ \A i \in DOMAIN r : i + 1 \in DOMAIN q /\ r[i] = q[i + 1] /\ 1 < i + 1
        /\ \A i, j \in DOMAIN r : i < j => i + 1 < j + 1
        /\ \A m \in ToSet(r) : \E i \in DOMAIN q : 1 < i /\ q[i] = m
    BY FirstMessage DEF Typed
  <1>2. /\ "delete" \notin program.calls => \A t \in Timers : life[t] = "created"
        /\ \A t \in Timers : life[t] = "freed" =>
              ~ OnList(t) /\ \A m \in ToSet(q) : m.timer # t
        /\ \A m \in ToSet(q) : m.id = "delete" => life[m.timer] = "deleting"
        /\ \A i, j \in DOMAIN q : i < j /\ q[i].id = "delete" => q[j].timer # q[i].timer
    BY DEF DeletesLast
  <1>3. xTimerQueue' = r /\ (xMessage' = h \/ xMessage' = NoMessage)
    BY DEF Pending
  <1> HIDE DEF q, r, h
  <1>4. \A i, j \in DOMAIN r : i < j /\ r[i].id = "delete" => r[j].timer # r[i].timer
    BY <1>1, <1>2
  <1>5. \A m \in ToSet(r) : h.id = "delete" => m.timer # h.timer
    BY <1>1, <1>2
  <1>6. Pending' => xMessage' = h
    BY <1>3 DEF Pending
  <1>7. xMessage'.id = "delete" => xMessage' = h
    BY <1>3 DEF NoMessage
  <1>8. \A u \in Timers : life'[u] = "freed" =>
            /\ ~ OnList(u)'
            /\ \A m \in ToSet(xTimerQueue') : m.timer # u
            /\ Pending' => xMessage'.timer # u
    BY <1>1, <1>2, <1>3, <1>6
  <1>9. xMessage'.id = "delete" =>
            /\ life'[xMessage'.timer] = "deleting"
            /\ \A m \in ToSet(xTimerQueue') : m.timer # xMessage'.timer
    BY <1>1, <1>2, <1>3, <1>5, <1>7
  <1>10. \A m \in ToSet(xTimerQueue') : m.id = "delete" => life'[m.timer] = "deleting"
    BY <1>1, <1>2, <1>3
  <1>11. \A i, j \in DOMAIN xTimerQueue' : i < j /\ xTimerQueue'[i].id = "delete" =>
            xTimerQueue'[j].timer # xTimerQueue'[i].timer
    BY <1>3, <1>4
  <1> QED BY <1>2, <1>8, <1>9, <1>10, <1>11 DEF DeletesLast

LEMMA ReceiveFunction ==
    ASSUME InOneTime, ReceiveCommand, Head(xTimerQueue).id = "function"
    PROVE  InOneTime'
  <1>a. Typed /\ Steady /\ DeletesLast
    BY DEF InOneTime, TimeLine
  <1>b. /\ StandStill /\ UNCHANGED <<after, running, suspended, wakeTime, life>>
        /\ pc = "receive" /\ xTimerQueue # <<>> /\ xTimerQueue' = Tail(xTimerQueue)
        /\ pc' = "callback"
    BY DEF ReceiveCommand, StandStill, promiseVars
  <1>c. /\ ~ Switching /\ ~ Reloading /\ ~ Restarting /\ ~ Pending
        /\ after = "receive" /\ running = NoItem
    BY <1>a, <1>b DEF Switching, Reloading, Restarting, Steady
  <1>d. ~ Switching' /\ ~ Reloading' /\ ~ Restarting' /\ ~ Pending'
    BY <1>b, <1>c DEF Switching, Reloading, Restarting, Pending, StandStill
  <1>e. /\ Tail(xTimerQueue) \in Seq(MessageSet) /\ Len(Tail(xTimerQueue)) <= Len(xTimerQueue)
        /\ \A m \in ToSet(xTimerQueue) :
              m = Head(xTimerQueue) \/ m \in ToSet(Tail(xTimerQueue))
        /\ Len(Tail(xTimerQueue)) \in Nat /\ Len(xTimerQueue) \in Nat
    BY <1>a, <1>b, FirstMessage DEF Typed
  <1>1. Typed'
    <2>1. Len(xTimerQueue') <= QueueLength
      BY <1>a, <1>b, <1>e, BoundsAssumption DEF Typed
    <2> QED BY <1>a, <1>b, <1>e, <2>1 DEF Typed, StandStill
  <1>2. Steady'
    BY <1>a, <1>b, <1>c, <1>d DEF Steady, StandStill
  <1>3. Waits'
    BY <1>b DEF Waits
  <1>4. DeletesLast'
    BY <1>a, <1>b, <1>c, StillFacts, ReceiveDeletes DEF StandStill
  <1>5. \A m \in ToSet(xTimerQueue) : m.id = "reload" => m \in ToSet(xTimerQueue')
    BY <1>b, <1>e
  <1>6. TimeLine' /\ InHand' /\ Accounted'
    BY <1>1, <1>2, <1>5, <1>b, <1>c, <1>d, StillKeeps
  <1> QED BY <1>3, <1>4, <1>6 DEF InOneTime

LEMMA ReceiveTimerCommand ==
    ASSUME InOneTime, ReceiveCommand, Head(xTimerQueue).id # "function"
    PROVE  InOneTime'
  <1>a. Typed /\ Steady /\ Sorted /\ OnePlace /\ KeepTime /\ Wrapped /\ InHand /\ Accounted
        /\ Waits /\ DeletesLast
    BY DEF InOneTime, TimeLine
  <1> DEFINE m == Head(xTimerQueue)
             t == m.timer
             p == xTimerPeriodInTicks[t]
             new == CASE m.id \in {"start", "reload"} -> p - Elapsed(xTickCount, m.value)
                      [] m.id = "period" -> m.value
                      [] OTHER -> Off
  <1>b. /\ pc = "receive" /\ xTimerQueue # <<>> /\ xTimerQueue' = Tail(xTimerQueue)
        /\ xMessage' = m
        /\ pxCurrentTimerList' = WithoutTimer(pxCurrentTimerList, t)
        /\ pxOverflowTimerList' = WithoutTimer(pxOverflowTimerList, t)
        /\ Sample("handle")
        /\ due' = [due EXCEPT ![t] = new]
        /\ UNCHANGED <<program, xTickCount, xTimerPeriodInTicks, after, running,
                      suspended, wakeTime, life>>
    BY DEF ReceiveCommand
  <1>c. /\ ~ Switching /\ ~ Reloading /\ ~ Restarting /\ ~ Pending
        /\ after = "receive" /\ running = NoItem /\ suspended = FALSE
    BY <1>a, <1>b DEF Switching, Reloading, Restarting, Steady, Typed
  <1>d. /\ m \in MessageSet /\ Tail(xTimerQueue) \in Seq(MessageSet)
        /\ Len(Tail(xTimerQueue)) <= QueueLength
        /\ \A n \in ToSet(xTimerQueue) : n = m \/ n \in ToSet(Tail(xTimerQueue))
    <2>1. /\ m \in MessageSet /\ Tail(xTimerQueue) \in Seq(MessageSet)
          /\ Len(Tail(xTimerQueue)) <= Len(xTimerQueue)
          /\ \A n \in ToSet(xTimerQueue) : n = m \/ n \in ToSet(Tail(xTimerQueue))
          /\ Len(Tail(xTimerQueue)) \in Nat /\ Len(xTimerQueue) \in Nat
      BY <1>a, <1>b, FirstMessage DEF Typed
    <2>2. Len(xTimerQueue) <= QueueLength /\ QueueLength \in Nat
      BY <1>a, BoundsAssumption DEF Typed
    <2> HIDE DEF m
    <2> QED BY <2>1, <2>2
  <1>e. /\ t \in Timers /\ t # NoTimer /\ m.value \in Ticks
        /\ m.id \in {"start", "reload", "period", "stop", "delete"}
        /\ (m.id = "period" => m.value \in Periods)
    <2> HIDE DEF m
    <2>1. m.id # "function"
      BY DEF m
    <2> QED BY <1>d, <2>1 DEF MessageSet, Commands
  <1>f. Pending'
    <2>1. m.timer # NoTimer /\ NoMessage.timer = NoTimer
      BY <1>e DEF NoMessage
    <2> QED BY <1>b, <2>1 DEF Pending
  <1>g. /\ pxCurrentTimerList' \in Seq(ItemSet) /\ pxOverflowTimerList' \in Seq(ItemSet)
        /\ Sorted' /\ IsInjective(pxCurrentTimerList') /\ IsInjective(pxOverflowTimerList')
        /\ Current' = {item \in Current : item.timer # t}
        /\ Overflow' = {item \in Overflow : item.timer # t}
    <2> HIDE DEF t
    <2>1. /\ pxCurrentTimerList \in Seq(ItemSet) /\ pxOverflowTimerList \in Seq(ItemSet)
          /\ InOrder(pxCurrentTimerList) /\ InOrder(pxOverflowTimerList)
          /\ IsInjective(pxCurrentTimerList) /\ IsInjective(pxOverflowTimerList)
      BY <1>a DEF Typed, Sorted, OnePlace, Apart
    <2>2. /\ pxCurrentTimerList' \in Seq(ItemSet) /\ InOrder(pxCurrentTimerList')
          /\ IsInjective(pxCurrentTimerList')
          /\ Current' = {item \in Current : item.timer # t}
      BY <1>b, <2>1, WithoutTimerFacts DEF Current
    <2>3. /\ pxOverflowTimerList' \in Seq(ItemSet) /\ InOrder(pxOverflowTimerList')
          /\ IsInjective(pxOverflowTimerList')
          /\ Overflow' = {item \in Overflow : item.timer # t}
      BY <1>b, <2>1, WithoutTimerFacts DEF Overflow
    <2>4. Sorted'
      BY <2>2, <2>3 DEF Sorted, InOrder
    <2> QED BY <2>2, <2>3, <2>4
  <1>h. /\ xTimeNow' = xTickCount /\ Since' = 0 /\ xTimeNow' \in Ticks /\ xLastTime' \in Ticks
        /\ \/ /\ xTickCount < xLastTime /\ pc' = "switch"
              /\ xLastTime' = xLastTime /\ Sampled' = Sampled
           \/ /\ xLastTime <= xTickCount /\ pc' = "handle" /\ xLastTime' = xTickCount
              /\ Sampled' = 0 /\ Sampled = xTickCount - xLastTime
              /\ xLastTime' = xTimeNow'
    BY <1>a, <1>b, SampleFacts
  <1>i. ~ Reloading' /\ ~ Restarting' /\ ~ Reloads' /\ (Switching' <=> pc' = "switch")
    BY <1>b, <1>c, <1>h DEF Reloading, Restarting, Reloads, Switching
  <1>j. /\ \A u \in Timers : due'[u] = IF u = t THEN new ELSE due[u]
        /\ due' = [due EXCEPT ![t] = new]
    BY <1>a, <1>b DEF Typed
  <1>k. /\ m.id \in {"start", "reload"} => new = p - Elapsed(xTimeNow', m.value) - 0
        /\ m.id = "period" => new = m.value - 0
        /\ m.id \in {"stop", "delete"} => new = Off
        /\ m.id \notin {"stop", "delete"} => new # Off /\ new \in -TickMod .. TickMod
    <2> DEFINE e == Elapsed(xTickCount, m.value)
    <2>1. e \in Int /\ 0 <= e /\ e < TickMod
      <3>1. e \in Ticks
        BY <1>a, <1>e, Clock DEF Typed
      <3> QED BY <3>1, BoundsAssumption DEF Ticks
    <2>2. p \in Int /\ 0 < p /\ p < TickMod /\ MaxBehind \in Nat
      BY <1>a, <1>e, PerTimer, Numbers
    <2>3. m.id = "period" => m.value \in Int /\ 0 < m.value /\ m.value < TickMod
      BY <1>a, <1>e, PeriodIsTick, Numbers
    <2>4. /\ m.id \in {"start", "reload"} => new = p - e
          /\ m.id = "period" => new = m.value
          /\ m.id \in {"stop", "delete"} => new = Off
      BY <1>e
    <2> HIDE DEF m, p, e, new
    <2> QED BY <1>a, <1>e, <1>h, <2>1, <2>2, <2>3, <2>4, Numbers DEF e
  <1> HIDE DEF new, m
  <1>1. Typed'
    <2>1. due' \in [Timers -> (-TickMod .. TickMod) \union {Off}]
      BY <1>a, <1>e, <1>j, <1>k DEF Typed
    <2>2. pc' \in {"switch", "handle"}
      BY <1>h
    <2> QED BY <1>a, <1>b, <1>d, <1>g, <1>h, <2>1, <2>2 DEF Typed
  <1>2. Steady'
    <2>1. ~ Switching' => xLastTime' = xTimeNow'
      BY <1>h, <1>i
    <2>2. pc' = "handle" \/ Switching'
      BY <1>h, <1>i
    <2>3. xMessage'.id # "function" /\ pc' \in {"switch", "handle"}
      BY <1>b, <1>e, <1>h
    <2> QED BY <1>b, <1>c, <1>f, <1>i, <2>1, <2>2, <2>3 DEF Steady
  <1>3. OnePlace'
    <2>1. Apart'
      BY <1>a, <1>g DEF OnePlace, Apart
    <2>2. ~ OnList(xMessage.timer)'
      BY <1>b, <1>g DEF OnList
    <2> QED BY <1>i, <2>1, <2>2 DEF OnePlace
  <1>4. KeepTime' /\ Wrapped'
    <2>1. CASE xTickCount < xLastTime
      <3>1. pc' = "switch" /\ Switching' /\ xLastTime' = xLastTime /\ Sampled' = Sampled
        BY <1>a, <1>h, <1>i, <2>1, Numbers
      <3>2. \A item \in Current' \union Overflow' :
                item.timer \in Timers /\ due'[item.timer] = due[item.timer]
        BY <1>a, <1>g, <1>j, PerItem
      <3>3. KeepTime'
        BY <1>a, <1>b, <1>g, <3>1, <3>2 DEF KeepTime, OnTime
      <3>4. \A item \in Current : item.value - xLastTime <= xTimerPeriodInTicks[item.timer]
        BY <1>a, <1>b, <1>c DEF KeepTime
      <3>5. Wrapped'
        BY <1>a, <1>b, <1>g, <1>h, <1>i, <2>1, <3>1, <3>4, Numbers DEF Wrapped
      <3> QED BY <3>3, <3>5
    <2>2. CASE xLastTime <= xTickCount
      <3>1. /\ pc' = "handle" /\ xLastTime' = xTickCount /\ Sampled' = 0
            /\ Sampled = xTickCount - xLastTime /\ ~ Switching'
        BY <1>a, <1>h, <1>i, <2>2, Numbers
      <3>2. \A item \in Current' \union Overflow' : due'[item.timer] = due[item.timer]
        BY <1>a, <1>g, <1>j, PerItem
      <3>3. Current' \subseteq Current /\ Overflow' \subseteq Overflow
        BY <1>g
      <3>4. KeepTime'
        BY <1>a, <1>b, <1>c, <2>2, <3>1, <3>2, <3>3, Resampled
      <3> QED BY <1>i, <3>1, <3>4 DEF Wrapped
    <2> QED BY <1>a, <2>1, <2>2, Numbers
  <1>5. InHand'
    <2>1. due'[t] = new
      BY <1>e, <1>j
    <2> QED BY <1>b, <1>h, <1>k, <2>1 DEF InHand
  <1>6. Accounted'
    <2> SUFFICES ASSUME NEW u \in Armed', u # t
                 PROVE  \/ OnList(u)'
                        \/ \E n \in ToSet(xTimerQueue') : n.id = "reload" /\ n.timer = u
      BY <1>b, <1>f DEF Accounted
    <2>1. u \in Armed
      BY <1>j DEF Armed
    <2>2. OnList(u) \/ \E n \in ToSet(xTimerQueue) : n.id = "reload" /\ n.timer = u
      BY <1>a, <1>b, <1>c, <2>1 DEF Accounted
    <2>3. OnList(u) => OnList(u)'
      BY <1>g DEF OnList
    <2>4. \A n \in ToSet(xTimerQueue) : n.timer = u => n \in ToSet(xTimerQueue')
      BY <1>b, <1>d
    <2> QED BY <2>2, <2>3, <2>4
  <1>7. Waits'
    BY <1>h DEF Waits
  <1>8. DeletesLast'
    <2>1. \A u : OnList(u)' => OnList(u)
      BY <1>g DEF OnList
    <2> QED BY <1>a, <1>b, <1>c, <2>1, ReceiveDeletes DEF m
  <1> QED BY <1>1, <1>2, <1>3, <1>4, <1>5, <1>6, <1>7, <1>8, <1>g DEF InOneTime, TimeLine

LEMMA ReceiveCommandKeeps == InOneTime /\ ReceiveCommand => InOneTime'
  BY ReceiveFunction, ReceiveTimerCommand

-----------------------------------------------------------------------------
(* A timer goes into the lists. *)

(* When the tests of prvInsertTimerInActiveList find the expiry behind, and *)
(* how far ahead it is when they do not.                                    *)
LEMMA LateFacts ==
    ASSUME NEW now \in Ticks, NEW command \in Ticks, NEW p \in Periods
    PROVE  LET next == Add(command, p)
               ahead == p - Elapsed(now, command)
           IN  /\ next \in Ticks /\ ahead \in Int /\ ahead <= p
               /\ ExpiredBefore(next, now, command, p) <=> ahead <= 0
               /\ ahead > 0 => ahead = IF next <= now THEN next + TickMod - now ELSE next - now
  <1> DEFINE next == Add(command, p)
             e == Elapsed(now, command)
  <1>1. /\ now \in Int /\ 0 <= now /\ now < TickMod /\ TickMod \in Nat
        /\ command \in Int /\ 0 <= command /\ command < TickMod
        /\ p \in Int /\ 0 < p /\ p < TickMod
    BY PeriodIsTick, BoundsAssumption DEF Ticks
  <1>2. /\ next = (IF command + p < TickMod THEN command + p ELSE command + p - TickMod)
        /\ next \in Ticks
        /\ e = (IF command <= now THEN now - command ELSE now - command + TickMod)
    BY Later, Clock
  <1> HIDE DEF next, e
  <1>3. ExpiredBefore(next, now, command, p) <=>
            IF next <= now THEN e >= p ELSE now < command /\ next >= command
    BY DEF ExpiredBefore, e
  <1>4. ExpiredBefore(next, now, command, p) <=> p - e <= 0
    BY <1>1, <1>2, <1>3
  <1>5. p - e > 0 => p - e = IF next <= now THEN next + TickMod - now ELSE next - now
    BY <1>1, <1>2
  <1>6. p - e \in Int /\ p - e <= p
    BY <1>1, <1>2
  <1> QED BY <1>2, <1>4, <1>5, <1>6 DEF next, e

LEMMA InsertActiveKeeps ==
    ASSUME TimeLine, pc # "assert", ~ Switching,
           NEW t \in Timers, NEW next \in Ticks, NEW rest \in Seq(ItemSet),
           InOrder(rest), IsInjective(rest),
           ToSet(rest) = {item \in Current : item.timer # t},
           \A item \in Overflow : item.timer # t,
           InsertActive(t, next, xTimeNow, rest),
           UNCHANGED <<xTickCount, xLastTime, xTimeNow>>,
           \A u \in Timers : u # t => /\ due'[u] = due[u]
                                      /\ xTimerPeriodInTicks'[u] = xTimerPeriodInTicks[u],
           NEW left \in Int,
           left = IF next <= xTimeNow THEN next + TickMod - xTimeNow ELSE next - xTimeNow,
           due'[t] # Off, due'[t] + Sampled = left, due'[t] >= -MaxBehind,
           left <= xTimerPeriodInTicks'[t]
    PROVE  /\ pxCurrentTimerList' \in Seq(ItemSet) /\ pxOverflowTimerList' \in Seq(ItemSet)
           /\ Sorted' /\ Apart' /\ KeepTime'
           /\ \A u : OnList(u)' <=> OnList(u) \/ u = t
  <1>a. Typed /\ Steady /\ Sorted /\ Apart /\ KeepTime
    BY DEF TimeLine, OnePlace
  <1> DEFINE new == Item(t, next)
  <1>b. new \in ItemSet /\ new.timer = t /\ new.value = next
    BY DEF ItemSet, Item
  <1>c. /\ pxCurrentTimerList \in Seq(ItemSet) /\ pxOverflowTimerList \in Seq(ItemSet)
        /\ InOrder(pxCurrentTimerList) /\ InOrder(pxOverflowTimerList)
        /\ IsInjective(pxCurrentTimerList) /\ IsInjective(pxOverflowTimerList)
    BY <1>a DEF Typed, Sorted, Apart
  <1>d. xLastTime = xTimeNow /\ Sampled' = Sampled
    BY <1>a DEF Steady, Sampled
  <1>e. new \notin ToSet(rest) /\ new \notin Overflow
    BY <1>b
  <1> HIDE DEF new
  <1>1. /\ pxCurrentTimerList' \in Seq(ItemSet) /\ InOrder(pxCurrentTimerList')
        /\ IsInjective(pxCurrentTimerList')
        /\ pxOverflowTimerList' \in Seq(ItemSet) /\ InOrder(pxOverflowTimerList')
        /\ IsInjective(pxOverflowTimerList')
        /\ \/ /\ next <= xTimeNow
              /\ Current' = ToSet(rest) /\ Overflow' = Overflow \union {new}
           \/ /\ ~ (next <= xTimeNow)
              /\ Current' = ToSet(rest) \union {new} /\ Overflow' = Overflow
    <2>1. CASE next <= xTimeNow
      <3>1. /\ pxOverflowTimerList' = Insert(pxOverflowTimerList, new)
            /\ pxCurrentTimerList' = rest
        BY <2>1 DEF InsertActive, new
      <3>2. /\ pxOverflowTimerList' \in Seq(ItemSet) /\ InOrder(pxOverflowTimerList')
            /\ IsInjective(pxOverflowTimerList')
            /\ ToSet(pxOverflowTimerList') = ToSet(pxOverflowTimerList) \union {new}
        BY <1>b, <1>c, <1>e, <3>1, InsertFacts DEF Overflow
      <3> QED BY <2>1, <3>1, <3>2 DEF Current, Overflow
    <2>2. CASE ~ (next <= xTimeNow)
      <3>1. /\ pxCurrentTimerList' = Insert(rest, new)
            /\ pxOverflowTimerList' = pxOverflowTimerList
        BY <2>2 DEF InsertActive, new
      <3>2. /\ pxCurrentTimerList' \in Seq(ItemSet) /\ InOrder(pxCurrentTimerList')
            /\ IsInjective(pxCurrentTimerList')
            /\ ToSet(pxCurrentTimerList') = ToSet(rest) \union {new}
        BY <1>b, <1>e, <3>1, InsertFacts
      <3> QED BY <1>c, <2>2, <3>1, <3>2 DEF Current, Overflow
    <2> QED BY <2>1, <2>2
  <1>2. Sorted'
    BY <1>1 DEF Sorted, InOrder
  <1>3. /\ \A item \in Current' : item = new \/ (item \in Current /\ item.timer # t)
        /\ \A item \in Overflow' : item = new \/ (item \in Overflow /\ item.timer # t)
        /\ \A a \in Current', b \in Overflow' : ~ (a = new /\ b = new)
    BY <1>1, <1>e
  <1>4. Apart'
    BY <1>a, <1>b, <1>1, <1>3 DEF Apart
  <1>5. ASSUME NEW item \in Current'
        PROVE  /\ OnTime(item.timer, item.value - xLastTime)'
               /\ item.value - xLastTime <= xTimerPeriodInTicks'[item.timer]
    <2>1. CASE item = new
      <3>1. ~ (next <= xTimeNow) /\ left = item.value - xLastTime /\ item.timer = t
        BY <1>b, <1>d, <1>1, <1>3, <1>e, <2>1
      <3> QED BY <1>d, <3>1 DEF OnTime
    <2>2. CASE item \in Current /\ item.timer # t
      <3>1. /\ item.timer \in Timers
            /\ OnTime(item.timer, item.value - xLastTime)
            /\ item.value - xLastTime <= xTimerPeriodInTicks[item.timer]
        BY <1>a, <2>2, PerItem DEF KeepTime
      <3> QED BY <1>d, <2>2, <3>1 DEF OnTime
    <2> QED BY <1>3, <2>1, <2>2
  <1>6. ASSUME NEW item \in Overflow'
        PROVE  /\ OnTime(item.timer, item.value + TickMod - xLastTime)'
               /\ item.value + TickMod - xLastTime <= xTimerPeriodInTicks'[item.timer]
    <2>1. CASE item = new
      <3>1. next <= xTimeNow /\ left = item.value + TickMod - xLastTime /\ item.timer = t
        BY <1>b, <1>d, <1>1, <1>3, <1>e, <2>1
      <3> QED BY <1>d, <3>1 DEF OnTime
    <2>2. CASE item \in Overflow /\ item.timer # t
      <3>1. /\ item.timer \in Timers
            /\ OnTime(item.timer, item.value + TickMod - xLastTime)
            /\ item.value + TickMod - xLastTime <= xTimerPeriodInTicks[item.timer]
        BY <1>a, <2>2, PerItem DEF KeepTime
      <3> QED BY <1>d, <2>2, <3>1 DEF OnTime
    <2> QED BY <1>3, <2>1, <2>2
  <1>7. KeepTime'
    BY <1>5, <1>6 DEF KeepTime
  <1>8. ASSUME NEW u PROVE OnList(u)' <=> OnList(u) \/ u = t
    <2>1. Current' \union Overflow' = {item \in Current \union Overflow : item.timer # t} \union {new}
      BY <1>1
    <2> QED BY <1>b, <2>1 DEF OnList
  <1> QED BY <1>1, <1>2, <1>4, <1>7, <1>8

(* What the timer task has in hand when it works on a command. *)
LEMMA HandleFacts ==
    ASSUME InOneTime, pc = "handle"
    PROVE  /\ Typed /\ Steady /\ Sorted /\ Apart /\ KeepTime /\ InHand /\ Accounted /\ DeletesLast
           /\ Pending /\ after = "receive" /\ running = NoItem /\ suspended = FALSE
           /\ ~ Switching /\ ~ Reloading /\ ~ Restarting
           /\ xMessage \in MessageSet /\ xMessage.timer \in Timers /\ xMessage.value \in Ticks
           /\ xMessage.id \in {"start", "reload", "period", "stop", "delete"}
           /\ xMessage.id = "period" => xMessage.value \in Periods
           /\ ~ OnList(xMessage.timer)
           /\ xLastTime = xTimeNow /\ Sampled = Since
           /\ life[xMessage.timer] # "freed"
  <1>1. /\ Typed /\ Steady /\ Sorted /\ OnePlace /\ KeepTime /\ InHand /\ Accounted /\ DeletesLast
    BY DEF InOneTime, TimeLine
  <1>2. /\ Pending /\ after = "receive" /\ running = NoItem
        /\ ~ Switching /\ ~ Reloading /\ ~ Restarting
    BY <1>1 DEF Steady, Switching, Reloading, Restarting
  <1>3. suspended = FALSE /\ xLastTime = xTimeNow /\ Sampled = Since
    BY <1>1, <1>2 DEF Steady, Typed, Sampled, Since
  <1>4. xMessage \in MessageSet /\ xMessage.id # "function"
    BY <1>1, <1>2 DEF Typed, Steady, Pending
  <1>5. /\ xMessage.timer \in Timers /\ xMessage.value \in Ticks
        /\ xMessage.id \in {"start", "reload", "period", "stop", "delete"}
        /\ xMessage.id = "period" => xMessage.value \in Periods
    BY <1>4 DEF MessageSet, Commands
  <1>6. ~ OnList(xMessage.timer) /\ Apart
    BY <1>1, <1>2 DEF OnePlace
  <1>7. life[xMessage.timer] # "freed"
    BY <1>1, <1>2, <1>5 DEF DeletesLast
  <1> QED BY <1>1, <1>2, <1>3, <1>4, <1>5, <1>6, <1>7

LEMMA HandleStopDeleteKeeps == InOneTime /\ HandleStopDelete => InOneTime'
  <1> SUFFICES ASSUME InOneTime, HandleStopDelete PROVE InOneTime'
    OBVIOUS
  <1> DEFINE t == xMessage.timer
  <1>b. /\ pc = "handle" /\ xMessage.id \in {"stop", "delete"}
        /\ life' = IF xMessage.id = "delete" THEN [life EXCEPT ![t] = "freed"] ELSE life
        /\ pc' = "receive" /\ xMessage' = NoMessage
        /\ UNCHANGED <<program, xTickCount, pxCurrentTimerList, pxOverflowTimerList,
                       xTimerPeriodInTicks, xTimerQueue, xLastTime, xTimeNow, after, running,
                       suspended, wakeTime, due>>
    BY DEF HandleStopDelete, listVars, promiseVars
  <1>a. /\ Typed /\ Steady /\ Sorted /\ Apart /\ KeepTime /\ InHand /\ Accounted /\ DeletesLast
        /\ Pending /\ after = "receive" /\ running = NoItem /\ suspended = FALSE
        /\ ~ Switching /\ ~ Reloading /\ ~ Restarting
        /\ xMessage \in MessageSet /\ t \in Timers
        /\ ~ OnList(t) /\ xLastTime = xTimeNow /\ life[t] # "freed"
    BY <1>b, HandleFacts
  <1>c. ~ Switching' /\ ~ Reloading' /\ ~ Restarting' /\ ~ Pending' /\ ~ Reloads'
    BY <1>a, <1>b DEF Switching, Reloading, Restarting, Pending, Reloads
  <1>d. /\ Current' = Current /\ Overflow' = Overflow /\ (\A u : OnList(u)' <=> OnList(u))
        /\ Sampled' = Sampled /\ Armed' = Armed
        /\ \A u, left : OnTime(u, left)' <=> OnTime(u, left)
    BY <1>b DEF Current, Overflow, OnList, Sampled, Armed, OnTime
  <1>e. due[t] = Off
    BY <1>a, <1>b DEF InHand
  <1>1. Typed'
    <2>1. life' \in [Timers -> {"created", "deleting", "freed"}]
      BY <1>a, <1>b DEF Typed
    <2> QED BY <1>a, <1>b, <2>1 DEF Typed
  <1>2. Steady'
    BY <1>a, <1>b, <1>c DEF Steady
  <1>3. Sorted' /\ OnePlace'
    BY <1>a, <1>b, <1>c, <1>d DEF Sorted, OnePlace, Apart
  <1>4. KeepTime'
    BY <1>a, <1>b, <1>c, <1>d DEF KeepTime
  <1>5. Wrapped' /\ InHand'
    BY <1>c DEF Wrapped, InHand
  <1>6. Accounted'
    BY <1>a, <1>b, <1>c, <1>d, <1>e DEF Accounted, Armed
  <1>7. Waits'
    BY <1>b DEF Waits
  <1>8. DeletesLast'
    <2>1. \A u \in Timers :
              life'[u] = IF xMessage.id = "delete" /\ u = t THEN "freed" ELSE life[u]
      BY <1>a, <1>b DEF Typed
    <2>2. xMessage.id = "delete" => \A m \in ToSet(xTimerQueue) : m.timer # t
      BY <1>a DEF DeletesLast
    <2>3. \A m \in ToSet(xTimerQueue) : m.id = "delete" => m.timer \in Timers
      <3>1. \A m \in ToSet(xTimerQueue) : m \in MessageSet
        BY <1>a DEF Typed, ToSet
      <3> QED BY <3>1 DEF MessageSet
    <2>4. xMessage.id = "delete" => "delete" \in program.calls
      BY <1>a DEF DeletesLast
    <2>5. xMessage'.id # "delete"
      BY <1>b DEF NoMessage
    <2>6. \A m \in ToSet(xTimerQueue') : m.id = "delete" => life'[m.timer] = "deleting"
      BY <1>a, <1>b, <2>1, <2>2, <2>3 DEF DeletesLast
    <2>7. \A u \in Timers : life'[u] = "freed" =>
              /\ ~ OnList(u)' /\ \A m \in ToSet(xTimerQueue') : m.timer # u
      BY <1>a, <1>b, <1>d, <2>1, <2>2 DEF DeletesLast
    <2> QED BY <1>a, <1>b, <1>c, <2>1, <2>4, <2>5, <2>6, <2>7 DEF DeletesLast
  <1> QED BY <1>1, <1>2, <1>3, <1>4, <1>5, <1>6, <1>7, <1>8 DEF InOneTime, TimeLine

LEMMA HandleChangePeriodKeeps == InOneTime /\ HandleChangePeriod => InOneTime'
  <1> SUFFICES ASSUME InOneTime, HandleChangePeriod PROVE InOneTime'
    OBVIOUS
  <1> DEFINE t == xMessage.timer
             p == xMessage.value
             next == Add(xTimeNow, p)
  <1>b. /\ pc = "handle" /\ xMessage.id = "period"
        /\ xTimerPeriodInTicks' = [xTimerPeriodInTicks EXCEPT ![t] = p]
        /\ InsertActive(t, next, xTimeNow, pxCurrentTimerList)
        /\ pc' = "receive" /\ xMessage' = NoMessage
        /\ UNCHANGED <<program, xTickCount, xTimerQueue, xLastTime, xTimeNow, after, running,
                       suspended, wakeTime, life, due>>
    BY DEF HandleChangePeriod, promiseVars
  <1>a. /\ Typed /\ Steady /\ Sorted /\ Apart /\ KeepTime /\ InHand /\ Accounted /\ DeletesLast
        /\ Pending /\ after = "receive" /\ running = NoItem /\ suspended = FALSE
        /\ ~ Switching /\ ~ Reloading /\ ~ Restarting
        /\ t \in Timers /\ p \in Periods
        /\ ~ OnList(t) /\ xLastTime = xTimeNow /\ Sampled = Since /\ life[t] # "freed"
    BY <1>b, HandleFacts
  <1>c. ~ Switching' /\ ~ Reloading' /\ ~ Restarting' /\ ~ Pending' /\ ~ Reloads'
    BY <1>a, <1>b DEF Switching, Reloading, Restarting, Pending, Reloads
  <1>d. \A u \in Timers : xTimerPeriodInTicks'[u] = IF u = t THEN p ELSE xTimerPeriodInTicks[u]
    BY <1>a, <1>b DEF Typed
  <1>e. /\ next \in Ticks /\ p \in Int /\ 0 < p
        /\ p = IF next <= xTimeNow THEN next + TickMod - xTimeNow ELSE next - xTimeNow
    <2>1. xTimeNow \in Ticks /\ p \in Int /\ 0 < p /\ p < TickMod
      BY <1>a, PeriodIsTick, Numbers DEF Typed
    <2>2. next = (IF xTimeNow + p < TickMod THEN xTimeNow + p ELSE xTimeNow + p - TickMod)
          /\ next \in Ticks
      BY <1>a, <2>1, Later
    <2> HIDE DEF next, p
    <2> QED BY <1>a, <2>1, <2>2, Numbers
  <1>f. due'[t] # Off /\ due'[t] + Sampled = p /\ due'[t] >= -MaxBehind
    <2>1. due[t] = p - Since /\ due[t] # Off /\ (due[t] >= -MaxBehind \/ Since = 0)
      BY <1>a, <1>b DEF InHand
    <2> HIDE DEF p, t
    <2> QED BY <1>a, <1>b, <1>e, <2>1, Numbers
  <1>g. /\ pxCurrentTimerList' \in Seq(ItemSet) /\ pxOverflowTimerList' \in Seq(ItemSet)
        /\ Sorted' /\ Apart' /\ KeepTime'
        /\ \A u : OnList(u)' <=> OnList(u) \/ u = t
    <2> HIDE DEF next, p, t
    <2>1. /\ pxCurrentTimerList \in Seq(ItemSet)
          /\ InOrder(pxCurrentTimerList) /\ IsInjective(pxCurrentTimerList)
      BY <1>a DEF Typed, Sorted, Apart
    <2>2. /\ ToSet(pxCurrentTimerList) = {item \in Current : item.timer # t}
          /\ \A item \in Overflow : item.timer # t
      BY <1>a DEF OnList, Current
    <2>3. p <= xTimerPeriodInTicks'[t]
      BY <1>a, <1>d, <1>e
    <2>4. \A u \in Timers : u # t => /\ due'[u] = due[u]
                                     /\ xTimerPeriodInTicks'[u] = xTimerPeriodInTicks[u]
      BY <1>b, <1>d
    <2>5. pc # "assert" /\ TimeLine
      BY <1>b DEF InOneTime
    <2> QED BY <1>a, <1>b, <1>e, <1>f, <2>1, <2>2, <2>3, <2>4, <2>5, InsertActiveKeeps
  <1>1. Typed'
    <2>1. xTimerPeriodInTicks' \in [Timers -> Periods]
      BY <1>a, <1>b DEF Typed
    <2> QED BY <1>a, <1>b, <1>g, <2>1 DEF Typed
  <1>2. Steady'
    BY <1>a, <1>b, <1>c DEF Steady
  <1>3. OnePlace'
    BY <1>c, <1>g DEF OnePlace
  <1>4. Wrapped' /\ InHand'
    BY <1>c DEF Wrapped, InHand
  <1>5. Accounted'
    BY <1>a, <1>b, <1>c, <1>g DEF Accounted, Armed
  <1>6. Waits'
    BY <1>b DEF Waits
  <1>7. DeletesLast'
    <2>1. xMessage'.id # "delete"
      BY <1>b DEF NoMessage
    <2> QED BY <1>a, <1>b, <1>c, <1>g, <2>1 DEF DeletesLast
  <1> QED BY <1>1, <1>2, <1>3, <1>4, <1>5, <1>6, <1>7, <1>g DEF InOneTime, TimeLine

(* A timer that expires expires again after its period, or is done. *)
LEMMA FireFacts ==
    ASSUME Typed, NEW item \in ItemSet, NEW next, Fire(item, next),
           due[item.timer] # Off, due[item.timer] <= 0
    PROVE  LET t == item.timer
           IN  /\ pc' = "callback" /\ after' = next /\ running' = item /\ t \in Timers
               /\ due' \in [Timers -> (-TickMod .. TickMod) \union {Off}]
               /\ \A u \in Timers : u # t => due'[u] = due[u]
               /\ AutoReload(t) => /\ due'[t] = due[t] + xTimerPeriodInTicks[t]
                                   /\ due'[t] # Off
               /\ ~ AutoReload(t) => due'[t] = Off
  <1> DEFINE t == item.timer
             new == IF AutoReload(t) THEN due[t] + xTimerPeriodInTicks[t] ELSE Off
  <1>1. t \in Timers
    BY DEF ItemSet
  <1>2. /\ pc' = "callback" /\ after' = next /\ running' = item
        /\ due' = [due EXCEPT ![t] = new]
    BY DEF Fire
  <1>3. /\ due[t] \in Int /\ -TickMod <= due[t] /\ TickMod \in Nat
        /\ xTimerPeriodInTicks[t] \in Int /\ 0 < xTimerPeriodInTicks[t]
        /\ xTimerPeriodInTicks[t] < TickMod /\ Off = TickMod + TickMod /\ 0 < TickMod
    BY <1>1, PerTimer, Numbers
  <1>4. due \in [Timers -> (-TickMod .. TickMod) \union {Off}]
    BY DEF Typed
  <1>5. AutoReload(t) => new = due[t] + xTimerPeriodInTicks[t]
    OBVIOUS
  <1>6. ~ AutoReload(t) => new = Off
    OBVIOUS
  <1> HIDE DEF t, new
  <1>7. AutoReload(t) => new \in -TickMod .. TickMod /\ new # Off
    <2>1. due[t] + xTimerPeriodInTicks[t] \in -TickMod .. TickMod
          /\ due[t] + xTimerPeriodInTicks[t] # Off
      BY <1>3 DEF t
    <2> QED BY <1>5, <2>1
  <1>8. due' \in [Timers -> (-TickMod .. TickMod) \union {Off}]
    BY <1>1, <1>2, <1>4, <1>6, <1>7
  <1>9. \A u \in Timers : due'[u] = IF u = t THEN new ELSE due[u]
    BY <1>1, <1>2, <1>4
  <1> QED BY <1>1, <1>2, <1>5, <1>6, <1>7, <1>8, <1>9 DEF t

(* Timers that reload are not deleted. *)
LEMMA NoDeletes ==
    ASSUME Typed, DeletesLast, NEW t, AutoReload(t)
    PROVE  /\ t \in Timers /\ "delete" \notin program.calls
           /\ \A u \in Timers : life[u] = "created"
           /\ \A m \in ToSet(xTimerQueue) : m.id # "delete"
           /\ xMessage.id # "delete"
  <1>1. t \in Timers /\ "delete" \notin program.calls
    BY ProgramFacts DEF AutoReload, Typed
  <1>2. \A u \in Timers : life[u] = "created"
    BY <1>1 DEF DeletesLast
  <1>3. \A m \in ToSet(xTimerQueue) : m.id # "delete"
    <2> SUFFICES ASSUME NEW m \in ToSet(xTimerQueue), m.id = "delete" PROVE FALSE
      OBVIOUS
    <2>1. m \in MessageSet
      BY DEF Typed, ToSet
    <2>2. m.timer \in Timers
      BY <2>1 DEF MessageSet
    <2> QED BY <1>2, <2>2 DEF DeletesLast
  <1>4. xMessage.id # "delete"
    <2> SUFFICES ASSUME xMessage.id = "delete" PROVE FALSE
      OBVIOUS
    <2>1. xMessage \in MessageSet
      BY DEF Typed, NoMessage
    <2>2. xMessage.timer \in Timers
      BY <2>1 DEF MessageSet
    <2> QED BY <1>2, <2>2 DEF DeletesLast
  <1> QED BY <1>1, <1>2, <1>3, <1>4

LEMMA PostReloadFacts ==
    ASSUME Typed, DeletesLast, NEW t, AutoReload(t), NEW v \in Ticks, PostReload(t, v),
           UNCHANGED <<program, life>>, xMessage' = xMessage \/ xMessage' = NoMessage
    PROVE  /\ xTimerQueue' \in Seq(MessageSet) /\ Len(xTimerQueue') <= QueueLength
           /\ ToSet(xTimerQueue) \subseteq ToSet(xTimerQueue')
           /\ Room => \E m \in ToSet(xTimerQueue') : m.id = "reload" /\ m.timer = t
           /\ DeletesLast'
  <1> DEFINE m == Message("reload", t, v)
  <1>1. /\ t \in Timers /\ "delete" \notin program.calls
        /\ \A u \in Timers : life[u] = "created"
        /\ \A n \in ToSet(xTimerQueue) : n.id # "delete"
        /\ xMessage.id # "delete"
    BY NoDeletes
  <1>2. m \in MessageSet /\ m.id = "reload" /\ m.timer = t
    BY <1>1, TimersAssumption DEF MessageSet, Message, Commands
  <1> HIDE DEF m
  <1>3. /\ xTimerQueue \in Seq(MessageSet) /\ Len(xTimerQueue) <= QueueLength
        /\ QueueLength \in Nat /\ Len(xTimerQueue) \in Nat
    BY BoundsAssumption DEF Typed
  <1>4. /\ xTimerQueue' \in Seq(MessageSet) /\ Len(xTimerQueue') <= QueueLength
        /\ ToSet(xTimerQueue) \subseteq ToSet(xTimerQueue')
        /\ \A n \in ToSet(xTimerQueue') : n \in ToSet(xTimerQueue) \/ n = m
        /\ Room => m \in ToSet(xTimerQueue')
    <2>1. CASE Room
      <3>1. xTimerQueue' = Append(xTimerQueue, m) /\ Len(xTimerQueue) < QueueLength
        BY <2>1 DEF PostReload, Room, m
      <3> QED BY <1>2, <1>3, <3>1, AppendedMessages
    <2>2. CASE ~ Room
      <3>1. xTimerQueue' = xTimerQueue
        BY <2>2 DEF PostReload
      <3> QED BY <1>3, <2>2, <3>1
    <2> QED BY <2>1, <2>2
  <1>5. \A n \in ToSet(xTimerQueue') : n.id # "delete"
    BY <1>1, <1>2, <1>4
  <1>6. \A i \in DOMAIN xTimerQueue' : xTimerQueue'[i].id # "delete"
    BY <1>5 DEF ToSet
  <1>7. xMessage'.id # "delete"
    BY <1>1 DEF NoMessage
  <1>8. DeletesLast'
    BY <1>1, <1>5, <1>6, <1>7 DEF DeletesLast
  <1> QED BY <1>2, <1>4, <1>8

LEMMA RestartKeeps == InOneTime /\ Restart => InOneTime'
  <1> SUFFICES ASSUME InOneTime, Restart PROVE InOneTime'
    OBVIOUS
  <1> DEFINE t == running.timer
             v == Add(running.value, xTimerPeriodInTicks[t])
  <1>a. Typed /\ Steady /\ Sorted /\ OnePlace /\ KeepTime /\ InHand /\ Accounted /\ DeletesLast
    BY DEF InOneTime, TimeLine
  <1>b. /\ StandStill /\ UNCHANGED <<after, suspended, wakeTime, life>>
        /\ pc = "restart" /\ PostReload(t, v)
        /\ pc' = IF Room THEN "receive" ELSE "assert"
        /\ running' = NoItem
    BY DEF Restart, StandStill, listVars, promiseVars
  <1>c. /\ ~ Switching /\ ~ Reloading /\ Restarting /\ ~ Pending
        /\ after = "receive" /\ suspended = FALSE
        /\ running \in ItemSet /\ AutoReload(t)
    BY <1>a, <1>b DEF Switching, Reloading, Restarting, Steady, Typed
  <1>d. ~ Switching' /\ ~ Reloading' /\ ~ Restarting' /\ ~ Pending' /\ ~ Reloads'
    BY <1>b, <1>c DEF Switching, Reloading, Restarting, Pending, StandStill, Reloads
  <1>e. v \in Ticks
    <2>1. running.value \in Ticks /\ t \in Timers
      BY <1>c DEF ItemSet
    <2> QED BY <1>a, <2>1, PerTimer, Later
  <1>f. UNCHANGED <<program, life, xMessage>>
    BY <1>b DEF StandStill
  <1>g. /\ xTimerQueue' \in Seq(MessageSet) /\ Len(xTimerQueue') <= QueueLength
        /\ ToSet(xTimerQueue) \subseteq ToSet(xTimerQueue')
        /\ Room => \E m \in ToSet(xTimerQueue') : m.id = "reload" /\ m.timer = t
        /\ DeletesLast'
    <2> HIDE DEF t, v
    <2> QED BY <1>a, <1>b, <1>c, <1>e, <1>f, PostReloadFacts
  <1>h. /\ Current' = Current /\ Overflow' = Overflow /\ (\A u : OnList(u)' <=> OnList(u))
        /\ Sampled' = Sampled /\ Armed' = Armed
        /\ Sorted' <=> Sorted
    BY <1>b, StillFacts
  <1>1. Typed'
    BY <1>a, <1>b, <1>g DEF Typed, StandStill
  <1>2. Steady'
    BY <1>a, <1>b, <1>c, <1>d DEF Steady, StandStill
  <1>3. OnePlace'
    BY <1>a, <1>b, <1>d, <1>h DEF OnePlace, Apart, StandStill
  <1>4. KeepTime'
    BY <1>a, <1>b, <1>c, <1>d, <1>h DEF KeepTime, OnTime, StandStill
  <1>5. Wrapped' /\ InHand'
    BY <1>d DEF Wrapped, InHand
  <1>6. Accounted'
    <2> SUFFICES ASSUME pc' # "assert", NEW u \in Armed'
                 PROVE  \/ OnList(u)'
                        \/ \E m \in ToSet(xTimerQueue') : m.id = "reload" /\ m.timer = u
      BY DEF Accounted
    <2>1. Room /\ u \in Armed
      BY <1>b, <1>h
    <2> QED BY <1>a, <1>b, <1>c, <1>g, <1>h, <2>1 DEF Accounted
  <1>7. Waits'
    BY <1>b DEF Waits
  <1> QED BY <1>1, <1>2, <1>3, <1>4, <1>5, <1>6, <1>7, <1>a, <1>g, <1>h DEF InOneTime, TimeLine

LEMMA HandleStartKeeps == InOneTime /\ HandleStart => InOneTime'
  <1> SUFFICES ASSUME InOneTime, HandleStart PROVE InOneTime'
    OBVIOUS
  <1> DEFINE t == xMessage.timer
             command == xMessage.value
             p == xTimerPeriodInTicks[t]
             next == Add(command, p)
             ahead == p - Elapsed(xTimeNow, command)
             late == ExpiredBefore(next, xTimeNow, command, p)
             place == IF AutoReload(t) THEN "restart" ELSE "receive"
  <1>b. /\ pc = "handle" /\ xMessage.id \in {"start", "reload"}
        /\ \/ /\ late /\ Fire(Item(t, command), place)
              /\ UNCHANGED <<pxCurrentTimerList, pxOverflowTimerList>>
           \/ /\ ~late /\ InsertActive(t, next, xTimeNow, pxCurrentTimerList)
              /\ pc' = "receive"
              /\ UNCHANGED <<after, running, due>>
        /\ xMessage' = NoMessage
        /\ UNCHANGED <<program, xTickCount, xTimerPeriodInTicks, xTimerQueue, xLastTime,
                       xTimeNow, suspended, wakeTime, life>>
    BY DEF HandleStart, listVars
  <1>a. /\ Typed /\ Steady /\ Sorted /\ Apart /\ KeepTime /\ InHand /\ Accounted /\ DeletesLast
        /\ Pending /\ after = "receive" /\ running = NoItem /\ suspended = FALSE
        /\ ~ Switching /\ ~ Reloading /\ ~ Restarting
        /\ t \in Timers /\ command \in Ticks
        /\ ~ OnList(t) /\ xLastTime = xTimeNow /\ Sampled = Since /\ life[t] # "freed"
    BY <1>b, HandleFacts
  <1>c. /\ next \in Ticks /\ ahead \in Int /\ ahead <= p
        /\ late <=> ahead <= 0
        /\ ahead > 0 => ahead = IF next <= xTimeNow THEN next + TickMod - xTimeNow
                                                    ELSE next - xTimeNow
    <2>1. xTimeNow \in Ticks /\ p \in Periods
      BY <1>a, PerTimer DEF Typed
    <2> HIDE DEF command, p
    <2> QED BY <1>a, <2>1, LateFacts
  <1>d. /\ due[t] = ahead - Since /\ due[t] # Off /\ (due[t] >= -MaxBehind \/ Since = 0)
    BY <1>a, <1>b DEF InHand
  <1>e. xMessage'.id # "delete" /\ ~ Pending'
    BY <1>b DEF NoMessage, Pending
  <1>f. DeletesLast' <=> /\ "delete" \notin program.calls => \A u \in Timers : life[u] = "created"
                         /\ \A u \in Timers : life[u] = "freed" =>
                               /\ ~ OnList(u)'
                               /\ \A m \in ToSet(xTimerQueue) : m.timer # u
                         /\ \A m \in ToSet(xTimerQueue) : m.id = "delete" =>
                               life[m.timer] = "deleting"
                         /\ \A i, j \in DOMAIN xTimerQueue : i < j /\ xTimerQueue[i].id = "delete"
                               => xTimerQueue[j].timer # xTimerQueue[i].timer
    BY <1>b, <1>e DEF DeletesLast
  <1> HIDE DEF t, command, p, next, ahead, late
  <1>1. CASE late
    <2>b. /\ Fire(Item(t, command), place)
          /\ UNCHANGED <<pxCurrentTimerList, pxOverflowTimerList>>
      BY <1>b, <1>1
    <2>c. ahead <= 0 /\ due[t] <= 0
      BY <1>1, <1>a, <1>c, <1>d, Numbers
    <2>d. Item(t, command) \in ItemSet /\ Item(t, command).timer = t
      BY <1>a DEF Item, ItemSet
    <2>e. /\ pc' = "callback" /\ after' = place /\ running' = Item(t, command)
          /\ due' \in [Timers -> (-TickMod .. TickMod) \union {Off}]
          /\ \A u \in Timers : u # t => due'[u] = due[u]
          /\ ~ AutoReload(t) => due'[t] = Off
      <3> HIDE DEF place
      <3> QED BY <1>a, <1>d, <2>b, <2>c, <2>d, FireFacts
    <2>f. ~ Switching' /\ ~ Reloading' /\ ~ Reloads' /\ (Restarting' <=> AutoReload(t))
      BY <2>e DEF Switching, Reloading, Reloads, Restarting
    <2>g. /\ Current' = Current /\ Overflow' = Overflow /\ (\A u : OnList(u)' <=> OnList(u))
          /\ Sampled' = Sampled
      BY <1>b, <2>b DEF Current, Overflow, OnList, Sampled
    <2>1. Typed'
      BY <1>a, <1>b, <2>b, <2>d, <2>e DEF Typed
    <2>2. Steady'
      BY <1>a, <1>b, <1>e, <2>d, <2>e, <2>f DEF Steady, AutoReload
    <2>3. Sorted' /\ OnePlace'
      BY <1>a, <1>e, <2>b, <2>f, <2>g DEF Sorted, OnePlace, Apart
    <2>4. KeepTime'
      <3>1. \A item \in Current \union Overflow : due'[item.timer] = due[item.timer]
        BY <1>a, <2>e, PerItem DEF OnList
      <3> QED BY <1>a, <1>b, <2>f, <2>g, <3>1 DEF KeepTime, OnTime
    <2>5. Wrapped' /\ InHand' /\ Waits'
      BY <1>e, <2>e, <2>f DEF Wrapped, InHand, Waits
    <2>6. Accounted'
      <3> SUFFICES ASSUME NEW u \in Armed'
                   PROVE  \/ OnList(u)'
                          \/ \E m \in ToSet(xTimerQueue') : m.id = "reload" /\ m.timer = u
                          \/ Restarting' /\ running'.timer = u
        BY DEF Accounted
      <3>1. CASE u = t
        BY <2>d, <2>e, <2>f, <3>1 DEF Armed
      <3>2. CASE u # t
        <4>1. u \in Armed
          BY <2>e, <3>2 DEF Armed
        <4> QED BY <1>a, <1>b, <2>g, <3>2, <4>1 DEF Accounted, t
      <3> QED BY <3>1, <3>2
    <2>7. DeletesLast'
      BY <1>a, <1>f, <2>g DEF DeletesLast
    <2> QED BY <2>1, <2>2, <2>3, <2>4, <2>5, <2>6, <2>7 DEF InOneTime, TimeLine
  <1>2. CASE ~ late
    <2>b. /\ InsertActive(t, next, xTimeNow, pxCurrentTimerList)
          /\ pc' = "receive"
          /\ UNCHANGED <<after, running, due>>
      BY <1>b, <1>2
    <2>c. ~ Switching' /\ ~ Reloading' /\ ~ Restarting' /\ ~ Reloads'
      BY <1>a, <2>b DEF Switching, Reloading, Restarting, Reloads
    <2>d. ahead > 0
      BY <1>2, <1>c
    <2>e. due'[t] # Off /\ due'[t] + Sampled = ahead /\ due'[t] >= -MaxBehind
      BY <1>a, <1>c, <1>d, <2>b, <2>d, Numbers
    <2>f. /\ pxCurrentTimerList' \in Seq(ItemSet) /\ pxOverflowTimerList' \in Seq(ItemSet)
          /\ Sorted' /\ Apart' /\ KeepTime'
          /\ \A u : OnList(u)' <=> OnList(u) \/ u = t
      <3>1. /\ pxCurrentTimerList \in Seq(ItemSet)
            /\ InOrder(pxCurrentTimerList) /\ IsInjective(pxCurrentTimerList)
        BY <1>a DEF Typed, Sorted, Apart
      <3>2. /\ ToSet(pxCurrentTimerList) = {item \in Current : item.timer # t}
            /\ \A item \in Overflow : item.timer # t
        BY <1>a DEF OnList, Current
      <3>3. ahead <= xTimerPeriodInTicks'[t]
        BY <1>b, <1>c DEF p
      <3>4. \A u \in Timers : u # t => /\ due'[u] = due[u]
                                       /\ xTimerPeriodInTicks'[u] = xTimerPeriodInTicks[u]
        BY <1>b, <2>b
      <3>5. pc # "assert" /\ TimeLine
        BY <1>b DEF InOneTime
      <3> QED BY <1>a, <1>b, <1>c, <2>b, <2>d, <2>e, <3>1, <3>2, <3>3, <3>4, <3>5,
                 InsertActiveKeeps
    <2>1. Typed'
      BY <1>a, <1>b, <2>b, <2>f DEF Typed
    <2>2. Steady'
      BY <1>a, <1>b, <1>e, <2>b, <2>c DEF Steady
    <2>3. OnePlace'
      BY <1>e, <2>c, <2>f DEF OnePlace
    <2>4. Wrapped' /\ InHand' /\ Waits'
      BY <1>e, <2>b, <2>c DEF Wrapped, InHand, Waits
    <2>5. Accounted'
      BY <1>a, <1>b, <2>b, <2>f DEF Accounted, Armed, t
    <2>6. DeletesLast'
      BY <1>a, <1>f, <2>f DEF DeletesLast
    <2> QED BY <2>1, <2>2, <2>3, <2>4, <2>5, <2>6, <2>f DEF InOneTime, TimeLine
  <1> QED BY <1>1, <1>2


(* The first timer of the current list. *)
LEMMA FirstTimer ==
    ASSUME TimeLine, pxCurrentTimerList # <<>>
    PROVE  LET item == Head(pxCurrentTimerList)
               rest == Tail(pxCurrentTimerList)
           IN  /\ item \in ItemSet /\ item \in Current /\ item.timer \in Timers
               /\ item.value \in Int /\ 0 <= item.value /\ item.value < TickMod
               /\ rest \in Seq(ItemSet) /\ InOrder(rest) /\ IsInjective(rest)
               /\ ToSet(rest) = {i \in Current : i.timer # item.timer}
               /\ \A i \in Overflow : i.timer # item.timer
               /\ \A i \in Current : item.value <= i.value
               /\ OnTime(item.timer, item.value - xLastTime)
  <1> DEFINE item == Head(pxCurrentTimerList)
             rest == Tail(pxCurrentTimerList)
  <1>1. Typed /\ Sorted /\ Apart /\ KeepTime
    BY DEF TimeLine, OnePlace
  <1>2. /\ pxCurrentTimerList \in Seq(ItemSet) /\ InOrder(pxCurrentTimerList)
        /\ IsInjective(pxCurrentTimerList)
    BY <1>1 DEF Typed, Sorted, Apart
  <1>3. /\ rest \in Seq(ItemSet) /\ IsInjective(rest) /\ InOrder(rest)
        /\ item \in ItemSet /\ item \in Current /\ ToSet(rest) = Current \ {item}
        /\ \A i \in Current : item.value <= i.value
    BY <1>2, HeadFirst DEF Current
  <1> HIDE DEF item, rest
  <1>4. ToSet(rest) = {i \in Current : i.timer # item.timer}
    BY <1>1, <1>3 DEF Apart
  <1>5. \A i \in Overflow : i.timer # item.timer
    BY <1>1, <1>3 DEF Apart
  <1>6. OnTime(item.timer, item.value - xLastTime)
    BY <1>1, <1>3 DEF KeepTime
  <1> QED BY <1>1, <1>3, <1>4, <1>5, <1>6, PerItem DEF item, rest

LEMMA ProcessExpiredTimerKeeps == InOneTime /\ ProcessExpiredTimer => InOneTime'
  <1> SUFFICES ASSUME InOneTime, ProcessExpiredTimer PROVE InOneTime'
    OBVIOUS
  <1> DEFINE item == Head(pxCurrentTimerList)
             t == item.timer
             p == xTimerPeriodInTicks[t]
             next == Add(item.value, p)
             rest == Tail(pxCurrentTimerList)
             ahead == p - Elapsed(xTimeNow, item.value)
             late == ExpiredBefore(next, xTimeNow, item.value, p)
  <1>a. Typed /\ Steady /\ Sorted /\ Apart /\ KeepTime /\ Accounted /\ DeletesLast /\ TimeLine
    BY DEF InOneTime, TimeLine, OnePlace
  <1>b. /\ pc = "expired"
        /\ \/ /\ ~AutoReload(t)
              /\ pxCurrentTimerList' = rest
              /\ Fire(item, "receive")
              /\ UNCHANGED <<pxOverflowTimerList, xTimerQueue>>
           \/ /\ AutoReload(t) /\ ~late
              /\ InsertActive(t, next, xTimeNow, rest)
              /\ Fire(item, "receive")
              /\ UNCHANGED xTimerQueue
           \/ /\ AutoReload(t) /\ late
              /\ pxCurrentTimerList' = rest
              /\ PostReload(t, item.value)
              /\ IF Room THEN Fire(item, "receive")
                         ELSE pc' = "assert" /\ UNCHANGED <<after, running, due>>
              /\ UNCHANGED pxOverflowTimerList
        /\ UNCHANGED <<program, xTickCount, xTimerPeriodInTicks, xLastTime, xTimeNow,
                       xMessage, suspended, wakeTime, life>>
    BY DEF ProcessExpiredTimer
  <1>c. /\ ~ Switching /\ ~ Reloading /\ ~ Restarting /\ ~ Pending
        /\ after = "receive" /\ running = NoItem /\ suspended = FALSE
        /\ pxCurrentTimerList # <<>> /\ item.value <= xTimeNow /\ xLastTime = xTimeNow
    BY <1>a, <1>b DEF Switching, Reloading, Restarting, Steady, Typed
  <1>d. /\ item \in ItemSet /\ item \in Current /\ t \in Timers
        /\ item.value \in Int /\ 0 <= item.value /\ item.value < TickMod
        /\ rest \in Seq(ItemSet) /\ InOrder(rest) /\ IsInjective(rest)
        /\ ToSet(rest) = {i \in Current : i.timer # t}
        /\ \A i \in Overflow : i.timer # t
        /\ OnTime(t, item.value - xLastTime)
    BY <1>a, <1>c, FirstTimer
  <1> HIDE DEF item, rest
  <1>e. /\ next \in Ticks /\ ahead \in Int /\ ahead <= p
        /\ late <=> ahead <= 0
        /\ ahead > 0 => ahead = IF next <= xTimeNow THEN next + TickMod - xTimeNow
                                                    ELSE next - xTimeNow
        /\ Elapsed(xTimeNow, item.value) = xTimeNow - item.value
    <2>1. xTimeNow \in Ticks /\ p \in Periods /\ item.value \in Ticks
      BY <1>a, <1>d, PerTimer DEF Typed, ItemSet
    <2>2. Elapsed(xTimeNow, item.value) = xTimeNow - item.value
      BY <1>c, <2>1, Clock
    <2> HIDE DEF t, p
    <2> QED BY <2>1, <2>2, LateFacts
  <1>f. /\ due[t] \in Int /\ due[t] # Off /\ due[t] >= -MaxBehind
        /\ due[t] + Sampled = item.value - xLastTime /\ due[t] <= 0
        /\ p \in Int /\ 0 < p
    <2>1. /\ due[t] \in Int /\ p \in Int /\ 0 < p
          /\ due[t] # Off /\ due[t] >= -MaxBehind /\ due[t] + Sampled = item.value - xLastTime
      BY <1>a, <1>d, PerTimer DEF OnTime
    <2>2. xLastTime \in Int /\ Sampled \in Int /\ 0 <= Sampled
      BY <1>a, Numbers
    <2> HIDE DEF t, p
    <2> QED BY <1>c, <1>d, <2>1, <2>2
  <1>g. ~ Pending'
    BY <1>b, <1>c DEF Pending
  <1>h. /\ \A i, j \in DOMAIN xTimerQueue : i < j /\ xTimerQueue[i].id = "delete"
                               => xTimerQueue[j].timer # xTimerQueue[i].timer
        /\ xMessage.id # "delete"
    BY <1>a, <1>c DEF DeletesLast, Pending, NoMessage
  <1> HIDE DEF t, p, next, ahead, late
  <1>1. ASSUME Fire(item, "receive")
        PROVE  /\ pc' = "callback" /\ after' = "receive" /\ running' = item
               /\ due' \in [Timers -> (-TickMod .. TickMod) \union {Off}]
               /\ \A u \in Timers : u # t => due'[u] = due[u]
               /\ AutoReload(t) => due'[t] = due[t] + p /\ due'[t] # Off
               /\ ~ AutoReload(t) => due'[t] = Off
    BY <1>1, <1>a, <1>d, <1>f, FireFacts DEF t, p
  <1>2. ASSUME pxCurrentTimerList' = rest, pxOverflowTimerList' = pxOverflowTimerList
        PROVE  /\ Current' = {i \in Current : i.timer # t} /\ Overflow' = Overflow
               /\ \A u : OnList(u)' <=> OnList(u) /\ u # t
               /\ Sorted' /\ Apart'
    <2>1. Current' = {i \in Current : i.timer # t} /\ Overflow' = Overflow
      BY <1>2, <1>d DEF Current, Overflow
    <2>2. \A u : OnList(u)' <=> OnList(u) /\ u # t
      BY <1>d, <2>1 DEF OnList
    <2>3. Sorted'
      BY <1>2, <1>a, <1>d DEF Sorted
    <2>4. Apart'
      BY <1>2, <1>a, <1>d, <2>1 DEF Apart
    <2> QED BY <2>1, <2>2, <2>3, <2>4
  <1>3. CASE ~AutoReload(t) \/ late
    <2>b. /\ pxCurrentTimerList' = rest /\ pxOverflowTimerList' = pxOverflowTimerList
          /\ \/ ~AutoReload(t) /\ Fire(item, "receive") /\ UNCHANGED xTimerQueue
             \/ AutoReload(t) /\ PostReload(t, item.value) /\ Room /\ Fire(item, "receive")
             \/ /\ AutoReload(t) /\ PostReload(t, item.value)
                /\ pc' = "assert" /\ UNCHANGED <<after, running, due>>
      BY <1>b, <1>3
    <2>c. /\ Current' = {i \in Current : i.timer # t} /\ Overflow' = Overflow
          /\ \A u : OnList(u)' <=> OnList(u) /\ u # t
          /\ Sorted' /\ Apart'
      BY <1>2, <2>b
    <2>d. /\ xTimerQueue' \in Seq(MessageSet) /\ Len(xTimerQueue') <= QueueLength
          /\ ToSet(xTimerQueue) \subseteq ToSet(xTimerQueue')
          /\ AutoReload(t) /\ Room =>
                \E m \in ToSet(xTimerQueue') : m.id = "reload" /\ m.timer = t
          /\ DeletesLast'
      <3>1. CASE ~AutoReload(t)
        <4>1. UNCHANGED <<xTimerQueue, program, life, xMessage>>
          BY <1>b, <2>b, <3>1
        <4> QED BY <1>a, <1>g, <2>c, <3>1, <4>1 DEF DeletesLast, Typed
      <3>2. CASE AutoReload(t)
        <4>1. PostReload(t, item.value) /\ item.value \in Ticks
          BY <1>d, <2>b, <3>2 DEF ItemSet
        <4> QED BY <1>a, <1>b, <3>2, <4>1, PostReloadFacts
      <3> QED BY <3>1, <3>2
    <2>e. /\ pc' \in {"callback", "assert"} /\ after' = "receive"
          /\ running' \in ItemSet \union {NoItem}
          /\ due' \in [Timers -> (-TickMod .. TickMod) \union {Off}]
          /\ \A u \in Timers : u # t => due'[u] = due[u]
          /\ pc' = "callback" => due'[t] = Off \/ (AutoReload(t) /\ Room)
      <3>1. due \in [Timers -> (-TickMod .. TickMod) \union {Off}]
        BY <1>a DEF Typed
      <3> QED BY <1>1, <1>c, <1>d, <2>b, <3>1
    <2>f. ~ Switching' /\ ~ Reloading' /\ ~ Restarting' /\ ~ Reloads'
      BY <2>e DEF Switching, Reloading, Restarting, Reloads
    <2>1. Typed'
      <3>1. pxCurrentTimerList' \in Seq(ItemSet) /\ pxOverflowTimerList' \in Seq(ItemSet)
        BY <1>a, <1>d, <2>b DEF Typed
      <3> QED BY <1>a, <1>b, <2>d, <2>e, <3>1 DEF Typed
    <2>2. Steady'
      BY <1>b, <1>c, <1>g, <2>e, <2>f DEF Steady
    <2>3. OnePlace'
      BY <1>g, <2>c, <2>f DEF OnePlace
    <2>4. KeepTime'
      <3>1. \A i \in Current' \union Overflow' :
                i \in Current \union Overflow /\ due'[i.timer] = due[i.timer]
        BY <1>a, <1>d, <2>c, <2>e, PerItem
      <3>2. Sampled' = Sampled
        BY <1>b DEF Sampled
      <3>3. pc # "assert" /\ (\A i \in Current' : i \in Current)
            /\ (\A i \in Overflow' : i \in Overflow)
        BY <1>b, <2>c
      <3> QED BY <1>a, <1>b, <1>c, <3>1, <3>2, <3>3 DEF KeepTime, OnTime
    <2>5. Wrapped' /\ InHand' /\ Waits'
      BY <1>g, <2>e, <2>f DEF Wrapped, InHand, Waits
    <2>6. Accounted'
      <3> SUFFICES ASSUME pc' # "assert", NEW u \in Armed'
                   PROVE  \/ OnList(u)'
                          \/ \E m \in ToSet(xTimerQueue') : m.id = "reload" /\ m.timer = u
        BY DEF Accounted
      <3>1. CASE u = t
        BY <2>d, <2>e, <3>1 DEF Armed
      <3>2. CASE u # t
        <4>1. u \in Armed
          BY <2>e, <3>2 DEF Armed
        <4> QED BY <1>a, <1>b, <1>c, <2>c, <2>d, <3>2, <4>1 DEF Accounted
      <3> QED BY <3>1, <3>2
    <2> QED BY <2>1, <2>2, <2>3, <2>4, <2>5, <2>6, <2>c, <2>d DEF InOneTime, TimeLine
  <1>4. CASE AutoReload(t) /\ ~late
    <2>b. /\ InsertActive(t, next, xTimeNow, rest)
          /\ Fire(item, "receive") /\ UNCHANGED xTimerQueue
      BY <1>b, <1>4
    <2>c. /\ pc' = "callback" /\ after' = "receive" /\ running' = item
          /\ due' \in [Timers -> (-TickMod .. TickMod) \union {Off}]
          /\ \A u \in Timers : u # t => due'[u] = due[u]
          /\ due'[t] = due[t] + p /\ due'[t] # Off
      BY <1>1, <1>4, <2>b
    <2>d. ~ Switching' /\ ~ Reloading' /\ ~ Restarting' /\ ~ Reloads'
      BY <2>c DEF Switching, Reloading, Restarting, Reloads
    <2>e. /\ ahead > 0 /\ due'[t] + Sampled = ahead /\ due'[t] >= -MaxBehind
      <3>1. ahead > 0 /\ ahead = p - (xTimeNow - item.value)
        BY <1>4, <1>e DEF ahead
      <3>2. /\ xLastTime \in Int /\ Sampled \in Int /\ MaxBehind \in Int
            /\ due[t] \in Int /\ p \in Int /\ 0 < p /\ item.value \in Int
            /\ xTimeNow = xLastTime /\ due'[t] = due[t] + p
            /\ due[t] + Sampled = item.value - xLastTime /\ due[t] >= -MaxBehind
        BY <1>a, <1>c, <1>d, <1>f, <2>c, Numbers
      <3>3. due'[t] + Sampled = ahead
        BY <3>1, <3>2
      <3>4. due'[t] >= -MaxBehind
        BY <3>2
      <3> QED BY <3>1, <3>3, <3>4
    <2>f. /\ pxCurrentTimerList' \in Seq(ItemSet) /\ pxOverflowTimerList' \in Seq(ItemSet)
          /\ Sorted' /\ Apart' /\ KeepTime'
          /\ \A u : OnList(u)' <=> OnList(u) \/ u = t
      <3>1. Sampled' = Sampled /\ due'[t] + Sampled' = ahead
        BY <1>b, <2>e DEF Sampled
      <3>2. ahead <= xTimerPeriodInTicks'[t]
        BY <1>b, <1>e DEF p
      <3>3. \A u \in Timers : u # t => /\ due'[u] = due[u]
                                       /\ xTimerPeriodInTicks'[u] = xTimerPeriodInTicks[u]
        BY <1>b, <2>c
      <3>4. pc # "assert"
        BY <1>b
      <3> QED BY <1>a, <1>b, <1>c, <1>d, <1>e, <2>b, <2>c, <2>e, <3>1, <3>2, <3>3, <3>4,
                 InsertActiveKeeps
    <2>g. OnList(t) /\ \A u : OnList(u)' <=> OnList(u)
      <3>1. OnList(t)
        BY <1>d DEF OnList, t
      <3> QED BY <2>f, <3>1
    <2>1. Typed'
      BY <1>a, <1>b, <1>d, <2>b, <2>c, <2>f DEF Typed
    <2>2. Steady'
      BY <1>b, <1>c, <1>g, <2>c, <2>d DEF Steady
    <2>3. OnePlace'
      BY <1>g, <2>d, <2>f DEF OnePlace
    <2>4. Wrapped' /\ InHand' /\ Waits'
      BY <1>g, <2>c, <2>d DEF Wrapped, InHand, Waits
    <2>5. Accounted'
      <3>1. Armed' \subseteq Armed
        BY <1>f, <2>c DEF Armed
      <3> QED BY <1>a, <1>b, <1>c, <2>b, <2>g, <3>1 DEF Accounted
    <2>6. DeletesLast'
      BY <1>a, <1>b, <1>g, <2>b, <2>g DEF DeletesLast
    <2> QED BY <2>1, <2>2, <2>3, <2>4, <2>5, <2>6, <2>f DEF InOneTime, TimeLine
  <1> QED BY <1>3, <1>4

-----------------------------------------------------------------------------
(* The lists are switched. *)

LEMMA SwitchExpiresKeeps == InOneTime /\ SwitchExpires => InOneTime'
  <1> SUFFICES ASSUME InOneTime, SwitchExpires PROVE InOneTime'
    OBVIOUS
  <1> DEFINE item == Head(pxCurrentTimerList)
             t == item.timer
             v == item.value
             p == xTimerPeriodInTicks[t]
             rest == Tail(pxCurrentTimerList)
             place == IF AutoReload(t) THEN "reload" ELSE "switch"
  <1>a. /\ Typed /\ Steady /\ Sorted /\ OnePlace /\ Apart /\ KeepTime /\ Wrapped /\ InHand
        /\ Accounted /\ DeletesLast /\ TimeLine
    BY DEF InOneTime, TimeLine, OnePlace
  <1>b. /\ pc = "switch" /\ pxCurrentTimerList # <<>>
        /\ pxCurrentTimerList' = rest /\ Fire(item, place)
        /\ UNCHANGED <<program, xTickCount, pxOverflowTimerList, xTimerPeriodInTicks,
                       xTimerQueue, xLastTime, xTimeNow, xMessage, suspended, wakeTime, life>>
    BY DEF SwitchExpires
  <1>c. Switching /\ ~ Reloading /\ ~ Restarting /\ ~ Reloads /\ after = "receive"
    BY <1>a, <1>b DEF Switching, Reloading, Restarting, Reloads, Steady
  <1>d. /\ item \in ItemSet /\ item \in Current /\ t \in Timers
        /\ v \in Int /\ 0 <= v /\ v < TickMod
        /\ rest \in Seq(ItemSet) /\ InOrder(rest) /\ IsInjective(rest)
        /\ ToSet(rest) = {i \in Current : i.timer # t}
        /\ \A i \in Overflow : i.timer # t
        /\ OnTime(t, v - xLastTime)
    BY <1>a, <1>b, FirstTimer
  <1> HIDE DEF item, rest
  <1>e. /\ xTimeNow < xLastTime /\ xTimeNow <= xTickCount /\ xTickCount < xLastTime
        /\ v - xLastTime <= p \/ MaxBehind <= xLastTime
    BY <1>a, <1>c, <1>d DEF Wrapped
  <1>f. /\ due[t] \in Int /\ p \in Int /\ 0 < p /\ p < TickMod
        /\ due[t] # Off /\ due[t] >= -MaxBehind /\ due[t] + Sampled = v - xLastTime
        /\ Sampled = xTickCount - xLastTime + TickMod
        /\ xTickCount \in Int /\ 0 <= xTickCount /\ xLastTime \in Int /\ xLastTime < TickMod
        /\ TickMod \in Int /\ MaxBehind \in Nat /\ 3 * MaxBehind <= TickMod
    <2>1. /\ due[t] \in Int /\ p \in Int /\ 0 < p
          /\ due[t] # Off /\ due[t] >= -MaxBehind /\ due[t] + Sampled = v - xLastTime
      BY <1>a, <1>d, PerTimer DEF OnTime
    <2>2. p < TickMod
      <3>1. p \in Periods
        BY <1>a, <1>d, PerTimer
      <3> HIDE DEF p
      <3> QED BY <3>1, PeriodIsTick, BoundsAssumption DEF Ticks
    <2>3. Sampled = xTickCount - xLastTime + TickMod
      BY <1>a, <1>e, Numbers
    <2> HIDE DEF t, v, p
    <2> QED BY <1>a, <2>1, <2>2, <2>3, Numbers
  <1> HIDE DEF t, v, p, place
  <1>g. due[t] <= 0
    BY <1>d, <1>e, <1>f
  <1>h. v + p < TickMod => MaxBehind <= xLastTime
    <2> SUFFICES ASSUME v + p < TickMod, v - xLastTime <= p PROVE MaxBehind <= xLastTime
      BY <1>e
    <2>1. v >= TickMod - MaxBehind
      BY <1>d, <1>f
    <2> QED BY <1>d, <1>f, <2>1
  <1>i. /\ pc' = "callback" /\ after' = place /\ running' = item
        /\ due' \in [Timers -> (-TickMod .. TickMod) \union {Off}]
        /\ \A u \in Timers : u # t => due'[u] = due[u]
        /\ AutoReload(t) => due'[t] = due[t] + p /\ due'[t] # Off
        /\ ~ AutoReload(t) => due'[t] = Off
    BY <1>a, <1>b, <1>d, <1>f, <1>g, FireFacts DEF t, p
  <1>j. /\ Switching' /\ ~ Restarting' /\ (Reloading' <=> AutoReload(t))
        /\ Reloads' <=> AutoReload(t) /\ v + p < TickMod
        /\ Pending' <=> Pending
        /\ Sampled' = Sampled /\ Since' = Since
    <2>1. Switching' /\ ~ Restarting' /\ (Reloading' <=> AutoReload(t))
      BY <1>i DEF Switching, Restarting, Reloading, place
    <2>2. running'.value = v /\ running'.timer = t /\ xTimerPeriodInTicks'[t] = p
      BY <1>b, <1>i DEF v, t, p
    <2>3. Reloads' <=> AutoReload(t) /\ v + p < TickMod
      BY <2>1, <2>2 DEF Reloads
    <2> QED BY <1>b, <2>1, <2>3 DEF Pending, Sampled, Since
  <1>k. /\ Current' = {i \in Current : i.timer # t} /\ Overflow' = Overflow
        /\ OnList(t) /\ \A u : OnList(u)' <=> OnList(u) /\ u # t
    <2>1. Current' = {i \in Current : i.timer # t} /\ Overflow' = Overflow
      BY <1>b, <1>d DEF Current, Overflow
    <2>2. OnList(t)
      BY <1>d DEF OnList, t
    <2> QED BY <1>d, <2>1, <2>2 DEF OnList
  <1>1. Typed'
    <2>1. place \in {"reload", "switch"}
      BY DEF place
    <2> QED BY <1>a, <1>b, <1>d, <1>i, <2>1 DEF Typed
  <1>2. Steady'
    <2>1. running' = item /\ item \in ItemSet /\ item.timer = t
      BY <1>d, <1>i DEF t
    <2>2. AutoReload(running.timer)' <=> AutoReload(t)
      BY <1>b, <2>1 DEF AutoReload
    <2> QED BY <1>a, <1>b, <1>c, <1>i, <1>j, <2>1, <2>2 DEF Steady
  <1>3. Sorted' /\ OnePlace'
    <2>1. Sorted'
      BY <1>a, <1>b, <1>d DEF Sorted
    <2>2. Apart'
      BY <1>a, <1>b, <1>d, <1>k DEF Apart
    <2>3. running'.timer = t
      BY <1>i DEF t
    <2> QED BY <1>a, <1>b, <1>j, <1>k, <2>1, <2>2, <2>3 DEF OnePlace
  <1>4. KeepTime'
    <2>1. \A i \in Current' \union Overflow' :
              i \in Current \union Overflow /\ due'[i.timer] = due[i.timer]
      BY <1>a, <1>d, <1>i, <1>k, PerItem
    <2>2. (\A i \in Current' : i \in Current) /\ (\A i \in Overflow' : i \in Overflow)
      BY <1>k
    <2> QED BY <1>a, <1>b, <1>j, <2>1, <2>2 DEF KeepTime, OnTime
  <1>5. Wrapped'
    <2>1. ASSUME AutoReload(t), v + p < TickMod
          PROVE  OnTime(running.timer, running.value - xLastTime
                                         + xTimerPeriodInTicks[running.timer])'
      <3>1. due'[t] = due[t] + p /\ due'[t] # Off
        BY <1>i, <2>1
      <3>2. due'[t] + Sampled = v - xLastTime + p
        BY <1>d, <1>f, <3>1
      <3>3. due'[t] >= -MaxBehind
        BY <1>f, <3>1
      <3>4. running'.value = v /\ running'.timer = t /\ xTimerPeriodInTicks'[t] = p
        BY <1>b, <1>i DEF v, t, p
      <3> QED BY <1>b, <1>j, <3>1, <3>2, <3>3, <3>4 DEF OnTime
    <2>2. \A i \in Current' : i \in Current
      BY <1>k
    <2> QED BY <1>a, <1>b, <1>c, <1>e, <1>h, <1>j, <2>1, <2>2 DEF Wrapped
  <1>6. InHand'
    <2> SUFFICES ASSUME Pending PROVE InHand'
      BY <1>j DEF InHand
    <2>1. xMessage \in MessageSet /\ xMessage.id # "function" /\ ~ OnList(xMessage.timer)
      BY <1>a DEF Typed, Steady, Pending, OnePlace
    <2>2. xMessage.timer \in Timers /\ xMessage.timer # t
      BY <1>k, <2>1 DEF MessageSet
    <2>3. due'[xMessage.timer] = due[xMessage.timer]
      BY <1>i, <2>2
    <2> QED BY <1>a, <1>b, <1>j, <2>3 DEF InHand
  <1>7. Accounted'
    <2> SUFFICES ASSUME NEW u \in Armed'
                 PROVE  \/ OnList(u)'
                        \/ \E m \in ToSet(xTimerQueue') : m.id = "reload" /\ m.timer = u
                        \/ Pending' /\ xMessage'.timer = u
                        \/ Reloading' /\ running'.timer = u
      BY DEF Accounted
    <2>1. CASE u = t
      BY <1>i, <1>j, <2>1 DEF Armed, t
    <2>2. CASE u # t
      <3>1. u \in Armed
        BY <1>i, <2>2 DEF Armed
      <3> QED BY <1>a, <1>b, <1>c, <1>j, <1>k, <2>2, <3>1 DEF Accounted
    <2> QED BY <2>1, <2>2
  <1>8. Waits'
    BY <1>i DEF Waits
  <1>9. DeletesLast'
    BY <1>a, <1>b, <1>j, <1>k DEF DeletesLast
  <1> QED BY <1>1, <1>2, <1>3, <1>4, <1>5, <1>6, <1>7, <1>8, <1>9 DEF InOneTime, TimeLine

LEMMA SwitchReloadsKeeps == InOneTime /\ SwitchReloads => InOneTime'
  <1> SUFFICES ASSUME InOneTime, SwitchReloads PROVE InOneTime'
    OBVIOUS
  <1> DEFINE t == running.timer
             v == running.value
             p == xTimerPeriodInTicks[t]
             xReloadTime == Add(v, p)
             new == Item(t, xReloadTime)
  <1>a. /\ Typed /\ Steady /\ Sorted /\ OnePlace /\ Apart /\ KeepTime /\ Wrapped /\ InHand
        /\ Accounted /\ DeletesLast
    BY DEF InOneTime, TimeLine, OnePlace
  <1>b. /\ pc = "reload"
        /\ \/ /\ xReloadTime > v
              /\ pxCurrentTimerList' = Insert(pxCurrentTimerList, new)
              /\ pc' = "switch"
              /\ UNCHANGED xTimerQueue
           \/ /\ xReloadTime <= v
              /\ PostReload(t, v)
              /\ pc' = IF Room THEN "switch" ELSE "assert"
              /\ UNCHANGED pxCurrentTimerList
        /\ running' = NoItem
        /\ UNCHANGED <<program, xTickCount, pxOverflowTimerList, xTimerPeriodInTicks,
                       xLastTime, xTimeNow, after, xMessage, suspended, wakeTime, life, due>>
    BY DEF SwitchReloads, promiseVars
  <1>c. /\ Switching /\ Reloading /\ ~ Restarting /\ after = "receive"
        /\ running \in ItemSet /\ AutoReload(t) /\ ~ OnList(t)
        /\ Pending => xMessage.timer # t
    BY <1>a, <1>b DEF Switching, Reloading, Restarting, Steady, OnePlace
  <1>d. /\ t \in Timers /\ v \in Ticks /\ v \in Int /\ 0 <= v /\ p \in Periods
        /\ p \in Int /\ 0 < p /\ p < TickMod /\ TickMod \in Int
    <2>1. t \in Timers /\ v \in Ticks
      BY <1>c DEF ItemSet
    <2>2. p \in Periods /\ TickMod \in Nat
      BY <1>a, <2>1, PerTimer, BoundsAssumption
    <2> HIDE DEF v, p
    <2> QED BY <2>1, <2>2, PeriodIsTick DEF Ticks
  <1>e. /\ xReloadTime = IF v + p < TickMod THEN v + p ELSE v + p - TickMod
        /\ xReloadTime \in Ticks
    <2> HIDE DEF v, p
    <2> QED BY <1>d, Later
  <1>f. Reloads <=> v + p < TickMod
    BY <1>c DEF Reloads
  <1>g. /\ xReloadTime > v <=> v + p < TickMod
        /\ xReloadTime <= v <=> ~ (v + p < TickMod)
    <2> HIDE DEF v, p, xReloadTime
    <2> QED BY <1>d, <1>e
  <1>h. /\ ~ Reloading' /\ ~ Restarting' /\ ~ Reloads'
        /\ Pending' <=> Pending
        /\ Sampled' = Sampled /\ Since' = Since /\ Armed' = Armed
        /\ pc' \in {"switch", "assert"} /\ (pc' = "switch" <=> Switching')
    BY <1>b, <1>c
       DEF Reloading, Restarting, Reloads, Pending, Sampled, Since, Armed, Switching
  <1>i. InHand' /\ Waits'
    BY <1>a, <1>b, <1>h DEF InHand, Waits
  <1>j. Steady'
    BY <1>a, <1>b, <1>c, <1>h DEF Steady
  <1> HIDE DEF v, p, t, xReloadTime, new
  <1>1. CASE v + p < TickMod
    <2>b. /\ pxCurrentTimerList' = Insert(pxCurrentTimerList, new)
          /\ pc' = "switch" /\ UNCHANGED xTimerQueue
      BY <1>b, <1>d, <1>g, <1>1
    <2>c. new \in ItemSet /\ new.timer = t /\ new.value = v + p
      BY <1>d, <1>e, <1>1 DEF new, Item, ItemSet
    <2>d. new \notin Current /\ (\A i \in Current \union Overflow : i.timer # t)
      BY <1>c, <2>c DEF OnList
    <2>e. /\ pxCurrentTimerList' \in Seq(ItemSet) /\ InOrder(pxCurrentTimerList')
          /\ IsInjective(pxCurrentTimerList')
          /\ Current' = Current \union {new} /\ Overflow' = Overflow
      <3>1. /\ pxCurrentTimerList \in Seq(ItemSet) /\ InOrder(pxCurrentTimerList)
            /\ IsInjective(pxCurrentTimerList)
        BY <1>a DEF Typed, Sorted, Apart
      <3>2. /\ pxCurrentTimerList' \in Seq(ItemSet) /\ InOrder(pxCurrentTimerList')
            /\ IsInjective(pxCurrentTimerList')
            /\ ToSet(pxCurrentTimerList') = ToSet(pxCurrentTimerList) \union {new}
        BY <2>b, <2>c, <2>d, <3>1, InsertFacts DEF Current
      <3> QED BY <1>b, <3>2 DEF Current, Overflow
    <2>f. \A u : OnList(u)' <=> OnList(u) \/ u = t
      BY <2>c, <2>e DEF OnList
    <2>g. /\ xTimeNow <= xTickCount /\ xTickCount < xLastTime /\ MaxBehind <= xLastTime
          /\ OnTime(t, v - xLastTime + p)
      BY <1>a, <1>c, <1>f, <1>1 DEF Wrapped, t, v, p
    <2>1. Typed'
      BY <1>a, <1>b, <2>b, <2>e DEF Typed
    <2>2. Sorted'
      BY <1>a, <1>b, <2>e DEF Sorted
    <2>3. OnePlace'
      <3>1. Apart'
        BY <1>a, <1>b, <2>c, <2>d, <2>e DEF Apart
      <3> QED BY <1>a, <1>b, <1>c, <1>h, <2>f, <3>1 DEF OnePlace
    <2>4. KeepTime'
      <3>1. ASSUME NEW i, i = new PROVE OnTime(i.timer, i.value - xLastTime)'
        <4>1. v - xLastTime + p = i.value - xLastTime /\ i.timer = t
          BY <1>a, <1>d, <2>c, <3>1, Numbers
        <4>2. due' = due /\ xLastTime' = xLastTime /\ Sampled' = Sampled
          BY <1>b, <1>h
        <4> QED BY <2>g, <4>1, <4>2 DEF OnTime
      <3>2. \A i \in Current : OnTime(i.timer, i.value - xLastTime)'
        BY <1>a, <1>b, <1>h DEF KeepTime, OnTime
      <3>3. \A i \in Overflow : /\ OnTime(i.timer, i.value + TickMod - xLastTime)'
                                /\ i.value + TickMod - xLastTime <= xTimerPeriodInTicks[i.timer]
        BY <1>a, <1>b, <1>h DEF KeepTime, OnTime
      <3>4. Switching'
        BY <1>h, <2>b
      <3> QED BY <1>b, <2>e, <3>1, <3>2, <3>3, <3>4 DEF KeepTime
    <2>5. Wrapped'
      BY <1>a, <1>b, <1>c, <1>h, <2>e, <2>g DEF Wrapped
    <2>6. Accounted'
      BY <1>a, <1>b, <1>c, <1>h, <2>b, <2>f DEF Accounted, t
    <2>7. DeletesLast'
      <3>1. life[t] # "freed"
        BY <1>a, <1>c, NoDeletes
      <3> QED BY <1>a, <1>b, <1>h, <2>b, <2>f, <3>1 DEF DeletesLast
    <2> QED BY <1>i, <1>j, <2>1, <2>2, <2>3, <2>4, <2>5, <2>6, <2>7 DEF InOneTime, TimeLine
  <1>2. CASE ~ (v + p < TickMod)
    <2>b. /\ PostReload(t, v) /\ pc' = (IF Room THEN "switch" ELSE "assert")
          /\ UNCHANGED pxCurrentTimerList
      BY <1>b, <1>d, <1>g, <1>2
    <2>c. /\ xTimerQueue' \in Seq(MessageSet) /\ Len(xTimerQueue') <= QueueLength
          /\ ToSet(xTimerQueue) \subseteq ToSet(xTimerQueue')
          /\ Room => \E m \in ToSet(xTimerQueue') : m.id = "reload" /\ m.timer = t
          /\ DeletesLast'
      BY <1>a, <1>b, <1>c, <1>d, <2>b, PostReloadFacts
    <2>d. /\ Current' = Current /\ Overflow' = Overflow /\ (\A u : OnList(u)' <=> OnList(u))
      BY <1>b, <2>b DEF Current, Overflow, OnList
    <2>1. Typed'
      BY <1>a, <1>b, <1>h, <2>b, <2>c DEF Typed
    <2>2. Sorted' /\ OnePlace'
      BY <1>a, <1>b, <1>h, <2>b, <2>d DEF Sorted, OnePlace, Apart
    <2>3. KeepTime'
      BY <1>a, <1>b, <1>h, <2>d DEF KeepTime, OnTime
    <2>4. Wrapped'
      BY <1>a, <1>b, <1>c, <1>h, <2>d DEF Wrapped
    <2>5. Accounted'
      BY <1>a, <1>b, <1>c, <1>h, <2>b, <2>c, <2>d DEF Accounted, t
    <2> QED BY <1>i, <1>j, <2>1, <2>2, <2>3, <2>4, <2>5, <2>c DEF InOneTime, TimeLine
  <1> QED BY <1>1, <1>2

LEMMA SwitchTimerListsKeeps == InOneTime /\ SwitchTimerLists => InOneTime'
  <1> SUFFICES ASSUME InOneTime, SwitchTimerLists PROVE InOneTime'
    OBVIOUS
  <1>a. /\ Typed /\ Steady /\ Sorted /\ OnePlace /\ Apart /\ KeepTime /\ Wrapped /\ InHand
        /\ Accounted /\ DeletesLast
    BY DEF InOneTime, TimeLine, OnePlace
  <1>b. /\ pc = "switch" /\ pxCurrentTimerList = <<>>
        /\ pxCurrentTimerList' = pxOverflowTimerList /\ pxOverflowTimerList' = <<>>
        /\ xLastTime' = xTimeNow /\ suspended' = FALSE
        /\ pc' = IF suspended THEN "receive" ELSE "handle"
        /\ UNCHANGED <<program, xTickCount, xTimerPeriodInTicks, xTimerQueue, xTimeNow, after,
                       xMessage, running, wakeTime, life, due>>
    BY DEF SwitchTimerLists, promiseVars
  <1>c. Switching /\ ~ Reloading /\ ~ Restarting /\ running = NoItem /\ (Pending <=> ~suspended)
    BY <1>a, <1>b DEF Switching, Reloading, Restarting, Steady
  <1>d. /\ ~ Switching' /\ ~ Reloading' /\ ~ Restarting' /\ ~ Reloads'
        /\ Pending' <=> Pending
        /\ Since' = Since /\ Armed' = Armed /\ Sampled' = Since
    BY <1>b DEF Switching, Reloading, Restarting, Reloads, Pending, Since, Armed, Sampled
  <1>e. /\ Current = {} /\ Current' = Overflow /\ Overflow' = {}
        /\ \A u : OnList(u)' <=> OnList(u)
    <2>1. Current = {} /\ Current' = Overflow /\ Overflow' = {}
      BY <1>b DEF Current, Overflow, ToSet
    <2> QED BY <2>1 DEF OnList
  <1>1. Typed'
    BY <1>a, <1>b DEF Typed
  <1>2. Steady'
    BY <1>a, <1>b, <1>c, <1>d DEF Steady
  <1>3. Sorted'
    BY <1>a, <1>b DEF Sorted, InOrder
  <1>4. OnePlace'
    <2>1. IsInjective(pxCurrentTimerList') /\ IsInjective(pxOverflowTimerList')
      BY <1>a, <1>b DEF Apart, IsInjective
    <2>2. Apart'
      BY <1>a, <1>e, <2>1 DEF Apart
    <2> QED BY <1>a, <1>b, <1>d, <1>e, <2>2 DEF OnePlace
  <1>5. KeepTime'
    <2>1. ASSUME NEW item \in Overflow
          PROVE  /\ OnTime(item.timer, item.value - xLastTime)'
                 /\ item.value - xLastTime' <= xTimerPeriodInTicks[item.timer]
      <3> DEFINE t == item.timer
      <3>1. t \in Timers /\ item.value \in Int /\ 0 <= item.value
        BY <1>a, PerItem
      <3>2. /\ due[t] # Off /\ due[t] + Sampled = item.value + TickMod - xLastTime
            /\ due[t] >= -MaxBehind
            /\ item.value + TickMod - xLastTime <= xTimerPeriodInTicks[t]
        BY <1>a DEF KeepTime, OnTime
      <3>3. xTimeNow <= xTickCount /\ xTickCount < xLastTime
        BY <1>a, <1>c DEF Wrapped
      <3>4. due[t] \in Int /\ xTimerPeriodInTicks[t] \in Int
        BY <1>a, <3>1, PerTimer
      <3>5. /\ Sampled = xTickCount - xLastTime + TickMod /\ Since = xTickCount - xTimeNow
            /\ {xTickCount, xLastTime, xTimeNow, TickMod} \subseteq Int
            /\ 0 <= xTimeNow /\ xLastTime < TickMod
        BY <1>a, <3>3, Numbers
      <3>6. due'[t] # Off /\ due'[t] >= -MaxBehind /\ due'[t] = due[t]
        BY <1>b, <3>2
      <3> HIDE DEF t
      <3>7. due'[t] + Since = item.value - xTimeNow
        BY <3>1, <3>2, <3>4, <3>5, <3>6
      <3>8. item.value - xTimeNow <= xTimerPeriodInTicks[t]
        BY <3>1, <3>2, <3>4, <3>5
      <3> QED BY <1>b, <1>d, <3>6, <3>7, <3>8 DEF OnTime, t
    <2> QED BY <1>b, <1>d, <1>e, <2>1 DEF KeepTime
  <1>6. Wrapped' /\ Waits'
    BY <1>b, <1>d DEF Wrapped, Waits
  <1>7. InHand'
    BY <1>a, <1>b, <1>d DEF InHand
  <1>8. Accounted'
    BY <1>a, <1>b, <1>c, <1>d, <1>e DEF Accounted
  <1>9. DeletesLast'
    BY <1>a, <1>b, <1>d, <1>e DEF DeletesLast
  <1> QED BY <1>1, <1>2, <1>3, <1>4, <1>5, <1>6, <1>7, <1>8, <1>9 DEF InOneTime, TimeLine

-----------------------------------------------------------------------------
(* The timer task brings the two lists into one time line, whatever it does *)
(* and whoever sends it commands meanwhile.                                 *)

LEMMA StaysInOneTime == InOneTime /\ [TimersNext]_timerVars => InOneTime'
  <1> SUFFICES ASSUME InOneTime, [TimersNext]_timerVars PROVE InOneTime'
    OBVIOUS
  <1>1. CASE UNCHANGED timerVars
    BY <1>1 DEF timerVars, listVars, taskVars, promiseVars, InOneTime, TimeLine, Typed, Steady,
         Sorted, OnePlace, Apart, KeepTime, Wrapped, InHand, Accounted, Waits, DeletesLast,
         Current, Overflow, OnList, Switching, Reloading, Restarting, Pending, Sampled, Since,
         OnTime, Reloads, AutoReload, Armed
  <1>2. CASE TimerTask
    BY <1>2, ProcessTimerOrBlockKeeps, ProcessExpiredTimerKeeps, CallbackKeeps,
       SwitchExpiresKeeps, SwitchReloadsKeeps, SwitchTimerListsKeeps, ReceiveCommandKeeps,
       NoMoreCommandsKeeps, HandleStartKeeps, RestartKeeps, HandleChangePeriodKeeps,
       HandleStopDeleteKeeps
       DEF TimerTask
  <1>3. CASE Tick
    BY <1>3, TickKeeps
  <1>4. CASE SendFromISR \/ SendFromTask
    BY <1>4, SendFromISRKeeps, SendFromTaskKeeps
  <1>5. CASE \E t \in Timers : xTimerCreate(t)
    BY <1>5, CreateKeeps
  <1> QED BY <1>1, <1>2, <1>3, <1>4, <1>5 DEF TimersNext

(* The invariant the three theorems rest on: where the timer task is with   *)
(* the commands and the expiries of timers.c it has in hand, what the       *)
(* values in its two lists mean, and who still sees to a timer that is in   *)
(* neither.                                                                 *)
THEOREM AlwaysInOneTime == TimersSpec => []InOneTime
  <1>1. TimersInit => InOneTime
    BY Starts
  <1>2. InOneTime /\ [TimersNext]_timerVars => InOneTime'
    BY StaysInOneTime
  <1> QED BY <1>1, <1>2, PTL DEF TimersSpec

LEMMA ActiveCount ==
    ASSUME Typed, Apart
    PROVE  Len(pxCurrentTimerList) + Len(pxOverflowTimerList) = Cardinality(Active)
  <1>1. /\ pxCurrentTimerList \in Seq(ItemSet) /\ pxOverflowTimerList \in Seq(ItemSet)
        /\ IsInjective(pxCurrentTimerList) /\ IsInjective(pxOverflowTimerList)
    BY DEF Typed, Apart
  <1>2. Current = Range(pxCurrentTimerList) /\ Overflow = Range(pxOverflowTimerList)
    BY DEF Current, Overflow, ToSet, Range
  <1>3. /\ IsFiniteSet(Current) /\ Cardinality(Current) = Len(pxCurrentTimerList)
        /\ IsFiniteSet(Overflow) /\ Cardinality(Overflow) = Len(pxOverflowTimerList)
    BY <1>1, <1>2, RangeCount
  <1>4. Current \cap Overflow = {}
    BY DEF Apart
  <1> DEFINE Items == Current \cup Overflow
  <1>5. IsFiniteSet(Items) /\ Cardinality(Items) = Cardinality(Current) + Cardinality(Overflow)
    BY <1>3, <1>4, DisjointCount
  <1>6. \A a, b \in Items : a.timer = b.timer => a = b
    BY DEF Apart
  <1>7. Active = {item.timer : item \in Items}
    BY DEF Active, Current, Overflow
  <1> HIDE DEF Items
  <1> DEFINE owner == [item \in Items |-> item.timer]
  <1>8. owner \in Bijection(Items, Active)
    BY <1>6, <1>7 DEF Bijection, Injection, Surjection, IsInjective
  <1>9. Cardinality(Active) = Cardinality(Items)
    BY <1>5, <1>8, FS_Bijection DEF ExistsBijection
  <1> QED BY <1>3, <1>5, <1>9

(* Across every wrap of the tick counter an active timer is in one of the   *)
(* two lists once, the current or the overflow list of timers.c, and with   *)
(* the value of the tick it should expire at: whatever prvInsertTimerIn-    *)
(* ActiveList, prvProcessExpiredTimer and prvSwitchTimerLists do, and       *)
(* however late, within MaxBehind, they come to do it.                      *)
THEOREM ListsOnOneLine == TimersSpec => []ListsKeepTime
  <1>1. InOneTime => ListsKeepTime
    <2> SUFFICES ASSUME InOneTime PROVE ListsKeepTime
      OBVIOUS
    <2>a. Typed /\ Apart /\ KeepTime
      BY DEF InOneTime, TimeLine, OnePlace
    <2>1. TimersTypeOK
      <3>1. xTimerPeriodInTicks \in [Timers -> Nat \ {0}]
        BY <2>a DEF Typed, Periods
      <3>2. \A t \in Armed : due[t] \in -TickMod .. TickMod
        BY <2>a DEF Typed, Armed
      <3> QED BY <2>a, <3>1, <3>2 DEF Typed, TimersTypeOK, ItemSet
    <2>2. \A item \in Current : due[item.timer] + Sampled = item.value - xLastTime
      BY <2>a DEF KeepTime, OnTime
    <2>3. \A item \in Overflow : due[item.timer] + Sampled = item.value + TickMod - xLastTime
      BY <2>a DEF KeepTime, OnTime
    <2> QED BY <2>a, <2>1, <2>2, <2>3, ActiveCount
            DEF ListsKeepTime, Current, Overflow, Sampled
  <1> QED BY <1>1, AlwaysInOneTime, PTL

(* The timer task never sleeps past an expiry: when prvProcessTimerOrBlock- *)
(* Task has blocked, every timer that should expire is in a list, and       *)
(* vQueueWaitForMessageRestricted ends by the first of the expiries.        *)
THEOREM NobodyForgotten == TimersSpec => []NoneForgotten
  <1>1. InOneTime => NoneForgotten
    <2> SUFFICES ASSUME InOneTime, pc = "blocked", NEW t \in Armed
                 PROVE  /\ t \in Active /\ wakeTime # NoTime
                        /\ 0 < Elapsed(wakeTime, xTickCount)
                        /\ Elapsed(wakeTime, xTickCount) <= due[t]
      BY DEF NoneForgotten
    <2>a. Typed /\ Steady /\ KeepTime /\ Accounted /\ Waits /\ TimeLine
      BY DEF InOneTime, TimeLine
    <2>b. xTimerQueue = <<>> /\ ~ Pending /\ ~ Reloading /\ ~ Restarting
      BY <2>a DEF Waits, Steady, Switching, Reloading, Restarting
    <2>c. PICK item \in Current \union Overflow : item.timer = t
      BY <2>a, <2>b DEF Accounted, OnList, ToSet
    <2>1. t \in Active
      BY <2>c DEF Active, Current, Overflow
    <2>d. /\ t \in Timers /\ due[t] \in Int
          /\ item.value \in Int /\ 0 <= item.value /\ item.value < TickMod
      BY <2>a, <2>c, PerItem, PerTimer
    <2>e. /\ item \in Current => due[t] + Sampled = item.value - xLastTime
          /\ item \in Overflow => due[t] + Sampled = item.value + TickMod - xLastTime
      BY <2>a, <2>c DEF KeepTime, OnTime
    <2>2. CASE pxCurrentTimerList # <<>>
      <3> DEFINE first == Head(pxCurrentTimerList)
      <3>1. wakeTime = first.value /\ xLastTime <= xTickCount /\ xTickCount < wakeTime
        BY <2>2, <2>a DEF Waits
      <3>2. /\ first \in ItemSet /\ first.value \in Int
            /\ 0 <= first.value /\ first.value < TickMod
            /\ \A i \in Current : first.value <= i.value
        BY <2>2, <2>a, FirstTimer
      <3>3. wakeTime \in Ticks /\ xTickCount \in Ticks
        BY <2>a, <3>1, <3>2 DEF Typed, ItemSet
      <3> HIDE DEF first
      <3>4. Elapsed(wakeTime, xTickCount) = wakeTime - xTickCount
        BY <2>a, <3>1, <3>2, <3>3, Clock, Numbers
      <3>5. Sampled = xTickCount - xLastTime
        BY <2>a, <3>1, Numbers
      <3>6. item \in Overflow \/ wakeTime <= item.value
        BY <2>c, <3>1, <3>2
      <3>7. xTickCount \in Int /\ xLastTime \in Int /\ TickMod \in Int /\ NoTime = -1
        BY <2>a, Numbers DEF NoTime
      <3> QED BY <2>1, <2>c, <2>d, <2>e, <3>1, <3>2, <3>4, <3>5, <3>6, <3>7
    <2>3. CASE pxCurrentTimerList = <<>>
      <3>1. item \in Overflow
        BY <2>3, <2>c DEF Current, ToSet
      <3>2. wakeTime = 0 /\ 0 < xTickCount /\ xLastTime <= xTickCount
        BY <2>3, <2>a, <3>1 DEF Waits, Overflow, ToSet
      <3>3. wakeTime \in Ticks /\ xTickCount \in Ticks
        BY <2>a, <3>2, BoundsAssumption DEF Typed, Ticks
      <3>4. Elapsed(wakeTime, xTickCount) = TickMod - xTickCount
        BY <2>a, <3>2, <3>3, Clock, Numbers
      <3>5. Sampled = xTickCount - xLastTime
        BY <2>a, <3>2, Numbers
      <3>6. /\ xTickCount \in Int /\ xLastTime \in Int /\ TickMod \in Int /\ NoTime = -1
            /\ xTickCount < TickMod
        BY <2>a, Numbers DEF NoTime
      <3> QED BY <2>1, <2>d, <2>e, <3>1, <3>2, <3>4, <3>5, <3>6
    <2> QED BY <2>2, <2>3
  <1> QED BY <1>1, AlwaysInOneTime, PTL

(* The timer the task takes from the head of the current list is due, as it *)
(* is found expired and as the lists are switched.                          *)
LEMMA FirstIsDue ==
    ASSUME TimeLine, pc = "expired" \/ (pc = "switch" /\ pxCurrentTimerList # <<>>)
    PROVE  due[Head(pxCurrentTimerList).timer] <= 0
  <1> DEFINE item == Head(pxCurrentTimerList)
             t == item.timer
  <1>a. Typed /\ Steady /\ Wrapped
    BY DEF TimeLine
  <1>b. pxCurrentTimerList # <<>>
    BY <1>a DEF Steady
  <1>c. /\ item \in Current /\ t \in Timers /\ item.value \in Int /\ item.value < TickMod
        /\ OnTime(t, item.value - xLastTime)
    BY <1>b, FirstTimer
  <1>d. due[t] \in Int /\ due[t] + Sampled = item.value - xLastTime
    BY <1>a, <1>c, PerTimer DEF OnTime
  <1>1. CASE pc = "expired"
    <2>1. item.value <= xTimeNow /\ xLastTime = xTimeNow
      BY <1>1, <1>a DEF Steady, Switching
    <2>2. xLastTime \in Int /\ Sampled \in Int /\ 0 <= Sampled
      BY <1>a, Numbers
    <2> HIDE DEF t, item
    <2> QED BY <1>c, <1>d, <2>1, <2>2 DEF t, item
  <1>2. CASE pc = "switch"
    <2>1. xTickCount < xLastTime
      BY <1>2, <1>a, <1>c DEF Wrapped, Switching
    <2>2. /\ Sampled = xTickCount - xLastTime + TickMod
          /\ xTickCount \in Int /\ 0 <= xTickCount /\ xLastTime \in Int /\ TickMod \in Int
      BY <1>a, <2>1, Numbers
    <2> HIDE DEF t, item
    <2> QED BY <1>c, <1>d, <2>2 DEF t, item
  <1> QED BY <1>1, <1>2

(* No callback runs before its time: prvProcessExpiredTimer, the loop of    *)
(* prvSwitchTimerLists and prvProcessReceivedCommands, for a command that   *)
(* was handled late, call a timer back only when it is due.                 *)
THEOREM CallbacksInTime == TimersSpec => NeverEarly
  <1> DEFINE Step == \A t \in Timers :
                pc' = "callback" /\ pc # "callback" /\ running'.timer = t => due[t] <= 0
  <1>1. InOneTime /\ TimersNext => Step
    <2> SUFFICES ASSUME InOneTime, TimersNext, pc' = "callback", pc # "callback",
                        NEW t \in Timers, running'.timer = t
                 PROVE  due[t] <= 0
      OBVIOUS
    <2>a. Typed /\ Steady /\ TimeLine /\ InHand
      BY DEF InOneTime, TimeLine
    <2>1. CASE ProcessTimerOrBlock
      BY <2>1 DEF ProcessTimerOrBlock, Sample
    <2>2. CASE ProcessExpiredTimer
      <3>1. running' = Head(pxCurrentTimerList) /\ pc = "expired"
        BY <2>2 DEF ProcessExpiredTimer, Fire
      <3> QED BY <2>a, <3>1, FirstIsDue
    <2>3. CASE SwitchExpires
      <3>1. running' = Head(pxCurrentTimerList) /\ pc = "switch" /\ pxCurrentTimerList # <<>>
        BY <2>3 DEF SwitchExpires, Fire
      <3> QED BY <2>a, <3>1, FirstIsDue
    <2>4. CASE ReceiveCommand
      <3>1. Head(xTimerQueue).id = "function" /\ running' = running /\ pc = "receive"
        BY <2>4 DEF ReceiveCommand, Sample
      <3>2. running = NoItem
        BY <2>a, <3>1 DEF Steady
      <3>3. running'.timer = NoTimer
        BY <3>1, <3>2 DEF NoItem, Item
      <3> QED BY <3>3, TimersAssumption
    <2>5. CASE HandleStart
      <3> DEFINE u == xMessage.timer
                 command == xMessage.value
                 p == xTimerPeriodInTicks[u]
      <3>1. /\ pc = "handle" /\ xMessage.id \in {"start", "reload"}
            /\ ExpiredBefore(Add(command, p), xTimeNow, command, p)
            /\ running' = Item(u, command)
        BY <2>5 DEF HandleStart, Fire
      <3>2. u = t
        BY <3>1 DEF Item
      <3>3. /\ Pending /\ u \in Timers /\ command \in Ticks
        BY <3>1, HandleFacts
      <3>4. xTimeNow \in Ticks /\ p \in Periods
        BY <2>a, <3>3, PerTimer DEF Typed
      <3>5. due[u] = p - Elapsed(xTimeNow, command) - Since
        BY <2>a, <3>1, <3>3 DEF InHand
      <3> HIDE DEF p, command, u
      <3>6. p - Elapsed(xTimeNow, command) <= 0 /\ p - Elapsed(xTimeNow, command) \in Int
        BY <3>1, <3>3, <3>4, LateFacts
      <3>7. Since \in Int /\ 0 <= Since
        BY <2>a, Numbers
      <3> DEFINE ahead == p - Elapsed(xTimeNow, command)
      <3>8. due[u] = ahead - Since /\ ahead <= 0 /\ ahead \in Int
        BY <3>5, <3>6
      <3> HIDE DEF ahead
      <3> QED BY <3>2, <3>7, <3>8
    <2>6. CASE Callback \/ SwitchReloads \/ SwitchTimerLists \/ NoMoreCommands \/ Restart
                   \/ HandleChangePeriod \/ HandleStopDelete
      BY <2>6 DEF Callback, SwitchReloads, SwitchTimerLists, NoMoreCommands, Restart,
                  HandleChangePeriod, HandleStopDelete
    <2>7. CASE Tick \/ SendFromISR \/ SendFromTask \/ \E u \in Timers : xTimerCreate(u)
      BY <2>7 DEF Tick, SendFromISR, SendFromTask, xTimerCreate, Awake, taskVars
    <2> QED BY <2>1, <2>2, <2>3, <2>4, <2>5, <2>6, <2>7 DEF TimersNext, TimerTask
  <1>2. InOneTime /\ [TimersNext]_timerVars => [Step]_timerVars
    BY <1>1
  <1>3. TimersSpec => [][Step]_timerVars
    <2> HIDE DEF Step
    <2> QED BY <1>2, AlwaysInOneTime, PTL DEF TimersSpec
  <1> QED BY <1>3 DEF NeverEarly
=============================================================================
