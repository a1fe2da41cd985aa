------------------------------ MODULE Timeouts ------------------------------
(***************************************************************************)
(* The time-outs of lwIP (lwip/src/core/timeouts.c): a list in which every *)
(* entry holds the time after the one before it, the cyclic timers of the  *)
(* stack, the TCP timer that only runs while there are connections, and    *)
(* the wait of tcpip_thread for a message or the next time-out.            *)
(*                                                                         *)
(* Handlers run in tcpip_thread under the core lock, a handler is one      *)
(* step, and the clock advances between any two steps.  With               *)
(* LWIP_TCPIP_CORE_LOCKING_INPUT a packet is processed by the thread of    *)
(* the interface, under the core lock: its priority is lower, so           *)
(* tcpip_thread preempts it anywhere and it runs when tcpip_thread waits.  *)
(***************************************************************************)
EXTENDS Integers, SequencesExt

CONSTANTS
    cyclic_timers,      \* the handlers of lwip_cyclic_timers, without TCP's
    Interval,           \* their intervals, and that of "tcp"
    OneShots,           \* handlers of the application
    Msecs,              \* the delays it asks for
    ClockModulus,        \* 2^w for u32_t
    MaxLate,            \* bound: how far the clock passes the first time-out
    MaxUntil            \* bound: how far time-outs are pushed back

Handlers == cyclic_timers \cup OneShots \cup {"tcp"}
Times == 0..(ClockModulus - 1)

ASSUME TimeoutsAssumption ==
    /\ ClockModulus \in Nat \ {0} /\ IsFiniteSet(cyclic_timers)
    /\ cyclic_timers \cap OneShots = {} /\ "tcp" \notin cyclic_timers \cup OneShots
    /\ Msecs \subseteq Times /\ \A h \in cyclic_timers \cup {"tcp"} : Interval[h] \in Times
    /\ MaxLate \in Nat /\ MaxUntil \in Nat

VARIABLES
    next_timeout,           \* the list: a sequence of [h, time]
    timeouts_last_time,
    sys_now,
    tcpip_tcp_timer_active,
    tcp_pcbs,               \* tcp_active_pcbs || tcp_tw_pcbs
    thread,                 \* what tcpip_thread does
    input                   \* the thread of the interface: idle, or in sys_timeout

timeoutVars == <<next_timeout, timeouts_last_time, sys_now,
                 tcpip_tcp_timer_active, tcp_pcbs, thread, input>>

Minus(a, b) == (a - b) % ClockModulus
Plus(a, b) == (a + b) % ClockModulus

Again == [at |-> "again"]
SleepUntil(t) == [at |-> "sleep", wake |-> t]
Checking(d) == [at |-> "check", diff |-> d]
InHandler(h, d) == [at |-> "handler", h |-> h, diff |-> d]

Idle == [at |-> "idle"]
CoreIsFree == input = Idle

(* The times from timeouts_last_time to the entries up to the i-th. *)
Until(q, i) ==
    LET sum[k \in 0..i] == IF k = 0 THEN 0 ELSE sum[k - 1] + q[k].time
    IN  sum[i]

Scheduled(h) == \E i \in 1..Len(next_timeout) : next_timeout[i].h = h

(* The new entry goes behind the i-th, whose successor is now counted from *)
(* the new one.                                                            *)
Link(q, i, e) ==
    IF i = Len(q) THEN Append(q, e)
    ELSE InsertAt([q EXCEPT ![i + 1].time = Minus(@, e.time)], i + 1, e)

(* Before the first entry the difference between now and the time the list *)
(* starts from is left out, so the others move back by it.                 *)
AtHead(q, h, msecs, diff) ==
    <<[h |-> h, time |-> Plus(msecs, diff)]>>
    \o [q EXCEPT ![1].time = Minus(@, msecs)]

Left(q, i, msecs, diff) == Minus(Plus(msecs, diff), Until(q, i))

(* The walk: the first entry whose successor is later than the new one.    *)
Place(q, msecs, diff) ==
    CHOOSE k \in 1..Len(q) :
        /\ k = Len(q) \/ q[k + 1].time > Left(q, k, msecs, diff)
        /\ \A j \in 1..(k - 1) : q[j + 1].time <= Left(q, j, msecs, diff)

(* An entry that would come last and later than asked for: all the others  *)
(* are overdue, and the first one's time is added instead.                 *)
Behind(q, h, msecs, diff) ==
    LET i == Place(q, msecs, diff)
        left == Left(q, i, msecs, diff)
    IN  Link(q, i, [h |-> h, time |-> IF i = Len(q) /\ left > msecs
                                      THEN Plus(msecs, q[1].time) ELSE left])

sys_timeout(q, last, h, msecs) ==
    LET diff == Minus(sys_now, last)
    IN  /\ next_timeout' =
              IF q = <<>> THEN <<[h |-> h, time |-> msecs]>>
              ELSE IF q[1].time > msecs THEN AtHead(q, h, msecs, diff)
              ELSE Behind(q, h, msecs, diff)
        /\ timeouts_last_time' = IF q = <<>> THEN sys_now ELSE last

(* Slip: the entry behind the one removed keeps its time. *)
UntimeoutKeepsNext(i) ==
    next_timeout' = SubSeq(next_timeout, 1, i - 1)
                    \o SubSeq(next_timeout, i + 1, Len(next_timeout))

(* The time of the entry removed is added to that of the next. *)
sys_untimeout(i) ==
    next_timeout' =
        SubSeq(next_timeout, 1, i - 1) \o
        IF i = Len(next_timeout) THEN <<>>
        ELSE [SubSeq(next_timeout, i + 1, Len(next_timeout)) EXCEPT
                ![1].time = Plus(@, next_timeout[i].time)]

(* sys_timeouts_init starts the cyclic timers in turn.  Those are distinct *)
(* from the clock's value at start: the list is sorted by Interval.        *)
TimeoutsInit ==
    /\ \E order \in [1..Cardinality(cyclic_timers) -> cyclic_timers] :
          /\ \A i, j \in DOMAIN order :
                /\ order[i] = order[j] => i = j
                /\ i < j => Interval[order[i]] <= Interval[order[j]]
          /\ next_timeout = [i \in DOMAIN order |->
                [h |-> order[i],
                 time |-> Interval[order[i]]
                          - (IF i = 1 THEN 0 ELSE Interval[order[i - 1]])]]
    /\ timeouts_last_time = 0 /\ sys_now = 0
    /\ tcpip_tcp_timer_active = FALSE /\ tcp_pcbs = FALSE
    /\ thread = Again /\ input = Idle

Late == Minus(sys_now, timeouts_last_time)

(* What is left of the i-th entry's time; negative when it is overdue.     *)
Remaining(i) == Until(next_timeout, i) - Late

(* The bound on how far insertions before the first entry push the others. *)
NotTooFar == \A i \in 1..Len(next_timeout) : Until(next_timeout, i) <= MaxUntil

(* The clock.  The thread is not kept from running for MaxLate or longer.  *)
ClockAdvances ==
    /\ next_timeout # <<>> => Late < Until(next_timeout, 1) + MaxLate
    /\ next_timeout = <<>> => Late < MaxLate
    /\ sys_now' = Plus(sys_now, 1)
    /\ UNCHANGED <<next_timeout, timeouts_last_time, tcpip_tcp_timer_active,
                   tcp_pcbs, thread, input>>

Starts(h, msecs) ==
    /\ sys_timeout(next_timeout, timeouts_last_time, h, msecs)
    /\ UNCHANGED <<tcpip_tcp_timer_active, tcp_pcbs>>

Stops(h) ==
    /\ \E i \in 1..Len(next_timeout) : next_timeout[i].h = h /\ sys_untimeout(i)
    /\ UNCHANGED <<timeouts_last_time, tcpip_tcp_timer_active, tcp_pcbs>>

(* When a connection is registered. *)
tcp_timer_needed ==
    /\ tcp_pcbs' = TRUE
    /\ IF ~ tcpip_tcp_timer_active
       THEN /\ tcpip_tcp_timer_active' = TRUE
            /\ sys_timeout(next_timeout, timeouts_last_time, "tcp", Interval["tcp"])
       ELSE UNCHANGED <<next_timeout, timeouts_last_time, tcpip_tcp_timer_active>>

(* What the application and the input functions do: never one time-out     *)
(* twice, and never pushing the others back beyond MaxUntil.               *)
ThreadCalls ==
    \/ \E h \in OneShots, msecs \in Msecs :
          ~ Scheduled(h) /\ Starts(h, msecs) /\ NotTooFar'
    \/ \E h \in OneShots : Stops(h)
    \/ tcp_timer_needed /\ NotTooFar'
    \/ tcp_pcbs' = FALSE
       /\ UNCHANGED <<next_timeout, timeouts_last_time, tcpip_tcp_timer_active>>

sys_timeouts_sleeptime ==
    IF Late > next_timeout[1].time THEN 0 ELSE next_timeout[1].time - Late

(* sys_timeouts_mbox_fetch *)
FetchBegins ==
    /\ thread = Again /\ next_timeout # <<>>
    /\ thread' = IF sys_timeouts_sleeptime = 0 THEN Checking(Late)
                 ELSE SleepUntil(Plus(sys_now, sys_timeouts_sleeptime))
    /\ UNCHANGED <<next_timeout, timeouts_last_time, sys_now,
                   tcpip_tcp_timer_active, tcp_pcbs, input>>

FetchTimesOut ==
    /\ thread.at = "sleep"
    /\ Minus(sys_now, thread.wake) < ClockModulus \div 2
    /\ thread' = Checking(Late)
    /\ UNCHANGED <<next_timeout, timeouts_last_time, sys_now,
                   tcpip_tcp_timer_active, tcp_pcbs, input>>

FetchGetsMessage ==
    /\ CoreIsFree
    /\ thread.at = "sleep" \/ (thread = Again /\ next_timeout = <<>>)
    /\ UNCHANGED <<sys_now, input>>
    /\ ThreadCalls
    /\ thread' = Again

(* sys_check_timeouts: diff is read from the clock once; the entry is      *)
(* removed before the core is locked for the handler.                      *)
CheckPops ==
    /\ thread.at = "check"
    /\ IF next_timeout # <<>> /\ next_timeout[1].time <= thread.diff
       THEN LET e == next_timeout[1]
            IN  /\ timeouts_last_time' = Plus(timeouts_last_time, e.time)
                /\ next_timeout' = Tail(next_timeout)
                /\ thread' = InHandler(e.h, thread.diff - e.time)
       ELSE /\ thread' = Again
            /\ UNCHANGED <<next_timeout, timeouts_last_time>>
    /\ UNCHANGED <<sys_now, tcpip_tcp_timer_active, tcp_pcbs, input>>

(* Slip: the flag is not reset when the timer is no longer needed. *)
TcpTimerStaysActive ==
    /\ \E some \in BOOLEAN :
          /\ tcp_pcbs' = some
          /\ IF some
             THEN sys_timeout(next_timeout, timeouts_last_time, "tcp", Interval["tcp"])
             ELSE UNCHANGED <<next_timeout, timeouts_last_time>>
    /\ UNCHANGED tcpip_tcp_timer_active

(* tcp_tmr closes connections and, from callbacks, opens some, for which   *)
(* tcp_timer_needed finds the timer active.                                *)
tcpip_tcp_timer ==
    \E some \in BOOLEAN :
          /\ tcp_pcbs' = some
          /\ IF some
             THEN /\ sys_timeout(next_timeout, timeouts_last_time, "tcp", Interval["tcp"])
                  /\ UNCHANGED tcpip_tcp_timer_active
             ELSE /\ tcpip_tcp_timer_active' = FALSE
                  /\ UNCHANGED <<next_timeout, timeouts_last_time>>

(* cyclic_timer: the handler, then the timer starts again. *)
cyclic_timer(h) ==
    /\ sys_timeout(next_timeout, timeouts_last_time, h, Interval[h])
    /\ UNCHANGED <<tcpip_tcp_timer_active, tcp_pcbs>>

HandlerRuns ==
    /\ thread.at = "handler" /\ CoreIsFree
    /\ UNCHANGED <<sys_now, input>>
    /\ \/ thread.h = "tcp" /\ tcpip_tcp_timer
       \/ thread.h \in cyclic_timers /\ cyclic_timer(thread.h)
       \/ thread.h \in OneShots /\ ThreadCalls
    /\ thread' = Checking(thread.diff)

(* A connection request: tcp_timer_needed in the thread of the interface.  *)
(* sys_timeout finds the place of the new entry ...                        *)
InputNeedsTimer ==
    /\ input = Idle /\ thread.at = "sleep"
    /\ ~ tcpip_tcp_timer_active /\ next_timeout # <<>>
    /\ tcp_pcbs' = TRUE /\ tcpip_tcp_timer_active' = TRUE
    /\ LET msecs == Interval["tcp"]
           diff == Minus(sys_now, timeouts_last_time)
           q == next_timeout
           i == Place(q, msecs, diff)
           left == Left(q, i, msecs, diff)
       IN  IF q[1].time > msecs
           THEN /\ next_timeout' = [q EXCEPT ![1].time = Minus(@, msecs)]
                /\ input' = [at |-> "head", next |-> next_timeout'[1],
                             time |-> Plus(msecs, diff)]
           ELSE /\ next_timeout' = IF i = Len(q) THEN q
                                   ELSE [q EXCEPT ![i + 1].time = Minus(@, left)]
                /\ input' = [at |-> "behind", h |-> q[i].h, time |-> left]
    /\ UNCHANGED <<timeouts_last_time, sys_now, thread>>

(* ... and then stores the pointer to it, in the list as it was, where     *)
(* tcpip_thread has removed the first entry meanwhile.                     *)
InputLinks ==
    /\ input # Idle
    /\ thread.at \in {"sleep", "handler"}
    /\ LET e == [h |-> "tcp", time |-> input.time]
       IN  IF input.at = "head"
           THEN next_timeout' = <<e>> \o
                    (IF next_timeout # <<>> /\ next_timeout[1].h = input.next.h
                     THEN next_timeout ELSE <<input.next>> \o next_timeout)
           ELSE IF Scheduled(input.h)
           THEN \E i \in 1..Len(next_timeout) :
                   next_timeout[i].h = input.h /\ next_timeout' = InsertAt(next_timeout, i + 1, e)
           ELSE UNCHANGED next_timeout
    /\ input' = Idle
    /\ UNCHANGED <<timeouts_last_time, sys_now, tcpip_tcp_timer_active, tcp_pcbs, thread>>

TimeoutsNext == \/ ClockAdvances
                \/ FetchBegins \/ FetchTimesOut \/ FetchGetsMessage
                \/ CheckPops \/ HandlerRuns

(* Packets come to tcpip_thread as messages. *)
TimeoutsSpec == TimeoutsInit /\ [][TimeoutsNext]_timeoutVars

(* LWIP_TCPIP_CORE_LOCKING_INPUT, the default of this repository's opt.h.  *)
TimeoutsInputSpec ==
    TimeoutsInit /\ [][TimeoutsNext \/ InputNeedsTimer \/ InputLinks]_timeoutVars

-----------------------------------------------------------------------------
TimeoutsTypeOK ==
    /\ \A i \in 1..Len(next_timeout) :
          next_timeout[i] \in [h : Handlers, time : Times]
    /\ timeouts_last_time \in Times /\ sys_now \in Times
    /\ tcpip_tcp_timer_active \in BOOLEAN /\ tcp_pcbs \in BOOLEAN
    /\ thread.at \in {"again", "sleep", "check", "handler"}

Overdue == \A i \in 1..Len(next_timeout) : Remaining(i) < 0

KeepsTime ==
    sys_now' = sys_now =>
        \A j \in 1..Len(next_timeout)' :
            LET h == next_timeout'[j].h
                stays == {i \in 1..Len(next_timeout) : next_timeout[i].h = h}
            IN  IF stays # {}
                THEN \A i \in stays : Remaining(j)' >= Remaining(i)
                ELSE \/ IF h \in OneShots THEN \E m \in Msecs : Remaining(j)' >= m
                       ELSE Remaining(j)' >= Interval[h]
                     \/ Overdue

WakesInTime ==
    thread.at = "sleep" =>
        Minus(thread.wake, sys_now) <= Remaining(1) \/ Remaining(1) <= 0

(* No call and no handler brings a time-out forward, the one it starts     *)
(* ends no earlier than asked for - except when all the others are         *)
(* overdue, where the code adds the first one's time instead - and the     *)
(* thread never sleeps past the first, also when the clock wraps around    *)
(* (timeouts.c:250-330, timeouts.c:337, timeouts.c:436).                   *)
TimeoutsKeepTime == [][KeepsTime /\ WakesInTime']_timeoutVars

(* Every cyclic timer is in the list or its handler runs, each handler at  *)
(* most once, and the TCP timer runs while there is a connection, however  *)
(* connections open and close around its handler (timeouts.c:123-157).     *)
NoTimerLost ==
    /\ TimeoutsTypeOK
    /\ \A i, j \in 1..Len(next_timeout) :
          next_timeout[i].h = next_timeout[j].h => i = j
    /\ CoreIsFree => \A h \in cyclic_timers \cup {"tcp"} :
          (h \in cyclic_timers \/ tcpip_tcp_timer_active)
             <=> (Scheduled(h) \/ (thread.at = "handler" /\ thread.h = h))
    /\ tcp_pcbs => tcpip_tcp_timer_active

(* What the comment of tcp_timer_needed says: the TCP timer runs when      *)
(* there are connections (timeouts.c:141-145).                             *)
TcpTimerRuns ==
    /\ tcp_pcbs /\ CoreIsFree
    /\ ~ (thread.at = "handler" /\ thread.h = "tcp")
    => Scheduled("tcp")
=============================================================================
