# Formal verification of the FreeRTOS / lwIP simulator

TLA+ specifications of the program in `src/`: FreeRTOS V10.0.1 on a POSIX port
(`freeRtos/`), the lwIP stack on top of it (`lwip/src`, `lwip/ports`), the
applications (`lwip/exts`) and the Linux front end (`lwip/project`).  The
specifications are translated from the C code; TLC checks them on small
instances and TLAPS proves what matters most for every instance.

* [1 Inventory](#1-inventory)
* [2 Modules](#2-modules)
* [3 Runs](#3-runs)
* [4 Fairness](#4-fairness)
* [5 Proofs](#5-proofs)
* [6 Where code and documentation disagree](#6-where-code-and-documentation-disagree)
* [7 Seen in the code, and not a run](#7-seen-in-the-code-and-not-a-run)
* [8 Limits](#8-limits)
* [9 Not modelled](#9-not-modelled)
* [10 What could come next](#10-what-could-come-next)

`tlc -config X.cfg M` runs a model check, `tlapm M.tla` a proof.

## 1 Inventory

### 1.1 What is built

`lwip/project` builds a 32-bit Linux process.  Its kernel is
`portable/GCC/POSIX/port.c`, `portable/MemMang/heap_4.c`, `list.c`, `queue.c`,
`tasks.c`, `timers.c` and `event_groups.c`, with the configuration
`lwip/project/FreeRTOSConfig.h`: preemption and time slicing, 10 priorities,
32-bit ticks at 1 kHz, mutexes, recursive mutexes, counting semaphores, task
notifications, software timers (priority 9, 20 commands), `vTaskSuspend`,
`vTaskDelete`, `xTaskAbortDelay`; no tickless idle and no static allocation.
`configASSERT` calls `vAssertCalled` (`simRtos.c:101`), which ends the process.
`LWIP_ASSERT` prints and goes on.

lwIP is built with `NO_SYS=0`, without sockets and netconns, with core locking
on the input path (`LWIP_TCPIP_CORE_LOCKING` and `.._INPUT` are 1) and with
`SYS_LIGHTWEIGHT_PROT=0`; IPv4 only, with ARP queueing, reassembly, DHCP (with
the ARP check), DNS, IGMP, UDP and TCP (`TCP_MSS` 1460, windows of two segments,
no out-of-order queue).

At run time there are the tick handler, the timer task, the idle task,
`tcpip_thread`, `tapif_thread` and the UDP command thread.

### 1.2 Components

Each component: what it keeps; what is done to it; what is hard; what makes it
correct.

**Lists** (`list.c`, modelled).  Doubly linked rings with an end marker, item
values, a walk index, an item count.  Initialise, insert sorted, insert at the
end, remove, next owner.  Used by everything below, in critical sections
or with the scheduler suspended.  Hard: removal of the item the walk stands on,
item values equal to the marker's.  Correct: one ring per list; the walk visits
everybody and nobody loses a turn.

**Queue storage** (`queue.c`, modelled).  A circular buffer with a write pointer,
a read pointer one item behind the data and a count.  Hard: both ends wrap.
Correct: a bounded double-ended queue.

**heap_4** (modelled).  Free blocks in the order of their addresses; allocation,
release, two counters.  Hard: merging with either neighbour, and the half of
`vPortFree` that runs with the scheduler running.  Correct: the heap is its live
blocks, everything between them is one free block.

**Queues and semaphores** (`queue.c` with the event lists of `tasks.c`, partly
modelled).  Count, two event lists, two lock counts; per call the block time and
the tick it began at.  Callers block with the scheduler suspended but interrupts
enabled; interrupts then only count what they did, and `prvUnlockQueue` wakes
tasks afterwards.  Hard: everything between the first failure and the block;
time-outs over several rounds; aborted delays.  Correct: no lost wake-up, no
early time-out, calls with a time-out come back.

**Scheduler** (`tasks.c`, partly modelled).  Ready lists, two delayed lists,
suspended list, pending-ready list, tick count, cached next unblock time, an
upper bound of the ready priorities.  Hard: counter wraps, ticks pended while
the scheduler is suspended, tasks on two lists at once.  Correct: one state
list per task, exact delays, highest ready priority runs, peers take turns.

**POSIX port** (`port.c`, partly modelled).  One thread per task; signals suspend
and resume threads; a timer signal is the tick.  Hard: the two signals of a
switch overtake each other, the tick comes to any thread, critical nesting is per
thread.  Correct: the code of one task runs at a time, and a switch ends.

**Mutexes** (`queue.c`, `tasks.c`, modelled).  Holder, recursion count, count of
mutexes held, base priority.  Hard: waiters that give up, several mutexes in
any order, priorities set meanwhile.  Correct: no inversion, and no inherited
priority that outlives its cause.

**Task notifications** (`tasks.c`, modelled).  A word and a state per task; take,
wait, notifications from tasks and interrupts.  Hard: a notification between the
two critical sections of a wait, together with suspension.  Correct: a task
sleeps exactly while it has a reason.

**Event groups** (`event_groups.c`, modelled).  Bits and a list of waiting tasks
whose conditions are in their item values.  Hard: clear on exit versus several
waiters, the rendezvous of `xEventGroupSync`, calls that interrupts pend to the
timer task.  Correct: nobody waits beside its bits; the rendezvous is a barrier.

**Software timers** (`timers.c`, modelled).  Two sorted lists on either side of
the wrap of the tick counter, a command queue, the last time sampled.  Hard:
commands issued before and handled after a wrap, a late timer task, commands
that overtake a reload.  Correct: no timer early, none forgotten, a stopped one
stays stopped.

**tcpip thread, pools, TAP interface** (`tcpip.c`, `memp.c`, `tapif.c`, partly
modelled).  The mailbox, the core lock, free lists of elements.  Hard: full
mailbox, empty pools, ownership of the pbuf, unprotected free lists.  Correct:
an element is in one place.

**lwIP timeouts** (`timeouts.c`, modelled).  A list of differences of time; cyclic
timers, a TCP timer on demand, the wait of `tcpip_thread`.  Hard: removal and
insertion from handlers, late checks, a second thread.  Correct: no time-out
early, none lost.

**ARP** (`etharp.c`, modelled).  A table with states and ages, queues of packets,
a cached index.  Hard: a full table, hosts that move, stale indices.  Correct: a
packet goes where its host was last heard, in order.

**IPv4 reassembly** (`ip4_frag.c`, partly modelled).  A list of datagrams of which
pieces are there, a count of pbufs.  Hard: order, repetition, overlap, eviction.
Correct: what is passed up is whole; the count is right.

**DNS client** (`dns.c`, modelled).  A table of queries and answers, requests that
share them, ports, servers.  Hard: sharing, retries, failing over, expiry.
Correct: every caller is told once, of the name it asked for.

**DHCP client** (`dhcp.c`, modelled; `autoip.c` is never started).  A state, tries
and time-outs of a request, three timers of a lease, the address of the
interface.  Hard: replies, refusals, link changes and timers in any order; timers
of an earlier lease.  Correct: an address does not outlive its lease; the
interface gets an address though servers fall silent.

**TCP** (`tcp.c`, `tcp_in.c`, `tcp_out.c`, partly modelled).  Per connection: a
state, sequence numbers, windows, queues, timers.  Hard: loss, repetition,
reordering, closing at any time, windows that fill up.  Correct: streams arrive
intact; data that waits has a timer.

### 1.3 Interactions

```
 port.c: signals, tick ---> tasks.c <--- queue.c <--- timers.c (command queue)
                              |  |  \       ^  \
                              v  |   \      |   +--- mutexes (inheritance in tasks.c)
      heap_4.c            list.c |  event lists, pending-ready list
                                 +--- notifications, event groups (pended to timers.c)

 tapif_thread --- memp, pbuf --- core lock or mailbox --- tcpip_thread
                                       |                      |
      etharp  ip4_frag  tcp  dns  dhcp <----- handlers ----- timeouts.c
```

## 2 Modules

| module | models | properties, proofs |
|---|---|---|
| `List` | `list.c` pointer by pointer | implements `ListRing`; `ObjectsProofs` |
| `QueueStorage` | the buffer of `queue.c` slot by slot | implements `BoundedDeque`; `ObjectsProofs` |
| `Heap4` | `heap_4.c` | implements `Memory` |
| `EventList` | inserting into and removing from the kernel's sorted lists | `SequenceProofs` |
| `Queue` | blocking sends, receives, peeks, reset, abort | invariants, liveness; `QueueProofs` |
| `Scheduler` | the lists and the tick of `tasks.c` | invariants, liveness; `SchedulerProofs` |
| `PosixPort` | threads and signals of `port.c` | an invariant; `SignalsProofs` |
| `Mutex` | mutexes and priority inheritance | invariants, liveness; `MutexProofs` |
| `Timers` | `timers.c` | invariants, an action property; `TimersProofs` |
| `Notify` | task notifications | an invariant; `SignalsProofs` |
| `EventGroup` | `event_groups.c` | invariants; `SignalsProofs` |
| `Timeouts` | `timeouts.c` and a second thread | an invariant, an action property; `NetProofs` |
| `Tcpip` | the input path and the pools | an invariant; `NetProofs` |
| `Etharp` | the ARP cache | an invariant, an action property; `NetProofs` |
| `IpReassembly` | reassembly of datagrams | an invariant; `NetProofs` |
| `Dns` | the DNS client | an invariant; `NetProofs` |
| `Dhcp` | the DHCP client | an invariant, liveness; `NetProofs` |
| `Tcp` | two ends of a connection and a network | invariants |

`MCObjects` (lists, storage, heap), `MCQueue`, `MCScheduler` (scheduler and port),
`MCLive` (liveness of queues, scheduler and DHCP), `MCMutex`, `MCTimers`,
`MCSignals` (timers, notifications, event groups, TCP), `MCTimeouts` and `MCNet`
(time-outs, input path, ARP, reassembly, DNS) are the small instances.  Where one
holds parts that share no state, the constant variable `which` names the part
that moves in a behaviour; the others rest in one initial state.  The state space is
the sum of the parts', not their product, and the properties of a part that
rests hold in its initial state.

Names are those of the code where possible.  Conventions:

* **A step** is what the code does without letting anybody in: a critical
  section, or a statement run with the scheduler suspended, or a call under the
  core lock.  The head of each module says what a step is.
* **`pc`** (or `code`, `at`) says where a call is.  Local variables of a call are
  variables indexed by the task.
* **Ghosts** record what the code does not: how long a call really waited, how
  many ticks a delay or a lease has left, which packet is which.  Guards do not
  read them, but for the bounds.
* **`program`**, `cast`, `connection` (chosen by the initial condition, then
  constant) say what the application does.  One run thus covers several small
  applications instead of one that does everything.
* **Types** are checked as the first conjunct of a module's main invariant.
* **Slips** are operators marked `Slip:`.  They are plausible mistakes in the
  definition that follows them; no specification uses them.  They document what a
  property is sensitive to: with the slip in place of the definition, TLC finds the
  property violated.

### Kernel objects
`List`: `pxNext`, `pxPrevious`, `pxIndex`, `pvContainer`, `xItemValue` and
`uxNumberOfItems` are functions over items and markers; the actions are the
functions of `list.c` and `listGET_OWNER_OF_NEXT_ENTRY`.  `ListRing` is what the
kernel expects, a ring of nodes from the walk index on.  `QueueStorage`: slots
`0..uxLength-1`, pointers are slot numbers, `Up` and `Down` the pointer arithmetic
with its tests against `pcTail` and `pcHead`.  `Heap4`: addresses count units of
alignment; `vPortFree` is two steps, because it clears the allocated bit before it
suspends the scheduler.  `Memory` has live blocks only: what is free is what lies
between them.

### Queue, Scheduler, PosixPort
`Queue` follows a call through `try`, `failed` (the time-out is initialised),
`suspended`, `locked`, `check` (`xTaskCheckForTimeOut`), `place` (on the event list),
`unlockTx`, `unlockRx`, `resume` (`xTaskResumeAll`), `recheck`.  Interrupts and,
with the scheduler running, other tasks come between any two.  Which ready task
runs is left open: the properties hold for every choice, so also for the
scheduler's.  Items are counted, not stored, which makes semaphores a special case;
their contents are `QueueStorage`'s.

In `Scheduler` the ready lists are sequences whose last element is the one
`pxIndex` stands on.  `due`, `lag` and `excused` are ghosts: the ticks a delay has
left, the ticks since a periodic task's `pxPreviousWakeTime`, and the tasks whose
delay was cut short and that have not caught up with their schedule since.

`PosixPort` is what the others take for granted: a critical section excludes the
tick, a yield switches at once.  Each thread has a place in the code, a stack of
handlers that interrupted it and pending signals; `xSingleThreadMutex`,
`xSentinel`, the nesting count and the table of threads are shared.  A step is
what a thread does between two accesses to these.  `cast` says which threads
create, delete or end tasks.

### Mutex, Timers, Notify, EventGroup
`Mutex`: the stretch with the scheduler suspended is one step, as interrupts do
not touch a mutex.  `CanRun` is the scheduler: no ready task of a higher priority.
`eventPriority` is `configMAX_PRIORITIES` minus the event item's value.

`Timers`: the timer task goes through `query`, `expired`, `callback`, `receive`,
`handle`, `restart`, and, when `prvSampleTimeNow` sees the counter wrap, `switch`
and `reload`.  Interrupts send at any time, callbacks from within, tasks only
while the timer task is blocked, with a tick count they read up to `MaxBehind`
ticks ago.  The ghost `due` counts to the expiry that was promised, and does
not wrap.

`Notify`: one task that takes or waits, in two critical sections; every
notification from tasks and interrupts, suspension, resumption, ticks and
`xTaskNotifyStateClear` between them.

`EventGroup`: a call that blocks is two steps, what it does until it sleeps and
what it does with its event list item when it runs again.  Interrupts pend their
calls in a queue.  The tasks of the rendezvous count the meetings they have come to
and left (ghosts); others wait for flags in the same group, so that one call can
satisfy several.

### Network
`Timeouts`: the list holds the time of each entry after the one before it, as in
the code; the clock advances between any two steps and wraps.  The second
specification, `TimeoutsInputSpec`, adds the thread of the interface that registers a
connection while `tcpip_thread` removes a time-out.

`Tcpip`: `tapif_thread` and `tcpip_thread`; with `SYS_LIGHTWEIGHT_PROT` off, taking an
element is two steps.  `locking_input` chooses one of the two input paths.

`Etharp`, `IpReassembly`, `Dns`, `Dhcp`: a call is a step.  Packets of a host are
numbered in the order they are sent; fragments have a begin and an end in units of 8
bytes, and the pieces of a datagram passed up are kept for one step; a response
of DNS stands for the query it belongs to; leases count minutes, as
`dhcp_bind` rounds them, and `lease_left` is what the lease of the address
really has left.

`Tcp`: two ends run the same definitions; `net` holds the segments under
way, of which some are lost, repeated or overtaken.  Applications write numbered units and
read them; `app` keeps what each has got and been told.  A running timer may
expire at any slow tick.

## 3 Runs

Every property is a line of defence against a hazard listed in `PROJECT.json`.
The passing runs take between a quarter of a minute and one and a half on two cores.
Their instances are small because most of what they check is also proved (section 5): a
run is there to find a mistake fast, and for what is not proved.

| run | instance | shows |
|---|---|---|
| `objects` | 3 items and 2 lists; buffers of 1 to 3 items; a heap of 11 units | lists implement rings, no turn slips; the buffer implements a deque; the heap implements `Memory` |
| `queue` | 3 tasks of 2 priorities, 4 programs | event lists and pending-ready list agree, no lost wake-up, no early time-out |
| `live` | 2 tasks that share the processor; 2 peers and idle; a DHCP client with 4 kinds of lease | timed calls return, items meet receivers; peers take turns, delays end; no address outlives its lease, and there is one in the end |
| `scheduler` | 3 tasks, ticks modulo 4, 6 programs; 2 or 3 threads, 4 casts | one state list each, exact delays, the highest priority runs, `vTaskDelayUntil` never ahead; one task runs on the port |
| `mutex` | 3 tasks of 3 priorities, 2 mutexes, 3 programs | holders and counts agree, no lost wake-up, inheritance no later and no longer than due, bounded inversion |
| `mutex_assert` | 1 mutex | violated: see 6.1 |
| `signals` | 2 timers, ticks modulo 6; a notified task; 2 tasks that meet twice and 2 that wait for 2 flags; 4 TCP connections | the two timer lists mean one time line, no early callback, no expiry slept through; a task sleeps for a reason; nobody waits in vain, however many tasks one call satisfies, `xEventGroupSync` is a barrier; streams arrive intact, data that waits has a timer |
| `timers_stop` | 2 periodic timers | violated: see 6.2 |
| `net` | 4 time-outs on a clock modulo 16; 3 pbufs, 2 messages, a mailbox of 1; 3 hosts in an ARP table of 2; 3 datagrams of 4 units in a table of 2; 2 callers, 3 names, 2 servers, 2 entries | no time-out early or lost; each element in one place; packets in order to where the host was heard; datagrams whole; every request answered |
| `timeouts_unlocked` | the same, and a second thread | violated: see 6.3 |
| `pool_race` | `SYS_LIGHTWEIGHT_PROT` off | violated: see 6.4 |
| `reass_count` | as `net` | violated: see 6.5 |

Why the bounds are enough:

* *Lists*: with three items every insertion point (first, middle, last) and
  every position of the walk index relative to a removed item exists; two
  lists make the container pointers matter.
* *Queue storage*: length 1 makes both pointers meet, length 3 has slots that
  are neither first nor last.
* *Heap*: eleven units hold three blocks with headers, so a block can have a free
  neighbour on either side, on both, or the end marker; sizes 1 to 3 allow splits
  and exact fits, and 0 is refused.
* *Queue*: two tasks can wait for an item (`Stream`) or for a place (`Emptied`), so that one
  wake-up too few is seen; `MaxLocked = 2` interrupts of a kind in one lock make the unlock loop go
  round twice; `MaxPended = 1` tick between suspension and resumption is what a
  time-out needs to race a wake-up.  `portMAX_DELAY` is 3 and the finite wait two
  ticks: a task can be woken after one of them, find the item gone, and go round again
  with the other.  The code compares with `portMAX_DELAY` and never computes with it.
  `elapsed` and the ghost `waited` stop counting where nobody looks at them any more: at
  the end of the wait, and not at all in a wait without end.
* *Scheduler*: with two-bit ticks and delays of 1 and 3, half of the delays
  wrap, both delayed lists are in use at once, and two pended ticks can carry the
  counter over the wrap in one resumption.
* *Port*: three threads, one of them created by another, make a switch to a third possible
  while two are in one; tasks are deleted and end among two;
  two nested critical sections tell the nesting count from a flag.
* *Mutex*: low, middle and high are what an inversion takes; two mutexes, one
  of them recursive, what giving back in any order takes.  With two mutexes every
  take has a time-out, after which it may also have been served.
* *Timers*: a period of 1 falls behind as soon as the timer task is late by one tick, so
  reloads by command happen; periods of 2 and 3 against six ticks wrap at different offsets;
  a queue of two is full with one command and one reload.
* *Event group*: two tasks meet twice: the fast one is back at the second
  meeting while the slow one has not left the first.  Two others wait for all or any
  of two flags, so that one call satisfies both, of which one, both or none clears the
  bits the other waits for.  More than two at a meeting is left to the proof.
* *TCP*: an MSS is two units and the window two MSS, as in the configuration.
  The four connections are chosen for one thing each (closed at any time; its SYN
  repeated after its end; the window full before the reader starts; overlapping
  segments in flight), with up to two faults of the network (none in the last, whose segments
  overtake each other) and one
  retransmission before a connection is given up.
* *Time-outs*: intervals 1, 2 and 4 on a clock modulo 16, checks up to one late.
* *Input path*: fewer messages than pbufs and a mailbox of one make each
  resource run out while the others are not.
* *ARP*: one host more than entries, two hardware addresses for hosts that move,
  three packets, one queue of at most two and a pool of two.
* *Reassembly*: one datagram more than entries and one pbuf fewer than the
  fragments that can wait; `MaxMiscounted` stops the count of 6.5 from running
  away.
* *DNS*: three names for two entries, ports and requests, so that entries are
  reused and ports shared; two retries on each of two servers.
* *DHCP*: leases that renew, that end with or before t1, and that never end;
  six tries are what `dhcp_timeout` distinguishes; counters modulo 8.
* `MCNet` uses symmetry of hosts (which are also the names of DNS), hardware
  addresses and datagrams, `MCSignals` that of the tasks of a kind and of the
  flags of the event group.  Neither has liveness properties; the action properties speak of single steps.

`CHECK_DEADLOCK FALSE` stands where the system really may stop: a failed
`configASSERT` ends the program (`mutex*`, `signals`, `timers_stop`), a TCP
connection ends and the heap can be at its bounds (`signals`, `objects`), and the
packets or callers of a bounded instance run out (`net` and its variants).

## 4 Fairness

* Queues (`QueueFairness` of `MCLive`): a task that can step again and again does (`SF` per task): equal
  priorities share the processor by time slices, and the `live` run gives its
  tasks equal priorities.  Ticks that are possible again and again with the
  scheduler running are counted: the interval timer of the port does not stop.
  Nothing is assumed of interrupt handlers or of what the application calls
  next.
* Scheduler (`Fairness`): a call that has begun goes on, an application that suspended the
  scheduler resumes it, and ticks come while the scheduler runs.  The latter two
  are the contract of `vTaskSuspendAll`.
* DHCP (`DhcpFairness`): both timers are cyclic time-outs, which `Timeouts` keeps in its list
  (`NoTimerLost`); they go on as long as the program.  Nothing is assumed of
  servers: `AddressInTheEnd` is about the time after they fell silent.
* Mutexes (`FairSpec`): a task that can run gets on with its call and gives back what it
  holds; another event that a holder waits for does happen.  Nothing is assumed
  of busy tasks: one of them may run for ever, and `InversionBounded` says that
  it cannot keep the task of the highest priority waiting.

## 5 Proofs

Proved by TLAPS (SMT, Zenon and LS4) for every value of the constants that meets the
modules' assumptions:

* `ObjectsProofs`, lists: `TypeCorrect`, `ListsWellLinked`, `CountsRight`.  The inductive
  invariant is `TypeOK /\ WellLinked /\ OneCycle /\ CountIsRight`.  `WellLinked`
  alone (next and previous are inverse to each other) is not inductive: an item
  could point to itself and its list's index could stand on it; removing the item would
  then leave the index on it.  `OneCycle` excludes this with a rank that
  grows along `pxNext` until the marker comes round.  Each operation gives the ranks
  anew: an insertion doubles them and puts the new item between, a removal keeps
  them.
* `ObjectsProofs`, storage: `StorageTypeCorrect`, `PointersAlwaysAgree` and the refinement
  `StorageImplementsDeque`.  The invariant: the write pointer is
  `uxMessagesWaiting` slots past the read pointer modulo the length.  The modular
  arithmetic is spelled out in lemmas about `Up` and `Down`.
* `MutexProofs`: `TypeCorrect`, `HoldersAlwaysAgree`, `PrioritiesRestored`,
  `NoWakeupLost` and `HoldersAlwaysHurry`, for any number of tasks and mutexes and any program.
  The invariant `IInv` adds two facts.  `CountFollows`: a recursive mutex that is held has a
  nesting count of zero only between the take and the count, or between the last
  count and the give.  `WaitersWait`: a task on an event list is blocked in the
  loop of its call for that mutex, and is on the list once; so the task that a
  give readies is one that will look at the mutex.  The numbers of mutexes held
  are cardinalities, which one take or give changes by one (`TakenCounts`,
  `GivenCounts`).  `HoldersAlwaysHurry` needs more (`Turn`): tasks that wait hold nothing, so
  their priority stays; the event lists are sorted by it; the task that a give has
  readied is not below those that wait on, so that whoever takes the mutex before
  it is not below them either (`FirstIsWoken`); a waiter above its holder's own
  priority has `xInheritanceOccurred` set (`FlagsTell`), so that the last one
  to give up lowers the holder again (`CauseLasts`).  Its hypothesis `NoChains`
  is the one the runs have (`nested`): no task waits for a mutex while it holds
  another.  It cannot be dropped.  With chains TLC finds an inversion: a
  task is woken for a mutex while its own waiter gives up; it is lowered before
  it runs, takes the mutex, and holds it at a lower priority than a task that
  waits for it (`xTaskPriorityInherit` was called for the holder before it).
* `SignalsProofs`, notifications: `SleepsForAReasonAlways`, for any masks of the callers.
  The invariant adds that the task is on the pending-ready list at most once and only
  while the scheduler is suspended (`PendsOnce`), that a task that waits is inside a
  call (`WaitsInACall`), and that a held task is on the suspended list
  (`HeldIsSuspended`).
* `SignalsProofs`, event groups: `NobodyEverWaitsInVain` and `SyncIsAlwaysABarrier`, for any
  tasks, bits and lengths of the pending queue.  `Meetings` is the heart: the first
  m meetings are over, who has come to the next sleeps with its bit set, who was
  woken from the last has not left yet, and somebody is still missing; so the bits
  of the rendezvous are never all set between two steps.  The walk over the
  waiting tasks wakes nobody of the rendezvous while somebody is missing and
  everybody when the last one comes.
* `NetProofs`, DHCP: `LeaseAlwaysLasts`, for any leases, limits and widths.  The address
  outlives its lease only if the timer of the lease is not the one that runs.  The
  invariant says that there is no lease to end, or all timers were cleared
  (`Ended`), or `lease_used` and what the lease has left add up to `t0_timeout`
  (`Running`), through every renewal, refusal and reboot.
* `NetProofs`, ARP: `QueuesAlwaysKept` and the action property `SentAsHeard`, for any hosts,
  addresses, sizes of the table, the queues and the pool, and any ages.  An entry only keeps an
  address; that the address of a stable entry is the one its host told last (`Told`)
  is the invariant, and it makes the cached index harmless: the entry there may
  have become another host's, but then the comparison of its address fails.
  `Orderly` adds that an entry in use has not expired: the timer frees it
  before its age leaves its range.  Every handler that recycles, frees or resolves
  an entry is one replacement (`EntryReplaced`) or lets entries fade
  (`FadingStep`); the pool's account is the cardinality of the set of queued
  places, which one packet changes by at most one (`FewerQueued`, `OneMoreQueued`).
* `NetProofs`, time-outs: `TimersNeverLost`, for any cyclic timers and handlers of the
  application, any intervals and delays and any length of the clock.  The invariant: the
  list holds each handler at most once and only times of the clock, the handler
  that runs is not in it, and a timer is in the list or running exactly if it is
  cyclic or `tcpip_tcp_timer_active` is set.  The work is in showing that the walk
  of `sys_timeout` finds a place in every list that is not empty (`PlaceFacts`), for which the sums
  of times it compares must be numbers; they are a recursive function whose existence is
  proved for the least argument for which it could fail (`StepsExist`).  It is about
  `TimeoutsSpec`, where packets come to `tcpip_thread` as messages; with a second
  thread in `sys_timeout` the TCP timer is lost (6.3).
* `NetProofs`, when time-outs end: `TimesAlwaysKept`, under the hypothesis `[]SumsFit`: the
  times in the list, the lateness and a delay asked for now sum up to less than a round
  of the clock (49 days).  With more, `sys_timeout` itself compares sums that have wrapped.
  The invariant `TimeIInv` adds to the one above how late the thread may be (the first
  time and `MaxLate`, so that `timeouts_last_time` is never a round behind), that
  what `sys_check_timeouts` keeps of the difference is no more than the lateness, and
  that a sleeping thread wakes when the first time-out ends.  The second part has an
  exception: with one time-out in the list, a handler that starts
  it again finds the list empty and moves `timeouts_last_time` to now, and the
  difference is from before; nobody else is in the list then, and the one just started
  ends no earlier for it.  The work is in comparing sums along the list before and
  after it changes: `GrowAlike` (two sums that grow alike stay as far apart),
  `SameFront` and `SameBehind` (the sums before and behind a change), and one lemma
  for each of the places `sys_timeout` and `sys_untimeout` change.
  `TimeIInv` and `SumsFit` were checked by TLC with a clock of 32 ticks, where
  `SumsFit` always holds; on the 16 ticks of `net` sums reach 20, so that the run
  also goes beyond the hypothesis.
* `NetProofs`, DNS: `AskersAlwaysAnswered`, for any callers, names, tables, ports, servers and
  retries, with one hypothesis: `OneRequestEach`, there are as many requests as entries, as
  `dns.c:144` has it.  With fewer, `dns_call_found` does not look at the last entries before
  it closes a port, and `Ports` fails (section 7).  Who is told is a matter of who is remembered: `Remembered` (who
  waits has a request), `Pursued` (a request is of a query that runs, for the name its
  caller waits for, and no caller has two), `Wanted` (a query has somebody to tell) and
  `Ports` (the open ports are those of queries).  That he is told in time is `OnTime`: the
  calls of `dns_tmr` a query has seen, plus those its timer has left, are exactly what its
  earlier servers and its retries take, so that it is given up at
  `DNS_MAX_SERVERS` times `Patience` at the latest.  `CallFound`, `SameQuery` and
  `CallerAdded` are the three ways in which an entry changes; the loop over the table is
  a recursive function (`StepsExist`, `HoldsAlong`).
* `NetProofs`, reassembly: `AlwaysDeliveredWhole`, for any datagrams and lengths, any cuts into
  fragments, any table and limits, fragments in any order and repeated.  The invariant
  `ReassIInv` has two halves.  `Tables`: the pieces of an entry are fragments of its
  datagram, in order and disjoint (`Pieces`), and once its last fragment was seen it is
  among them.  `Handed`: what was passed up is nothing or a whole datagram.
  The decisive step is `LastEnds`: the piece without MF ends the datagram, and since the
  pieces are disjoint it is the last of the list; so the walk of
  `ip_reass_chain_frag_into_datagram_and_validate` that finds no hole from offset zero on has
  reached the end.  `ChainedFacts` shows that a fragment that overlaps neither of its
  neighbours overlaps no piece.  While a fragment is handled, the entry of its datagram may
  have no piece yet (`OpenTables`); every way out of `ip4_reass` fills or removes it,
  and the eviction of the oldest entry leaves it alone (`OldestKeeps`).  The miscounting
  of 6.5 does not enter: the invariant leaves the count any 16-bit number.
* `NetProofs`, input path: `ElementsAlwaysPlaced`, for pools and a mailbox of any size and both
  ways of handing a packet on, with one hypothesis: `SYS_LIGHTWEIGHT_PROT`.  The program is
  built without it, and `pool_race` (6.4) is what happens then; the theorem says that the
  switch, which `opt.h:211` asks for, is all that is missing.  The invariant `TcpipIInv` says
  that some sequence without repetitions is linked through `memp_next` from the head of
  the pool (`FreeList`), and that a function gives each element its one place: that
  sequence, a hand, the mailbox, a message or the stack's queues (`PbufsPlaced`,
  `MsgsPlaced`).  Between the two halves of an access `Handy` says what its reader has seen:
  the head that `memp_malloc` read is still the head, and the element that `memp_free`
  linked is still in the hand and points to the head.  This needs `AccessAlone`: only whoever
  is between `SYS_ARCH_PROTECT` and `SYS_ARCH_UNPROTECT` is in the middle of an access,
  which is false without the switch.  `OnlyPosted` (a message carries a packet only while it
  is in the mailbox) keeps a packet from being reached through a freed message.
  `LinksTake`, `LinksGive` and `LinksKeep` are the three things that happen to a free list;
  `FreeIsList` shows that the walk along `memp_next` meets that sequence and no more.
* `SignalsProofs`, port: `TasksAlwaysRunAlone`, for any number of threads, any depth of
  critical sections and any tasks that create and delete others.  The conclusion is
  `TasksRunAlone`, the half of `OneTaskRuns` without ENABLED, and `SectionsExclude`: the task
  that runs has interrupts disabled and its own nesting count in a critical section, also
  after others were deleted.  Two hypotheses say what section 7 says of this code.
  `OneCreates`: no two threads are between `pxPortInitialiseStack` and
  `vPortAddTaskHandle`; with two at once and four threads TLC finds a thread that runs
  the code of another task than the current one.  `DeletedOutside`: a task that is
  deleted has not saved a nesting count, which is what `prvDeleteThread` tests.  The
  run's casts have one creator, and delete also inside critical sections: there
  `TasksRunAlone` is model-checked and `SectionsExclude` is not claimed.
  The invariant `PortIInv` is built on one notion: a thread is `Active` unless it is parked in
  `sigwait` without SIG_RESUME, is on its way there (`Leaving`), starts or does not
  exist.  `OneActive`: exactly one is.  `MutexHeld`: the mutex is held by the thread that
  leaves, gives the processor away or is about to free it, and by nobody else, so that no
  switch begins before the last one is over.  `InTurn`: the active thread is that
  of the current task and the nesting count is its own, unless it is `Giving`: then they
  are already those of the thread it will resume.  `Saved`: the others find their count in
  the table.  `Coherent` says which handlers and signals a thread can have at which place,
  `Made` where a task is that is being created, `Cancelled` that only parked threads
  are cancelled.  Most actions are instances of `ActiveStays` (one thread is active before
  and after), `LeavesToKeeps` (one on its way to `sigwait`), `SwitchKeeps` or `ResumeKeeps`
  (the processor is given away); those that create, start or delete a thread are
  proved one by one.
* `SequenceProofs`: what the operations of `EventList` do to the items of a list and to
  their order (`InsertBeforeFacts`, `WithoutFacts`, `RankFacts`), that a set of numbers
  has a least one, and what holds along a loop (`HoldsAlong`).  The library's induction cannot be used here; the last follows
  from the well-foundedness of `<`, and it is what the place of an insertion rests on.
* `QueueProofs`: `ListsAlwaysConsistent`, `NeverTooEarly` and `NoWakeupIsLost`, for any
  number of tasks, any lengths of queue and any programs.  `IInv` says where a
  task is when it is on which list (`WaitersSound`), who holds the scheduler
  suspended (`CallsSound`), and what an abort has seen (`AbortSound`).  Two
  strengthenings stand on it.  `Timed`: the time a task has slept is at least what it asked
  for, less what is left of its block time, with the ticks since its last
  look and the pended ticks added.  `Covered`: while somebody waits for an item, or is about to,
  there are no more items in the queue than tasks that are on the way to take one
  and entries in `cTxLock`; and the same for places and `cRxLock`.  An item may be
  taken by somebody who never waited, and the count stays right: a number of
  items is compared with a number of tasks, not with one task.
  `NoWakeupIsLost` has two hypotheses.  `FewInterrupts`: a locked queue meets
  no more interrupts than its `int8_t` lock count can count; behind that the
  count wraps and a wake-up is lost.  `ResetsAreFilled`: only queues of
  length one are reset; `xQueueReset` readies a single sender
  (`queue.c:269`), so that resetting a longer one leaves others asleep before
  empty places (section 7).  The run's constants meet both.
* `SchedulerProofs`: `AlwaysOneStateList`, `AlwaysExactDelays`, `AlwaysHighestRuns` and
  `AlwaysNeverAhead`, for any finite set of tasks, any priorities, programs and delays, any
  width of the tick counter, any nesting of suspensions and any number of pended ticks.
  `Where` says that a task which is not away (delayed, suspended, or being moved by an
  abort) is in the ready list of its priority and in no other; `Apart` that it is away in
  one way only, and that whoever waits for an event or is pending ready is away.
  `CallsSound` says who is inside a call and that only the running task has the scheduler
  suspended.  `Highest` is `HighestPriorityRuns` for every point of a call at which the
  running task has not given up the processor, unless a yield is pending; so it
  survives the suspensions, and `NothingPends` turns it into the property when they end.
  `OnTime` gives the item values their meaning: the wake time of a delayed task is the
  tick count plus what its delay has left, a round less in the overflow list, and
  `xNextTaskUnblockTime` is never behind a wake time of this round.  A
  bound is all that `xNextTaskUnblockTime` is: a wait that was signalled or aborted leaves it
  too early, which costs a look at the list and no delay.  `OnSchedule` says that
  `pxPreviousWakeTime` plus `lag` is the tick count up to a round, and that a task is
  no further ahead of its schedule than what is left of its delay.
  The work is in `OneTickFacts` (one tick counted: the lists switched at the wrap, the
  expired front of a sorted list cut off), in `BlockFacts` and `InsertSorted` (a
  delay begun), and in `PeriodFacts`
  (the tests of `vTaskDelayUntil` say "ahead" exactly when the unwrapped times do).
  `xTaskResumeAll` counts any number of pended ticks with a recursive function; the step
  from one to many (`TicksSound`) takes the least number of ticks after which something
  is wrong, since the library's induction cannot be used.
* `TimersProofs`: `ListsOnOneLine`, `NobodyForgotten` and `CallbacksInTime`, for any timers,
  periods, programs, lengths of the counter and of the queue.  `InOneTime` is the
  invariant.  `KeepTime` gives the values in the lists their meaning: ticks after
  the last sample, a round more in the overflow list, and no further away
  than the period.  `Wrapped` says what holds while the lists are switched: the
  counter is between the sample after the wrap and the one before it, and a timer
  that is reloaded in the middle is still before the wrap.  `InHand` says what is due for
  the command the task has taken, `Accounted` who sees to a timer that is in neither
  list: a reload in the queue, the command in hand, or the callback it is at.
  `DeletesLast` is needed because `xTimerCreate` sets a period anew, which only a
  timer that is in no list and no command may suffer.  The work is in
  `LateFacts` (the two tests of `prvInsertTimerInActiveList` find an expiry behind exactly
  when it is, counted without wrapping), `TickRoom` (a tick never takes the
  counter a whole round past the sample) and `InsertActiveKeeps`.

Assumptions: tasks, items and mutexes are finitely many, somebody takes part in the
rendezvous, the ARP table and the age of its entries are at least one, the handlers of
cyclic timers, of TCP and of the application differ and their delays fit the clock, DNS
has a port, a server and a try at least and no more requests than entries, markers (`End`, `NULL`, `Nobody`, `Nothing`) are different from items and tasks,
lengths, the longest delay and the nesting of suspensions are positive, datagrams and
fragments have 1 to `MaxUnits` = 8189 units of 8 bytes (what the 16-bit length of IP allows), reassembly has an entry at least, the pools of the
input path are finite, not empty and disjoint, a tick counter has more than one value,
delays and increments are between one tick and the longest delay, the idle task has
priority zero, priorities and block times are natural numbers,
the bits of the rendezvous and the flags are disjoint, and the timer task is late by
at most a third of a round of the counter (section 8 says why).  There is no other,
but for `NoChains`, the two hypotheses of `NoWakeupIsLost`, those of
`TasksAlwaysRunAlone`, `SYS_LIGHTWEIGHT_PROT` of
`ElementsAlwaysPlaced`, `OneRequestEach` of `AskersAlwaysAnswered` and `SumsFit` of `TimesAlwaysKept`; `MaxLate` and `MaxUntil` of
`Timeouts`, and how deep the tasks of the port nest critical sections, are natural numbers;
there is a thread at least, and no more tasks at the start than threads.

Only model-checked:

* liveness (fairness and ENABLED are beyond TLAPS), and with it the half of `OneTaskRuns`
  that speaks of ENABLED, `NoSwitchHangs`;
* what needs induction over data, beyond numbers with a least counterexample:
  `ImplementsRing` and `TurnNeverSlips` (a walk along pointers),
  `ImplementsMemory`;
* `Tcp`, whose invariant has not been worked out.

## 6 Where code and documentation disagree

Each is a run that TLC finds violated by what the code does.

**6.1 An assertion about inheritance fails** (`mutex_assert`).  A timed take that
inherited, timed out, found the mutex just given, and lost it again to
another task, is back at the top of its loop with a block time of zero
(`tasks.c:3157` against `queue.c:1468`): `configASSERT( xInheritanceOccurred == pdFALSE )`
ends the program.

**6.2 A stopped timer runs on** (`timers_stop`).  The timer task reloads a periodic
timer that it handles late, or around a wrap of the tick counter, by a START
command at the end of its own queue.  A stop that is already in the queue is
handled before (`timers.c:764`, `timers.c:877` against `timers.h:519`).  A callback
that stops its own timer is enough.  The same overtaking makes a reset or a change
of period ineffective, and a delete is followed by a START of a timer that has
been freed, which is undefined; `Timers` therefore deletes one-shot timers only.

**6.3 The TCP timer is lost** (`timeouts_unlocked`).  `sys_check_timeouts` removes
the first time-out in `tcpip_thread` without the core lock, while the thread of the
interface, under the lock, registers a connection and links the TCP timer behind
that very entry (`timeouts.c:335` against `timeouts.c:143`).  The timer stays
marked as active and is never started again.

**6.4 One pool element, two owners** (`pool_race`).  `SYS_LIGHTWEIGHT_PROT` is 0
though two threads use the pools: preempted in the middle of `memp_malloc`,
`tapif_thread` puts an element that is in use back on the free list
(`memp.c:316` against `opt.h:211`).

**6.5 Pbufs in reassembly are miscounted** (`reass_count`).  A fragment that came
before, or overlaps, is taken off `ip_reass_pbufcount` though it was never added
(`ip4_frag.c:485` against the assertion at `ip4_frag.c:210`).  The count wraps and
every further fragment is refused.  The fragment itself is then freed at
`ip4_frag.c:486` and again by the path of the caller (`ip4_frag.c:668`).

## 7 Seen in the code, and not a run

Kernel:

* `xTaskAbortDelay` sets `ucDelayAborted` also of a task that has been woken and
  only waits on the pending-ready list.  The flag is left behind, and a later
  indefinite wait takes it for its own abort (`tasks.c:2544`, `tasks.c:3120` against
  `tasks.c:3133`).
* `vTaskPrioritySet` writes a waiting task's new event item value in place; the list
  is not sorted again (`tasks.c:1574` against `tasks.c:2992`).
* `cTxLock` and `cRxLock` are `int8_t` and count without a test: the 128th
  interrupt in one lock makes them negative, and `prvUnlockQueue` wakes nobody
  (`queue.c:1057`).
* `xQueueGenericReset` wakes one sender though the whole queue is free
  (`queue.c:269`); the comment above it only promises that one.  Longer queues
  wake the others when the next item is received, so `Emptied` has length 1.
* `vTaskDelayUntil` computes from `pxPreviousWakeTime`; after an aborted delay, or one
  ended by `vTaskSuspend` and `vTaskResume`, the task is ahead of that time, contrary to
  `task.h:781`.  `NeverAhead` excuses it until a call finds it no longer ahead; that the
  next delay makes good for it is not so, if that one is cut short as well.
* When a waiting holder inherits, its event item gets a new value and keeps its
  place (`tasks.c:3821`), and inheritance is not passed on along a chain of
  holders (`tasks.c:3801`): `NoInversion` speaks of waiters that hold no mutex.
* `vTaskPrioritySet` below an inherited priority changes the base priority only
  (`tasks.c:1552`), which `task.h:971` does not mention.
* `xTaskAbortDelay` of a task in `ulTaskNotifyTake(.., portMAX_DELAY)` fails,
  because the task counts as suspended (`tasks.c:1365`, `task.h:817`); for the same
  reason `xTaskResumeFromISR` readies such a task, and the notification that comes
  then meets the assertion of `tasks.c:4742`.

Port:

* Two tasks that create tasks at once overwrite `lIndexOfLastAddedTask`:
  `pxPortInitialiseStack` is called outside the critical section (`tasks.c:1010`) and
  `vPortAddTaskHandle` reads the index later (`port.c:172`, `port.c:762`).  The casts
  have one creator.
* The thread of a task that ends itself still takes ticks, for the task that runs,
  although `port.c:431` says only the running thread can; it re-enables interrupts
  and zeroes the nesting count after it resumed the next task (`port.c:500`).
  `OneTaskRuns` therefore excludes that cast; its steps are explored.
* `prvDeleteThread` zeroes the nesting count of the task that runs
  (`port.c:746`), against `task.h:169`; a task that is deleted inside a critical section
  is excluded from that conjunct.
* A tick that finds interrupts disabled or the mutex taken is not counted,
  although `port.c:308` speaks of missed ticks.

lwIP:

* DHCP: an offer without a server id leaves SELECTING without a timer for ever
  (`dhcp_recv` zeroes `request_timeout` first, `dhcp.c:1845`).  A refusal and a
  change of the link leave the timers of the lease running: t1 can move a
  REQUESTING client to RENEWING without an address, `dhcp_supplied_address` then
  says there is one, and the acknowledgement is bound without the ARP check.  An
  infinite lease without options T1 and T2 gets finite ones computed from
  0xffffffff (`dhcp.c:621`, the second with a 32-bit wrap at `dhcp.c:630`); such a client can
  end in REBINDING without an address and without a timer, so `Leases` has none of
  these.  An infinite lease that follows a finite one keeps its `t0_timeout` and is
  released early.  Leases are rounded to whole minutes, up to half a minute too long.
  When a lease ends in REBOOTING or in the discovery after it, `dhcp_release` leaves
  the address on the interface until the static one.  `dhcp_bind` clears `t1_timeout`,
  which nobody reads (`dhcp.c:1130`).
* DNS: a callback must not ask again: it can join an entry that is about to be
  flushed, reuse the entry `dns_call_found` loops over, or index `dns_pcbs` out of
  bounds.  No caller in this build asks; only DHCP sets servers.  With
  `DNS_MAX_REQUESTS` below `DNS_TABLE_SIZE` the loop of `dns.c:953`, which is to spare a port
  that another query uses (`dns.c:951`), misses the queries in the last entries: in `Dns`
  with three entries and two requests TLC finds a port closed that a query still uses.
  This build has as many requests as entries (`dns.c:144`).
* TCP: with a zero receive window every pure acknowledgement is answered
  (`tcp_in.c:1702`); an immediate acknowledgement can be lost when Nagle holds data
  (`tcp.c:1286`); the retransmission count of the SYN is not reset when the connection
  opens (`tcp_in.c:811`).
* `ip4_frag` sets the last fragment's flag from a length that is right only when
  MTU minus 20 is a multiple of 8, as with 1500.  A datagram longer than 65535 bytes is
  not noticed in reassembly.
* `sys_mbox_new` returns `ERR_OK` when `xQueueCreate` failed (`sys_arch.c:189`); the
  elapsed time over a wrap of the tick count is one too small (`sys_arch.c:293`).

## 8 Limits

* `Queue` has no queue sets (`configUSE_QUEUE_SETS` is 1 but the program makes
  none), no `vTaskSuspend` of a waiting task, no co-routine calls.  `NeverEarly` leaves out
  programs that abort delays.
* `Scheduler` has a fixed set of tasks.  A task calls `vTaskDelayUntil` less than a round of
  the tick counter after the last time, and aborted delays put it no more than a round
  less an increment ahead: beyond either the wrapped times mean nothing.  `vTaskSwitchContext` is part of the step
  that asks for a yield; `PosixPort` has the switch in detail, and takes any ready
  task for the one that is picked.
* `Mutex`: a task that holds a mutex takes a further one without a block
  time (`nested`), so chains of holders do not arise.
* `Timers`: `MaxBehind` bounds how late the timer task is, and is at most a third of a
  round of the counter; periods stay so far below a round that a wrap is not
  overlooked.  In the program that takes a period, or a timer task held up, of
  weeks (2^32 ms are a round).  The third is needed: with eight ticks and a bound
  of four, TLC finds the counter past the last sample again while the lists are
  switched, so that the ticks since that sample can no longer be counted.
* `Notify` has one notified task and two bits of value in the run; `EventGroup`
  one group.
* `Tcpip` has packets only: callbacks posted by other threads take the same way
  from another pool.
* `IpReassembly`: a fragment is one pbuf (the buffers of the pool are larger than the
  MTU).  `DeliveredWhole` holds with the miscounting of 6.5 in the model.
* `Dns`: transaction ids do not collide, callbacks do not call back.
* `Dhcp`: how long a request waits is abstract; acknowledgements carry a lease
  time; messages do not fail for lack of memory.  The driver reports the link up once,
  before the client starts; `dhcp_network_changed` is there for drivers that do more.
* `Tcp`: no options, urgent data, keep-alives, refused data, congestion window or
  lack of memory; sequence numbers do not wrap.

## 9 Not modelled

* `sys_arch.c`: each function is one or two calls of the kernel, which the
  kernel's modules cover.
* `igmp.c`, `udp.c`, `raw.c`, `icmp.c`, `ip4.c`, `netif.c`: a list, a lookup or an
  answer in one step under the core lock; the delays of IGMP are those of the timer list.
* `autoip.c` is compiled and never started (its call is under `#if 0`).
* `pbuf.c` (chains that copy and cut data) and `mem.c` (the kernel's heap serves it).
* `api_msg.c`, `sockets.c` and the rest of the sequential API: configured out.
* `stream_buffer.c`, `croutine.c`, heaps 1, 2, 3 and 5, PPP, 6LoWPAN, SLIP, MQTT, PTP
  and the demo tasks: not built or not linked.  A large part of the tree is of this kind.
* `lwip/exts`: HTTP, mDNS, TFTP, telnet, lwiperf, NMOS and UDP commands parse and
  format on the raw API.

## 10 What could come next

1. `Igmp`, and the listening backlog and refused data in `Tcp`.
2. TCP as a refinement of two reliable streams.
