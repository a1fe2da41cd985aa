------------------------------- MODULE Tcpip --------------------------------
(***************************************************************************)
(* Packets on their way into the stack: the thread of the interface        *)
(* (lwip/project/tapif.c), tcpip_thread (lwip/src/api/tcpip.c), the mailbox *)
(* and the core lock between them, and the two pools they share            *)
(* (lwip/src/core/memp.c).                                                 *)
(*                                                                         *)
(* Taking an element from a pool and giving it back are two accesses to    *)
(* the pool's free list, which SYS_ARCH_PROTECT joins when                 *)
(* SYS_LIGHTWEIGHT_PROT is on.  tcpip_thread has the higher priority: it   *)
(* preempts the other anywhere, which runs when tcpip_thread waits.        *)
(***************************************************************************)
EXTENDS Naturals, Sequences, FiniteSets

CONSTANTS
    Pbufs,                  \* the elements of MEMP_PBUF_POOL
    Msgs,                   \* the elements of MEMP_TCPIP_MSG_INPKT
    NULL,
    TCPIP_MBOX_SIZE,
    SYS_LIGHTWEIGHT_PROT

Pools == {"pbuf", "inpkt"}
Elements(pool) == IF pool = "pbuf" THEN Pbufs ELSE Msgs
NetThreads == {"tapif", "tcpip"}

ASSUME TcpipAssumption ==
    /\ IsFiniteSet(Pbufs) /\ Pbufs # {} /\ IsFiniteSet(Msgs) /\ Msgs # {}
    /\ Pbufs \cap Msgs = {} /\ NULL \notin Pbufs \cup Msgs \cup NetThreads
    /\ TCPIP_MBOX_SIZE \in Nat /\ SYS_LIGHTWEIGHT_PROT \in BOOLEAN

VARIABLES
    locking_input,  \* LWIP_TCPIP_CORE_LOCKING_INPUT of the build
    tab,            \* by pool: the first element of the free list
    memp_next,      \* by element: the next one
    inp,            \* by message: the packet it carries
    mbox,
    queued,         \* packets the stack keeps: ARP, reassembly, TCP
    lock_tcpip_core,
    prot,           \* who is between SYS_ARCH_PROTECT and SYS_ARCH_UNPROTECT
    at,             \* by thread: what it does next
    hand,           \* by thread and pool: the element it holds
    access          \* by thread: the pool operation it is in the middle of

netVars == <<locking_input, tab, memp_next, inp, mbox, queued, lock_tcpip_core,
             prot, at, hand, access>>

NoAccess == [op |-> "none"]

(* memp_init links the elements of each pool. *)
Order(pool) ==
    LET S == Elements(pool)
    IN  CHOOSE order \in [1..Cardinality(S) -> S] :
            \A i, j \in DOMAIN order : order[i] = order[j] => i = j

Linked(pool) ==
    [e \in Elements(pool) |->
        LET i == CHOOSE k \in DOMAIN Order(pool) : Order(pool)[k] = e
        IN  IF i + 1 \in DOMAIN Order(pool) THEN Order(pool)[i + 1] ELSE NULL]

TcpipInit ==
    /\ locking_input \in BOOLEAN
    /\ memp_next = [e \in Pbufs \cup Msgs |-> Linked(IF e \in Pbufs THEN "pbuf" ELSE "inpkt")[e]]
    /\ tab = [pool \in Pools |-> Order(pool)[1]]
    /\ inp = [m \in Msgs |-> NULL]
    /\ mbox = <<>> /\ queued = {}
    /\ lock_tcpip_core = NULL /\ prot = NULL
    /\ at = [t \in NetThreads |-> IF t = "tapif" THEN "select" ELSE "fetch"]
    /\ hand = [t \in NetThreads |-> [pool \in Pools |-> NULL]]
    /\ access = [t \in NetThreads |-> NoAccess]

(* tcpip_thread sleeps in its fetch, or waits for the core lock. *)
TcpipWaits ==
    /\ access["tcpip"] = NoAccess
    /\ at["tcpip"] = "fetch" \/ (at["tcpip"] = "lock" /\ lock_tcpip_core # NULL)

Turn(t) ==
    /\ prot \in {NULL, t}
    /\ t = "tapif" => TcpipWaits

Runs(t, where) == Turn(t) /\ access[t] = NoAccess /\ at[t] = where

Protect(t) == prot' = IF SYS_LIGHTWEIGHT_PROT THEN t ELSE prot

(* memp_malloc reads the head of the free list ... *)
MallocReads(t, pool, then) ==
    /\ Protect(t)
    /\ access' = [access EXCEPT ![t] = [op |-> "malloc", pool |-> pool, e |-> tab[pool],
                                        then |-> then]]
    /\ UNCHANGED <<tab, memp_next, hand>>

(* ... and makes the next element the head; an empty pool returns NULL.    *)
MallocTakes(t) ==
    /\ Turn(t) /\ access[t].op = "malloc"
    /\ LET a == access[t]
       IN  /\ tab' = IF a.e = NULL THEN tab ELSE [tab EXCEPT ![a.pool] = memp_next[a.e]]
           /\ memp_next' = [x \in DOMAIN memp_next |-> IF x = a.e THEN NULL ELSE memp_next[x]]
           /\ hand' = [hand EXCEPT ![t][a.pool] = a.e]
           /\ at' = [at EXCEPT ![t] = a.then]
    /\ access' = [access EXCEPT ![t] = NoAccess]
    /\ prot' = NULL
    /\ UNCHANGED <<locking_input, inp, mbox, queued, lock_tcpip_core>>

(* memp_free links the element before the head ... *)
FreeLinks(t, pool, then) ==
    /\ Protect(t)
    /\ memp_next' = [memp_next EXCEPT ![hand[t][pool]] = tab[pool]]
    /\ access' = [access EXCEPT ![t] = [op |-> "free", pool |-> pool, then |-> then]]
    /\ UNCHANGED <<tab, hand>>

(* ... and makes it the head. *)
FreeStores(t) ==
    /\ Turn(t) /\ access[t].op = "free"
    /\ LET a == access[t]
       IN  /\ tab' = [tab EXCEPT ![a.pool] = hand[t][a.pool]]
           /\ hand' = [hand EXCEPT ![t][a.pool] = NULL]
           /\ at' = [at EXCEPT ![t] = a.then]
    /\ access' = [access EXCEPT ![t] = NoAccess]
    /\ prot' = NULL
    /\ UNCHANGED <<locking_input, memp_next, inp, mbox, queued, lock_tcpip_core>>

Goes(t, where) == at' = [at EXCEPT ![t] = where]

(* tapif_input: low_level_input takes a pbuf for the packet. *)
PacketArrives ==
    /\ Runs("tapif", "select")
    /\ MallocReads("tapif", "pbuf", "input")
    /\ UNCHANGED <<locking_input, inp, mbox, queued, lock_tcpip_core, at>>

(* A packet for which there is no pbuf is dropped; netif->input is         *)
(* tcpip_input, which locks the core or takes a message.                   *)
tcpip_inpkt ==
    /\ Runs("tapif", "input")
    /\ IF hand["tapif"]["pbuf"] = NULL
       THEN Goes("tapif", "select") /\ UNCHANGED <<access, tab, memp_next, hand, prot>>
       ELSE IF locking_input
       THEN Goes("tapif", "lock") /\ UNCHANGED <<access, tab, memp_next, hand, prot>>
       ELSE MallocReads("tapif", "inpkt", "post") /\ UNCHANGED at
    /\ UNCHANGED <<locking_input, inp, mbox, queued, lock_tcpip_core>>

(* Slip: the message of a packet that was not posted is not freed. *)
RefusalKeepsMessage ==
    /\ hand' = [hand EXCEPT !["tapif"]["inpkt"] = NULL]
    /\ Goes("tapif", "drop")
    /\ UNCHANGED <<access, tab, memp_next, prot>>

(* ERR_MEM: the message goes back, then tapif_input frees the packet.      *)
Refused ==
    /\ FreeLinks("tapif", "inpkt", "drop")
    /\ UNCHANGED at

Post ==
    /\ Runs("tapif", "post")
    /\ LET m == hand["tapif"]["inpkt"]
       IN  IF m = NULL
           THEN Goes("tapif", "drop")
                /\ UNCHANGED <<access, tab, memp_next, hand, prot, inp, mbox>>
           ELSE IF Len(mbox) = TCPIP_MBOX_SIZE
           THEN Refused /\ UNCHANGED <<inp, mbox>>
           ELSE /\ inp' = [inp EXCEPT ![m] = hand["tapif"]["pbuf"]]
                /\ mbox' = Append(mbox, m)
                /\ hand' = [hand EXCEPT !["tapif"] = [pool \in Pools |-> NULL]]
                /\ Goes("tapif", "select")
                /\ UNCHANGED <<access, tab, memp_next, prot>>
    /\ UNCHANGED <<locking_input, queued, lock_tcpip_core>>

Drop ==
    /\ Runs("tapif", "drop")
    /\ FreeLinks("tapif", "pbuf", "select")
    /\ UNCHANGED <<locking_input, inp, mbox, queued, lock_tcpip_core, at>>

(* sys_timeouts_mbox_fetch returns a message ... *)
FetchMessage ==
    /\ Runs("tcpip", "fetch") /\ mbox # <<>>
    /\ mbox' = Tail(mbox)
    /\ hand' = [hand EXCEPT !["tcpip"]["inpkt"] = Head(mbox),
                            !["tcpip"]["pbuf"] = inp[Head(mbox)]]
    /\ inp' = [inp EXCEPT ![Head(mbox)] = NULL]
    /\ Goes("tcpip", "lock")
    /\ UNCHANGED <<locking_input, queued, lock_tcpip_core, prot, access, tab, memp_next>>

(* ... or a time-out expires, whose handler runs under the core lock.      *)
TimerExpires ==
    /\ Runs("tcpip", "fetch")
    /\ Goes("tcpip", "lock")
    /\ UNCHANGED <<locking_input, inp, mbox, queued, lock_tcpip_core, prot, access,
                   tab, memp_next, hand>>

LockCore(t) ==
    /\ Runs(t, "lock") /\ lock_tcpip_core = NULL
    /\ lock_tcpip_core' = t
    /\ Goes(t, "core")
    /\ UNCHANGED <<locking_input, inp, mbox, queued, prot, access, tab, memp_next, hand>>

(* What input functions and timers do with packets: free one, keep one, or *)
(* take one that was kept, to free it.                                     *)
CoreWorks(t) ==
    /\ Runs(t, "core")
    /\ IF hand[t]["pbuf"] # NULL
       THEN \/ /\ FreeLinks(t, "pbuf", "core")
               /\ UNCHANGED <<at, queued>>
            \/ /\ queued' = queued \cup {hand[t]["pbuf"]}
               /\ hand' = [hand EXCEPT ![t]["pbuf"] = NULL]
               /\ UNCHANGED <<at, tab, memp_next, prot, access>>
       ELSE /\ \E p \in queued :
                  /\ queued' = queued \ {p}
                  /\ hand' = [hand EXCEPT ![t]["pbuf"] = p]
            /\ UNCHANGED <<at, tab, memp_next, prot, access>>
    /\ UNCHANGED <<locking_input, inp, mbox, lock_tcpip_core>>

(* The message is freed before the core is unlocked. *)
CoreEnds(t) ==
    /\ Runs(t, "core") /\ hand[t]["pbuf"] = NULL
    /\ IF hand[t]["inpkt"] # NULL
       THEN FreeLinks(t, "inpkt", "core") /\ UNCHANGED <<at, lock_tcpip_core>>
       ELSE /\ lock_tcpip_core' = NULL
            /\ Goes(t, IF t = "tapif" THEN "select" ELSE "fetch")
            /\ UNCHANGED <<tab, memp_next, hand, prot, access>>
    /\ UNCHANGED <<locking_input, inp, mbox, queued>>

TcpipNext ==
    \/ PacketArrives \/ tcpip_inpkt \/ Post \/ Drop
    \/ FetchMessage \/ TimerExpires
    \/ \E t \in NetThreads :
          MallocTakes(t) \/ FreeStores(t) \/ LockCore(t) \/ CoreWorks(t) \/ CoreEnds(t)

TcpipSpec == TcpipInit /\ [][TcpipNext]_netVars

-----------------------------------------------------------------------------
TcpipTypeOK ==
    /\ \A pool \in Pools :
          /\ tab[pool] \in Elements(pool) \cup {NULL}
          /\ \A t \in NetThreads : hand[t][pool] \in Elements(pool) \cup {NULL}
          /\ \A e \in Elements(pool) : memp_next[e] \in Elements(pool) \cup {NULL}
    /\ mbox \in Seq(Msgs) /\ Len(mbox) <= TCPIP_MBOX_SIZE
    /\ queued \subseteq Pbufs
    /\ lock_tcpip_core \in NetThreads \cup {NULL}
    /\ prot \in NetThreads \cup {NULL}

(* The elements on a pool's free list. *)
Free(pool) ==
    LET n == Cardinality(Elements(pool))
        e[i \in 0..n] == IF i = 0 THEN tab[pool]
                         ELSE IF e[i - 1] = NULL THEN NULL ELSE memp_next[e[i - 1]]
    IN  {e[i] : i \in 0..n} \ {NULL}

(* How many places hold an element. *)
Places(pool, e) ==
    Cardinality({"free" : x \in Free(pool) \cap {e}}
        \cup {t \in NetThreads : hand[t][pool] = e}
        \cup (IF pool = "pbuf"
              THEN {m \in Msgs : inp[m] = e} \cup {"queued" : x \in queued \cap {e}}
              ELSE {<<"mbox", i>> : i \in {j \in 1..Len(mbox) : mbox[j] = e}}))

(* Every element is in exactly one place: no packet and no message is      *)
(* lost when a pool or the mailbox is exhausted, none is in use twice, and *)
(* none is in use and free, whatever the two threads do to the pools at    *)
(* once (memp.c:297-345, memp.c:411-450, tcpip.c:160-200, tapif.c:150-210).*)
EveryElementHasOnePlace ==
    /\ TcpipTypeOK
    /\ (\A t \in NetThreads : access[t] = NoAccess)
       => \A pool \in Pools : \A e \in Elements(pool) : Places(pool, e) = 1
=============================================================================
