------------------------------- MODULE Etharp -------------------------------
(***************************************************************************)
(* The ARP cache (lwip/src/core/ipv4/etharp.c): its table, the packets     *)
(* that wait for an address, and the timer that ages the entries.          *)
(*                                                                         *)
(* Everything runs under the core lock, a call is one step.  The packets   *)
(* for a host are numbered in the order they are given to etharp_output,   *)
(* from 1 when none waits.                                                 *)
(***************************************************************************)
EXTENDS Naturals, Sequences, FiniteSetsExt, Functions

CONSTANTS
    Hosts,              \* unicast addresses of the local network
    Macs,
    ARP_TABLE_SIZE, ARP_MAXAGE, ARP_MAXPENDING,
    ARP_AGE_REREQUEST_USED_UNICAST, ARP_AGE_REREQUEST_USED_BROADCAST,
    MEMP_NUM_ARP_QUEUE, ARP_QUEUE_LEN,
    MaxPackets          \* bound: packets given since one began to wait

ASSUME ArpAssumption ==
    /\ ARP_TABLE_SIZE \in Nat \ {0} /\ ARP_MAXAGE \in Nat \ {0}
    /\ ARP_QUEUE_LEN \in Nat /\ MEMP_NUM_ARP_QUEUE \in Nat
    /\ MaxPackets \in Nat

VARIABLES
    arp_table,
    etharp_cached_entry,
    arp_queue_free,     \* elements left in the pool MEMP_ARP_QUEUE
    wire,               \* packets the last call put on the wire
    heard               \* by host: the address its last ARP packet told

arpVars == <<arp_table, etharp_cached_entry, arp_queue_free, wire, heard>>

Entries == 1..ARP_TABLE_SIZE
EntryStates == {"EMPTY", "PENDING", "STABLE", "REREQUESTING_1", "REREQUESTING_2"}
Stable(e) == e.state \notin {"EMPTY", "PENDING"}
Unknown == "unknown"

Entry(state, ip, mac, ctime, q) ==
    [state |-> state, ipaddr |-> ip, ethaddr |-> mac, ctime |-> ctime, q |-> q]

ArpInit ==
    /\ \E ip \in Hosts : arp_table = [i \in Entries |-> Entry("EMPTY", ip, Unknown, 0, <<>>)]
    /\ etharp_cached_entry = 1
    /\ arp_queue_free = MEMP_NUM_ARP_QUEUE
    /\ wire = <<>>
    /\ heard = [ip \in Hosts |-> Unknown]

(* Slip: an entry that is recycled keeps the packets that waited for it. *)
FreeKeepsQueue(e) == [e EXCEPT !.state = "EMPTY"]

(* The address stays in an entry that is free. *)
etharp_free_entry(e) == [e EXCEPT !.state = "EMPTY", !.q = <<>>]

Oldest(S) ==
    CHOOSE i \in S : \A j \in S :
        \/ arp_table[j].ctime < arp_table[i].ctime
        \/ arp_table[j].ctime = arp_table[i].ctime /\ j <= i

Matching(ip) == {i \in Entries : arp_table[i].state # "EMPTY" /\ arp_table[i].ipaddr = ip}

(* The least destructive entry to use for a new address.                   *)
Recycled ==
    LET empty == {i \in Entries : arp_table[i].state = "EMPTY"}
        stable == {i \in Entries : Stable(arp_table[i])}
        waiting == {i \in Entries : arp_table[i].state = "PENDING" /\ arp_table[i].q = <<>>}
    IN  CASE empty # {} -> Min(empty)
          [] empty = {} /\ stable # {} -> Oldest(stable)
          [] empty = {} /\ stable = {} /\ waiting # {} -> Oldest(waiting)
          [] OTHER -> Oldest(Entries)

(* etharp_find_entry with ETHARP_FLAG_TRY_HARD. *)
etharp_find_entry(ip) == IF Matching(ip) # {} THEN Min(Matching(ip)) ELSE Recycled

(* The last packet given of those that wait for ip. *)
Newest(ip) == Max({0} \cup UNION {Range(arp_table[i].q) : i \in Matching(ip)})

(* The table with that entry for ip, new entries in state EMPTY. *)
WithEntryFor(ip) ==
    IF Matching(ip) # {} THEN arp_table
    ELSE [arp_table EXCEPT ![Recycled] =
            [etharp_free_entry(@) EXCEPT !.ipaddr = ip, !.ctime = 0]]

(* The elements of the pool that the queues of a table take. *)
Queued(t) == Cardinality(UNION {{i} \X DOMAIN t[i].q : i \in Entries})

(* The packets of an entry leave in order when its address is known.       *)
etharp_update_arp_entry(ip, mac, t, i) ==
    /\ arp_table' = [t EXCEPT ![i].state = "STABLE", ![i].ethaddr = mac,
                              ![i].ctime = 0, ![i].q = <<>>]
    /\ wire' = [k \in DOMAIN t[i].q |-> [ip |-> ip, n |-> t[i].q[k], to |-> mac]]
    /\ arp_queue_free' = arp_queue_free + Queued(arp_table) - Queued(arp_table')

(* An ARP packet from ip: a new entry only when the packet is for us.      *)
etharp_input(ip, mac, for_us) ==
    /\ heard' = [heard EXCEPT ![ip] = mac]
    /\ IF for_us \/ Matching(ip) # {}
       THEN etharp_update_arp_entry(ip, mac, WithEntryFor(ip), etharp_find_entry(ip))
       ELSE wire' = <<>> /\ UNCHANGED <<arp_table, arp_queue_free>>
    /\ UNCHANGED etharp_cached_entry

(* The entry is asked for again before it expires, if the request can be   *)
(* allocated.                                                              *)
Rerequested(e, sent) ==
    IF /\ e.state = "STABLE" /\ sent
       /\ \/ e.ctime >= ARP_AGE_REREQUEST_USED_BROADCAST
          \/ e.ctime >= ARP_AGE_REREQUEST_USED_UNICAST
    THEN [e EXCEPT !.state = "REREQUESTING_1"] ELSE e

etharp_output_to_arp_index(ip, n, i, sent) ==
    /\ arp_table' = [arp_table EXCEPT ![i] = Rerequested(@, sent)]
    /\ wire' = <<[ip |-> ip, n |-> n, to |-> arp_table[i].ethaddr]>>
    /\ etharp_cached_entry' = i
    /\ UNCHANGED arp_queue_free

Shortened(q) == IF Len(q) > ARP_QUEUE_LEN THEN Tail(q) ELSE q

(* No entry is stable: the packet is copied and waits, if there is memory  *)
(* for the copy and an element in the pool.  The new element is taken      *)
(* before the oldest is given back.                                        *)
etharp_query(ip, n, copied) ==
    LET i == etharp_find_entry(ip)
        t == [WithEntryFor(ip) EXCEPT ![i].state = "PENDING"]
        pool == arp_queue_free + Queued(arp_table) - Queued(t)
    IN  /\ arp_table' = IF copied /\ pool > 0
                        THEN [t EXCEPT ![i].q = Shortened(Append(@, n))] ELSE t
        /\ arp_queue_free' = IF copied /\ pool > 0
                             THEN pool - (Len(arp_table'[i].q) - Len(t[i].q)) ELSE pool
        /\ wire' = <<>>
        /\ UNCHANGED etharp_cached_entry

(* Slip: the address of the cached entry is not compared. *)
CachedAndStable(ip) == Stable(arp_table[etharp_cached_entry])

Cached(ip) ==
    /\ Stable(arp_table[etharp_cached_entry])
    /\ arp_table[etharp_cached_entry].ipaddr = ip

(* The entry used last is tried first. *)
etharp_output(ip, memory) ==
    LET n == Newest(ip) + 1
        known == {i \in Matching(ip) : Stable(arp_table[i])}
    IN  /\ n <= MaxPackets
        /\ CASE Cached(ip) -> etharp_output_to_arp_index(ip, n, etharp_cached_entry, memory)
             [] ~ Cached(ip) /\ known # {} -> etharp_output_to_arp_index(ip, n, Min(known), memory)
             [] OTHER -> etharp_query(ip, n, memory)
        /\ UNCHANGED heard

(* etharp_query without a packet asks for the address only. *)
QueryAddress(ip) ==
    /\ arp_table' = [WithEntryFor(ip) EXCEPT ![etharp_find_entry(ip)].state =
                        IF @ = "EMPTY" THEN "PENDING" ELSE @]
    /\ arp_queue_free' = arp_queue_free + Queued(arp_table) - Queued(arp_table')
    /\ wire' = <<>> /\ UNCHANGED <<etharp_cached_entry, heard>>

Aged(e) ==
    LET older == [e EXCEPT !.ctime = @ + 1]
    IN  CASE e.state = "EMPTY" -> e
          [] \/ older.ctime >= ARP_MAXAGE /\ e.state # "EMPTY"
             \/ older.ctime >= ARP_MAXPENDING /\ e.state = "PENDING" -> etharp_free_entry(older)
          [] e.state = "REREQUESTING_1" /\ older.ctime < ARP_MAXAGE ->
                [older EXCEPT !.state = "REREQUESTING_2"]
          [] e.state = "REREQUESTING_2" /\ older.ctime < ARP_MAXAGE ->
                [older EXCEPT !.state = "STABLE"]
          [] OTHER -> older

etharp_tmr ==
    /\ arp_table' = [i \in Entries |-> Aged(arp_table[i])]
    /\ arp_queue_free' = arp_queue_free + Queued(arp_table) - Queued(arp_table')
    /\ wire' = <<>> /\ UNCHANGED <<etharp_cached_entry, heard>>

(* The interface goes down. *)
etharp_cleanup_netif ==
    /\ arp_table' = [i \in Entries |->
            IF arp_table[i].state = "EMPTY" THEN arp_table[i] ELSE etharp_free_entry(arp_table[i])]
    /\ arp_queue_free' = arp_queue_free + Queued(arp_table) - Queued(arp_table')
    /\ wire' = <<>> /\ UNCHANGED <<etharp_cached_entry, heard>>

ArpNext ==
    \/ \E ip \in Hosts, mac \in Macs, for_us \in BOOLEAN : etharp_input(ip, mac, for_us)
    \/ \E ip \in Hosts, memory \in BOOLEAN : etharp_output(ip, memory)
    \/ \E ip \in Hosts : QueryAddress(ip)
    \/ etharp_tmr \/ etharp_cleanup_netif

ArpSpec == ArpInit /\ [][ArpNext]_arpVars

-----------------------------------------------------------------------------
ArpTypeOK ==
    /\ \A i \in Entries :
          /\ arp_table[i].state \in EntryStates
          /\ arp_table[i].ipaddr \in Hosts
          /\ arp_table[i].ethaddr \in Macs \cup {Unknown}
          /\ arp_table[i].ctime \in 0..ARP_MAXAGE
          /\ Len(arp_table[i].q) <= ARP_QUEUE_LEN
    /\ etharp_cached_entry \in Entries
    /\ arp_queue_free \in 0..MEMP_NUM_ARP_QUEUE

(* A host is in at most one entry, only a pending entry has packets, in    *)
(* the order they were given, and no element of the pool is lost however   *)
(* entries are recycled, expire and are resolved (etharp.c:207-232,        *)
(* 256-400, 427-500, 970-1090).                                            *)
QueuesAreKept ==
    /\ ArpTypeOK
    /\ \A i, j \in Entries :
          /\ arp_table[i].state # "EMPTY" /\ arp_table[j].state # "EMPTY"
          /\ arp_table[i].ipaddr = arp_table[j].ipaddr
          => i = j
    /\ \A i \in Entries :
          LET q == arp_table[i].q
          IN  /\ q # <<>> => arp_table[i].state = "PENDING"
              /\ \A k \in 2..Len(q) : q[k - 1] < q[k]
    /\ arp_queue_free + Queued(arp_table) = MEMP_NUM_ARP_QUEUE

(* What goes on the wire goes to the address its host last told, also      *)
(* through the cached index of an entry that now is another host's, in     *)
(* the order it was given, and overtakes nothing that still waits          *)
(* (etharp.c:427-500, 830-910).                                            *)
SentInOrderWhereHeard ==
    [][/\ \A k \in DOMAIN wire' :
            /\ wire'[k].to = heard'[wire'[k].ip]
            /\ \A i \in Entries : arp_table'[i].ipaddr = wire'[k].ip =>
                  \A n \in Range(arp_table'[i].q) : wire'[k].n < n
       /\ \A k \in 2..Len(wire') : wire'[k - 1].n < wire'[k].n]_arpVars
=============================================================================
