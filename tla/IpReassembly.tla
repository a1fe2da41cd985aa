---------------------------- MODULE IpReassembly ----------------------------
(***************************************************************************)
(* Fragmentation and reassembly of IPv4 datagrams                          *)
(* (lwip/src/core/ipv4/ip4_frag.c).                                        *)
(*                                                                         *)
(* Offsets count the 8 bytes that a fragment offset counts.  A fragment is *)
(* in one pbuf: the buffers of the pool are larger than the MTU.  The      *)
(* network loses, repeats and reorders fragments, and a repeated datagram  *)
(* may have been cut elsewhere, on a path with another MTU.  A call runs   *)
(* under the core lock and is one step.                                    *)
(***************************************************************************)
EXTENDS Integers, Sequences, SequencesExt, FiniteSetsExt, EventList

CONSTANTS
    Datagrams,              \* source, destination and identification
    Length,                 \* of the payload of each, Length[d]
    FragmentSizes,          \* nfb on the paths they may come along
    IP_REASS_MAX_PBUFS, MEMP_NUM_REASSDATA, IP_REASS_MAXAGE,
    MaxMiscounted           \* bound: pbufs that are queued and not counted

(* A datagram with its header is no longer than 0xFFFF bytes. *)
MaxUnits == 8189

ASSUME ReassAssumption ==
    /\ Length \in [Datagrams -> 1..MaxUnits] /\ FragmentSizes \subseteq 1..MaxUnits
    /\ IP_REASS_MAX_PBUFS \in Nat /\ MEMP_NUM_REASSDATA \in Nat \ {0}
    /\ IP_REASS_MAXAGE \in Nat /\ MaxMiscounted \in Nat

VARIABLES
    reassdatagrams,         \* newest first
    ip_reass_pbufcount,     \* u16_t
    passed_up               \* the datagram returned last, as its chain of fragments

reassVars == <<reassdatagrams, ip_reass_pbufcount, passed_up>>

U16 == 65536

(* The fragments of d when nfb units fit into a packet.                    *)
ip4_frag(d, nfb) ==
    {[id |-> d, start |-> ofo, end |-> Min({ofo + nfb, Length[d]}), MF |-> ofo + nfb < Length[d]] :
        ofo \in {k \in 0..(Length[d] - 1) : k % nfb = 0}}

Fragments == UNION {ip4_frag(d, nfb) : d \in Datagrams, nfb \in FragmentSizes}

ReassInit ==
    /\ reassdatagrams = <<>>
    /\ ip_reass_pbufcount = 0
    /\ passed_up = <<>>

(* The pbufs of the datagrams in a list.                                   *)
QueuedPbufs(list) ==
    LET sum[i \in 0..Len(list)] == IF i = 0 THEN 0 ELSE sum[i - 1] + Len(list[i].p)
    IN  sum[Len(list)]

-----------------------------------------------------------------------------
(* Tables: the list of datagrams with the count of their pbufs.            *)

Table == [list |-> reassdatagrams, count |-> ip_reass_pbufcount]

ip_reass_free_complete_datagram(t, i) ==
    [list |-> RemoveAt(t.list, i), count |-> (t.count - Len(t.list[i].p)) % U16]

Others(t, d) == {i \in DOMAIN t.list : t.list[i].id # d}

(* With equal timers the one further down the list is the older.           *)
ip_reass_remove_oldest_datagram(t, d) ==
    IF Others(t, d) = {} THEN t
    ELSE LET oldest == CHOOSE i \in Others(t, d) : \A j \in Others(t, d) :
                           \/ t.list[i].timer < t.list[j].timer
                           \/ t.list[i].timer = t.list[j].timer /\ j <= i
         IN  ip_reass_free_complete_datagram(t, oldest)

ip_reass_enqueue_new_datagram(t, d) ==
    LET u == IF Len(t.list) < MEMP_NUM_REASSDATA THEN t
             ELSE ip_reass_remove_oldest_datagram(t, d)
        ipr == [id |-> d, p |-> <<>>, last |-> FALSE, timer |-> IP_REASS_MAXAGE]
    IN  [u EXCEPT !.list = <<ipr>> \o @]

Holding(t, d) == {i \in DOMAIN t.list : t.list[i].id = d}

Overlap(f, g) == f.start < g.end /\ g.start < f.end

Chained(p, f) == InsertBefore(p, f, {g \in ToSet(p) : g.start > f.start})

(* Slip: only the fragments up to the new one are looked at. *)
NoHolesSoFar(p, f) ==
    /\ p[1].start = 0
    /\ \A i \in 1..(Len(p) - 1) : p[i].start < f.start => p[i].end = p[i + 1].start

NoHoles(p, f) ==
    /\ p[1].start = 0
    /\ \A i \in 1..(Len(p) - 1) : p[i].end = p[i + 1].start

(* Fragment f goes into the datagram at i.  One that overlaps what is      *)
(* there is thrown away, and its pbuf, never counted, is subtracted.       *)
ip_reass_chain_frag_into_datagram_and_validate(t, i, f) ==
    LET ipr == t.list[i]
        chain == Chained(ipr.p, f)
        last == ipr.last \/ ~f.MF
    IN  IF \E g \in ToSet(ipr.p) : Overlap(f, g)
        THEN [valid |-> "DROPPED", table |-> [t EXCEPT !.count = (@ - 1) % U16], p |-> <<>>]
        ELSE IF last /\ NoHoles(chain, f)
        THEN [valid |-> "FINISHED", p |-> chain,
              table |-> [list |-> RemoveAt(t.list, i),
                         count |-> (t.count + 1 - Len(chain)) % U16]]
        ELSE [valid |-> "QUEUED", p |-> <<>>,
              table |-> [list |-> [t.list EXCEPT ![i].p = chain, ![i].last = last],
                         count |-> (t.count + 1) % U16]]

-----------------------------------------------------------------------------
Settle(t, p) ==
    /\ reassdatagrams' = t.list
    /\ ip_reass_pbufcount' = t.count
    /\ passed_up' = p

(* Too many pbufs are queued, and another datagram has to make room.       *)
Full(t) == t.count + 1 > IP_REASS_MAX_PBUFS

ip4_reass(f) ==
    LET t == IF Full(Table) THEN ip_reass_remove_oldest_datagram(Table, f.id) ELSE Table
        u == IF Holding(t, f.id) = {} THEN ip_reass_enqueue_new_datagram(t, f.id) ELSE t
        result == ip_reass_chain_frag_into_datagram_and_validate(
                      u, Min(Holding(u, f.id)), f)
    IN  IF Full(t) THEN Settle(t, <<>>)
        ELSE /\ result.valid = "DROPPED" =>
                   (QueuedPbufs(reassdatagrams) - ip_reass_pbufcount) % U16 < MaxMiscounted
             /\ Settle(result.table, result.p)

(* What has waited for IP_REASS_MAXAGE ticks is freed.                     *)
ip_reass_tmr ==
    LET expired == {r \in ToSet(reassdatagrams) : r.timer = 0}
        waiting == Without(reassdatagrams, expired)
        freed == QueuedPbufs(reassdatagrams) - QueuedPbufs(waiting)
    IN  /\ reassdatagrams # <<>>
        /\ Settle([list |-> [i \in DOMAIN waiting |-> [waiting[i] EXCEPT !.timer = @ - 1]],
                   count |-> (ip_reass_pbufcount - freed) % U16], <<>>)

ReassNext ==
    \/ \E f \in Fragments : ip4_reass(f)
    \/ ip_reass_tmr

ReassSpec == ReassInit /\ [][ReassNext]_reassVars

-----------------------------------------------------------------------------
ReassTypeOK ==
    /\ reassdatagrams \in Seq([id: Datagrams, p: Seq(Fragments), last: BOOLEAN,
                               timer: 0..IP_REASS_MAXAGE])
    /\ Len(reassdatagrams) <= MEMP_NUM_REASSDATA
    /\ ip_reass_pbufcount \in 0..(U16 - 1)
    /\ passed_up \in Seq(Fragments)

(* What ip4_reass hands to the transport is one datagram from its first    *)
(* byte to its last, every byte once, whatever order, repetitions and cuts *)
(* its fragments came in; and what it still queues can be completed: the   *)
(* pieces of an entry are of its datagram, in order and disjoint, and an   *)
(* entry that could be freed has a first piece (ip_reass_free_complete_    *)
(* datagram looks at it without a test).                                   *)
DeliveredWhole ==
    /\ ReassTypeOK
    /\ passed_up # <<>> =>
          LET d == passed_up[1].id
          IN  /\ \A i \in DOMAIN passed_up : passed_up[i].id = d
              /\ passed_up[1].start = 0
              /\ \A i \in 2..Len(passed_up) : passed_up[i].start = passed_up[i - 1].end
              /\ passed_up[Len(passed_up)].end = Length[d]
    /\ \A i, j \in DOMAIN reassdatagrams :
          i # j => reassdatagrams[i].id # reassdatagrams[j].id
    /\ \A i \in DOMAIN reassdatagrams :
          LET p == reassdatagrams[i].p
          IN  /\ p # <<>>
              /\ \A k \in DOMAIN p : p[k].id = reassdatagrams[i].id
              /\ \A k \in 2..Len(p) : p[k - 1].end <= p[k].start

(* ip4_frag.c:210 asserts, whenever a datagram is freed, that at least its *)
(* pbufs have been counted.  The timer may free any datagram that is       *)
(* listed.                                                                 *)
PbufsAreCounted ==
    \A i \in DOMAIN reassdatagrams : ip_reass_pbufcount >= Len(reassdatagrams[i].p)
=============================================================================
