------------------------------ MODULE NetProofs ------------------------------
(* Proofs about parts of the network stack, for every value of their       *)
(* constants.                                                              *)
(*                                                                         *)
(* Dhcp: an address is never called supplied by DHCP after its lease.  The *)
(* client itself only keeps timers; which of them belong to the lease of   *)
(* the address, or to one before it, is what the invariant says.           *)
(*                                                                         *)
(* Etharp: packets that wait are kept in order with the elements they      *)
(* take, and every packet goes where its host was last heard.  The table   *)
(* only keeps addresses; that those are what was heard last, that no host  *)
(* is in two entries and that an entry that is used has not expired is     *)
(* what the invariant adds.                                                *)
(*                                                                         *)
(* Timeouts: no timer is lost or started twice.  Its lists hold each       *)
(* handler once, and times of the clock, whatever place sys_timeout finds; *)
(* the sums of times that it compares are numbers, by a least              *)
(* counterexample where the library's induction cannot be used.  No step   *)
(* brings one forward: how late the thread may be, and the sums along the  *)
(* list before and after each change of it, are what that takes.           *)
(*                                                                         *)
(* Dns: whoever asks is told, once, and in time.  The invariant counts the *)
(* calls of dns_tmr that a query has used up by its server, its retries    *)
(* and its timer.                                                          *)
(*                                                                         *)
(* IpReassembly: a datagram is handed up whole.  Its pieces are kept in    *)
(* order and disjoint, and with the last one among them once it was seen:  *)
(* when there is no hole, the last piece of the list ends the datagram.    *)
(*                                                                         *)
(* Tcpip: every element of the pools has one place.  The free list is a    *)
(* sequence that memp_next links, and whoever is in the middle of an       *)
(* access to it is alone, so that what it has read of it is still so.      *)
EXTENDS Dhcp, Etharp, Timeouts, Dns, IpReassembly, Tcpip, SequenceProofs

-----------------------------------------------------------------------------
(* DHCP.                                                                    *)

(* The timers of a lease were cleared, or run with what the lease has left. *)
Ended(d) ==
    /\ d.t0_timeout = 0 /\ d.t1_renew_time = 0 /\ d.t2_rebind_time = 0
    /\ d.state \notin Supplied \cup {"REBOOTING"}

Running(d, left) ==
    /\ left \in Ticks /\ left # 0
    /\ d.lease_used + left = d.t0_timeout

(* A client that stopped has left an address of its own, or none. *)
OffIsBare(d) == d.state = "OFF" => d.address # "leased"

Fits(d, left) ==
    /\ d \in Client /\ OffIsBare(d)
    /\ d.t0_timeout # 0 => d.lease_used < d.t0_timeout
    /\ left \in Ticks \cup {LeaseOver}
    /\ left = 0 \/ Ended(d) \/ Running(d, left)

DhcpInv ==
    /\ Fits(dhcp, lease_left)
    /\ dhcp.address # "leased" => lease_left = 0
    /\ silent \in BOOLEAN

States == {"OFF", "SELECTING", "REQUESTING", "CHECKING", "BACKING_OFF", "REBOOTING"}
             \cup Supplied

(* e has the timers and the lease of d. *)
SameTimers(e, d) ==
    /\ e.t0_timeout = d.t0_timeout /\ e.t1_renew_time = d.t1_renew_time
    /\ e.t2_timeout = d.t2_timeout /\ e.t2_rebind_time = d.t2_rebind_time
    /\ e.lease_used = d.lease_used /\ e.offered = d.offered

LEMMA TicksAreNumbers == Ticks \subseteq Nat /\ 0 \in Ticks /\ LeaseOver \notin Ticks
  BY DhcpAssumption DEF Ticks, LeaseOver

(* A change of the state keeps the timers of leases. *)
LEMMA SetStateKeeps ==
  ASSUME NEW d \in Client, NEW s \in States
  PROVE  LET e == dhcp_set_state(d, s)
         IN e \in Client /\ e.state = s /\ SameTimers(e, d) /\ e.address = d.address
  <1>1. CASE d.state = s
    BY <1>1 DEF dhcp_set_state, SameTimers
  <1>2. CASE d.state # s
    <2> DEFINE e == [d EXCEPT !.state = s, !.tries = 0, !.request_timeout = FALSE]
    <2>1. dhcp_set_state(d, s) = e
      BY <1>2 DEF dhcp_set_state
    <2>2. 0 \in 0..MAX_TRIES
      BY DhcpAssumption
    <2>3. e \in Client /\ e.state = s
      BY <2>2 DEF Client, States
    <2>4. SameTimers(e, d) /\ e.address = d.address
      BY DEF Client, SameTimers
    <2> QED BY <2>1, <2>3, <2>4
  <1> QED BY <1>1, <1>2

LEMMA RequestKeeps ==
  ASSUME NEW d \in Client, NEW s \in States
  PROVE  LET e == Request(d, s)
         IN e \in Client /\ e.state = s /\ SameTimers(e, d) /\ e.address = d.address
  <1> DEFINE e == dhcp_set_state(d, s)
  <1>1. e \in Client /\ e.state = s /\ SameTimers(e, d) /\ e.address = d.address
    BY SetStateKeeps
  <1> HIDE DEF e
  <1>2. (IF e.tries < MAX_TRIES THEN e.tries + 1 ELSE e.tries) \in 0..MAX_TRIES
    BY <1>1, DhcpAssumption DEF Client
  <1> QED BY <1>1, <1>2 DEF Request, Client, SameTimers, e

LEMMA DiscoverKeeps ==
  ASSUME NEW d \in Client
  PROVE  LET e == dhcp_discover(d)
         IN /\ e \in Client /\ e.state \in {"SELECTING", "OFF"} /\ SameTimers(e, d)
            /\ e.address \in {d.address, "static"} /\ OffIsBare(e)
  <1> DEFINE tried == Request(d, "SELECTING")
             off == dhcp_set_state(tried, "OFF")
  <1>1. /\ tried \in Client /\ tried.state = "SELECTING" /\ SameTimers(tried, d)
        /\ tried.address = d.address
    BY RequestKeeps DEF States
  <1>2. /\ off \in Client /\ off.state = "OFF" /\ SameTimers(off, tried)
    BY <1>1, SetStateKeeps DEF States
  <1>3. dhcp_discover(d) = IF tried.tries < LWIP_DHCP_AUTOIP_COOP_TRIES THEN tried
                           ELSE [[off EXCEPT !.pcb_allocated = FALSE] EXCEPT
                                    !.request_timeout = TRUE, !.address = "static"]
    BY DEF dhcp_discover, dhcp_stop
  <1> HIDE DEF tried, off
  <1>4. CASE tried.tries < LWIP_DHCP_AUTOIP_COOP_TRIES
    <2>1. dhcp_discover(d) = tried
      BY <1>3, <1>4
    <2> QED BY <1>1, <2>1 DEF OffIsBare
  <1>5. CASE ~ (tried.tries < LWIP_DHCP_AUTOIP_COOP_TRIES)
    <2> DEFINE e == [off EXCEPT !.pcb_allocated = FALSE, !.request_timeout = TRUE,
                                !.address = "static"]
    <2>1. dhcp_discover(d) = e
      BY <1>2, <1>3, <1>5 DEF Client
    <2>2. e \in Client /\ e.state = "OFF" /\ e.address = "static"
      BY <1>2 DEF Client
    <2>3. SameTimers(e, off)
      BY <1>2 DEF Client, SameTimers
    <2>4. SameTimers(e, d)
      BY <1>1, <1>2, <2>3 DEF SameTimers
    <2> HIDE DEF e
    <2> QED BY <2>1, <2>2, <2>4 DEF OffIsBare
  <1> QED BY <1>4, <1>5

LEMMA ReleaseEnds ==
  ASSUME NEW d \in Client
  PROVE  LET e == dhcp_release(d)
         IN e \in Client /\ Ended(e) /\ e.lease_used = 0
  <1> DEFINE off == dhcp_set_state(d, "OFF")
  <1>1. off \in Client /\ off.state = "OFF"
    BY SetStateKeeps DEF States
  <1>2. NoLease \in [t0 : Ticks, t1 : Ticks, t2 : Ticks]
    BY TicksAreNumbers DEF NoLease, Unlimited
  <1> HIDE DEF off
  <1>3. dhcp_release(d) =
            [off EXCEPT !.t0_timeout = 0, !.t1_renew_time = 0, !.t2_rebind_time = 0,
                        !.lease_used = 0, !.offered = NoLease,
                        !.address = IF d.state \in Supplied THEN "none" ELSE @]
    BY DEF dhcp_release, off
  <1>4. /\ (IF d.state \in Supplied THEN "none" ELSE off.address)
               \in {"none", "leased", "static"}
        /\ "OFF" \notin Supplied \cup {"REBOOTING"}
    BY <1>1 DEF Client, Supplied
  <1> DEFINE f == [off EXCEPT !.t0_timeout = 0, !.t1_renew_time = 0, !.t2_rebind_time = 0]
             e == [f EXCEPT !.lease_used = 0, !.offered = NoLease,
                            !.address = IF d.state \in Supplied THEN "none" ELSE @]
  <1>5. /\ f \in Client /\ f.state = "OFF" /\ f.address = off.address
        /\ f.t0_timeout = 0 /\ f.t1_renew_time = 0 /\ f.t2_rebind_time = 0
    BY <1>1, TicksAreNumbers DEF Client
  <1>6. dhcp_release(d) = e
    BY <1>1, <1>3 DEF Client
  <1> HIDE DEF f
  <1>7. e \in Client
    BY <1>2, <1>4, <1>5, TicksAreNumbers DEF Client
  <1>8. /\ e.state = "OFF" /\ e.lease_used = 0
        /\ e.t0_timeout = 0 /\ e.t1_renew_time = 0 /\ e.t2_rebind_time = 0
    BY <1>5 DEF Client
  <1> QED BY <1>4, <1>6, <1>7, <1>8 DEF Ended

LEMMA ReleaseDiscoverEnds ==
  ASSUME NEW d \in Client
  PROVE  LET e == dhcp_discover(dhcp_release(d)) IN e \in Client /\ Ended(e) /\ OffIsBare(e)
  BY ReleaseEnds, DiscoverKeeps DEF Ended, SameTimers, Supplied

LEMMA BindKeeps ==
  ASSUME NEW d \in Client
  PROVE  LET e == dhcp_bind(d)
         IN /\ e \in Client /\ e.state = "BOUND" /\ e.lease_used = 0
            /\ e.address = "leased" /\ e.offered = d.offered
            /\ d.offered.t0 # 0 => e.t0_timeout = d.offered.t0
  <1> DEFINE e == dhcp_set_state(d, "BOUND")
  <1>1. e \in Client /\ e.state = "BOUND" /\ SameTimers(e, d)
    BY SetStateKeeps DEF States, Supplied
  <1>2. dhcp_bind(d) =
            [e EXCEPT !.lease_used = 0,
                      !.t0_timeout = Kept(d.offered.t0, @),
                      !.t1_renew_time = Kept(d.offered.t1, @),
                      !.t2_timeout = Kept(d.offered.t2, @),
                      !.t2_rebind_time = Kept(d.offered.t2, @),
                      !.address = "leased"]
    BY DEF dhcp_bind
  <1>3. \A new, old \in Ticks : Kept(new, old) \in Ticks /\ (new # 0 => Kept(new, old) = new)
    BY DEF Kept, Unlimited
  <1>4. d.offered.t0 \in Ticks /\ d.offered.t1 \in Ticks /\ d.offered.t2 \in Ticks
    BY DEF Client
  <1> HIDE DEF e
  <1> DEFINE b == dhcp_bind(d)
  <1>5. e.t0_timeout \in Ticks /\ e.t1_renew_time \in Ticks /\ e.t2_timeout \in Ticks
        /\ e.t2_rebind_time \in Ticks
    BY <1>1 DEF Client
  <1>6. /\ Kept(d.offered.t0, e.t0_timeout) \in Ticks
        /\ Kept(d.offered.t1, e.t1_renew_time) \in Ticks
        /\ Kept(d.offered.t2, e.t2_timeout) \in Ticks
        /\ Kept(d.offered.t2, e.t2_rebind_time) \in Ticks
        /\ d.offered.t0 # 0 => Kept(d.offered.t0, e.t0_timeout) = d.offered.t0
    BY <1>3, <1>4, <1>5
  <1> DEFINE f == [e EXCEPT !.lease_used = 0,
                            !.t0_timeout = Kept(d.offered.t0, @),
                            !.t1_renew_time = Kept(d.offered.t1, @)]
             g == [f EXCEPT !.t2_timeout = Kept(d.offered.t2, @),
                            !.t2_rebind_time = Kept(d.offered.t2, @),
                            !.address = "leased"]
  <1>7. b \in Client
    <2>1. /\ f \in Client /\ f.t2_timeout = e.t2_timeout
          /\ f.t2_rebind_time = e.t2_rebind_time
      BY <1>1, <1>6, TicksAreNumbers DEF Client
    <2>2. b = g
      BY <1>1, <1>2 DEF Client
    <2> HIDE DEF f
    <2>3. g \in Client
      BY <2>1, <1>6 DEF Client
    <2> QED BY <2>2, <2>3
  <1>8. /\ b.state = "BOUND" /\ b.lease_used = 0 /\ b.address = "leased"
        /\ b.offered = e.offered
        /\ b.t0_timeout = Kept(d.offered.t0, e.t0_timeout)
    BY <1>1, <1>2 DEF Client
  <1> QED BY <1>1, <1>6, <1>7, <1>8 DEF SameTimers

-----------------------------------------------------------------------------
(* Whatever keeps the timers, and does not go on with a lease that ended,  *)
(* keeps the invariant; so does forgetting the lease of the address.       *)
LEMMA SameTimersFit ==
  ASSUME NEW d, NEW e \in Client, NEW left, Fits(d, left), SameTimers(e, d),
         OffIsBare(e),
         e.state \notin Supplied \cup {"REBOOTING"} \/ d.state \in Supplied \cup {"REBOOTING"}
  PROVE  Fits(e, left) /\ Fits(e, 0)
  BY TicksAreNumbers DEF Fits, SameTimers, Ended, Running

(* The address that a step leaves, and the lease it counts. *)
LEMMA StepFits ==
  ASSUME NEW e, ClientBecomes(e), UNCHANGED silent, DhcpInv,
         e.state # "BOUND" \/ dhcp.state = "BOUND",
         Fits(e, lease_left) /\ Fits(e, 0)
  PROVE  DhcpInv'
  BY DEF DhcpInv, ClientBecomes, Unlimited

LEMMA BindFits ==
  ASSUME NEW d \in Client, ClientBecomes(dhcp_bind(d)), UNCHANGED silent, DhcpInv,
         dhcp.state # "BOUND"
  PROVE  DhcpInv'
  <1> DEFINE e == dhcp_bind(d)
  <1>1. /\ e \in Client /\ e.state = "BOUND" /\ e.lease_used = 0
        /\ e.address = "leased" /\ e.offered = d.offered
        /\ d.offered.t0 # 0 => e.t0_timeout = d.offered.t0
    BY BindKeeps
  <1>2. dhcp' = e /\ lease_left' = d.offered.t0 /\ d.offered.t0 \in Ticks
    BY <1>1 DEF ClientBecomes, Client
  <1> HIDE DEF e
  <1>3. e.t0_timeout \in Nat
    BY <1>1, TicksAreNumbers DEF Client
  <1>4. Fits(e, d.offered.t0)
    BY <1>1, <1>2, <1>3, TicksAreNumbers DEF Fits, Running, OffIsBare
  <1> QED BY <1>1, <1>2, <1>4 DEF DhcpInv

-----------------------------------------------------------------------------
(* A request for the state s fits, unless it takes up a lease that ended.  *)
LEMMA RequestFits ==
  ASSUME NEW d, NEW left, Fits(d, left), NEW s \in States \ {"OFF"},
         s \notin Supplied \cup {"REBOOTING"} \/ d.state \in Supplied \cup {"REBOOTING"}
  PROVE  LET e == Request(d, s) IN e.state = s /\ Fits(e, left) /\ Fits(e, 0)
  <1>1. d \in Client
    BY DEF Fits
  <1> QED BY <1>1, RequestKeeps, SameTimersFit DEF OffIsBare

LEMMA DiscoverFits ==
  ASSUME NEW d, NEW left, Fits(d, left)
  PROVE  LET e == dhcp_discover(d) IN e.state # "BOUND" /\ Fits(e, left) /\ Fits(e, 0)
  <1>1. d \in Client
    BY DEF Fits
  <1> QED BY <1>1, DiscoverKeeps, SameTimersFit DEF Supplied

LEMMA EndedFits ==
  ASSUME NEW d \in Client, Ended(d), OffIsBare(d), NEW left \in Ticks \cup {LeaseOver}
  PROVE  Fits(d, left) /\ Fits(d, 0) /\ d.state # "BOUND"
  BY TicksAreNumbers DEF Fits, Ended, Supplied

(* A request that took too long. *)
LEMMA FineTimerFits == DhcpInv /\ dhcp_fine_tmr => DhcpInv'
  <1> SUFFICES ASSUME DhcpInv, dhcp_fine_tmr PROVE DhcpInv'
    OBVIOUS
  <1> DEFINE d == [dhcp EXCEPT !.request_timeout = FALSE]
  <1>1. dhcp \in Client /\ Fits(dhcp, lease_left)
    BY DEF DhcpInv, Fits
  <1>2. /\ d \in Client /\ d.state = dhcp.state /\ d.address = dhcp.address
        /\ SameTimers(d, dhcp)
    BY <1>1 DEF Client, SameTimers
  <1>3. ClientBecomes(dhcp_timeout(d)) /\ UNCHANGED silent
    BY DEF dhcp_fine_tmr
  <1>4. d.state \in States
    BY <1>2 DEF Client, States
  <1> HIDE DEF d
  <1>5. Fits(d, lease_left) /\ Fits(d, 0)
    BY <1>1, <1>2, SameTimersFit DEF Fits, OffIsBare
  <1>6. CASE d.state \in {"BACKING_OFF", "SELECTING"}
    <2>1. dhcp_timeout(d) = dhcp_discover(d)
      BY <1>6 DEF dhcp_timeout
    <2> QED BY <2>1, <1>3, <1>5, DiscoverFits, StepFits
  <1>7. CASE d.state = "REQUESTING" /\ d.tries <= 5
    <2>1. dhcp_timeout(d) = Request(d, "REQUESTING")
      BY <1>7 DEF dhcp_timeout, dhcp_select
    <2> QED BY <2>1, <1>3, <1>5, RequestFits, StepFits DEF States, Supplied
  <1>8. CASE d.state = "REQUESTING" /\ ~ d.tries <= 5
    <2>1. dhcp_timeout(d) = dhcp_discover(dhcp_release(d))
      BY <1>8 DEF dhcp_timeout
    <2>2. lease_left \in Ticks \cup {LeaseOver}
      BY DEF DhcpInv, Fits
    <2> QED BY <2>1, <2>2, <1>2, <1>3, ReleaseDiscoverEnds, EndedFits, StepFits
  <1>9. CASE d.state = "CHECKING" /\ d.tries <= 1
    <2>1. dhcp_timeout(d) = Request(d, "CHECKING")
      BY <1>9 DEF dhcp_timeout, dhcp_check
    <2> QED BY <2>1, <1>3, <1>5, RequestFits, StepFits DEF States, Supplied
  <1>10. CASE d.state = "CHECKING" /\ ~ d.tries <= 1
    <2>1. dhcp_timeout(d) = dhcp_bind(d)
      BY <1>10 DEF dhcp_timeout
    <2> QED BY <2>1, <1>2, <1>3, <1>10, BindFits
  <1>11. CASE d.state = "REBOOTING" /\ d.tries < REBOOT_TRIES
    <2>1. dhcp_timeout(d) = Request(d, "REBOOTING")
      BY <1>11 DEF dhcp_timeout, dhcp_reboot
    <2> QED BY <2>1, <1>3, <1>5, <1>11, RequestFits, StepFits DEF States, Supplied
  <1>12. CASE d.state = "REBOOTING" /\ ~ d.tries < REBOOT_TRIES
    <2>1. dhcp_timeout(d) = dhcp_discover(d)
      BY <1>12 DEF dhcp_timeout
    <2> QED BY <2>1, <1>3, <1>5, DiscoverFits, StepFits
  <1>13. CASE d.state \in {"OFF"} \cup Supplied
    <2>1. dhcp_timeout(d) = d
      BY <1>13 DEF dhcp_timeout, Supplied
    <2> QED BY <2>1, <1>2, <1>3, <1>5, StepFits
  <1> QED BY <1>4, <1>6, <1>7, <1>8, <1>9, <1>10, <1>11, <1>12, <1>13 DEF States

-----------------------------------------------------------------------------
(* What a minute does to a lease, by what of it is left.                   *)
OneLess(left) == IF left > 1 THEN left - 1 ELSE IF left = 1 THEN LeaseOver ELSE left

LEMMA TakesT1 ==
  ASSUME NEW d, NEW left, Fits(d, left), d.t1_renew_time = 1, Running(d, left) \/ left = 0
  PROVE  LET e == dhcp_t1_timeout([d EXCEPT !.t1_renew_time = @ - 1])
         IN Fits(e, left) /\ Fits(e, 0)
  <1> DEFINE c == [d EXCEPT !.t1_renew_time = @ - 1]
             next == (c.t2_timeout - c.lease_used) \div 2
             r == Request(c, "RENEWING")
  <1>1. /\ c \in Client /\ c.state = d.state /\ c.address = d.address /\ OffIsBare(d)
        /\ c.t0_timeout = d.t0_timeout /\ c.lease_used = d.lease_used
    BY TicksAreNumbers DEF Fits, Client
  <1>2. c.t2_timeout \in 0..TimeModulus - 1 /\ c.lease_used \in 0..TimeModulus - 1
    BY <1>1 DEF Client, Ticks
  <1>3. next >= 1 => next \in Ticks
    BY <1>2, DhcpAssumption DEF Ticks
  <1>4. r \in Client /\ SameTimers(r, c) /\ r.state # "OFF"
    BY <1>1, RequestKeeps DEF States, Supplied
  <1>5. dhcp_t1_timeout(c) =
            IF c.state \notin {"REQUESTING", "BOUND", "RENEWING"} THEN c
            ELSE [r EXCEPT !.t1_renew_time = IF next >= 1 THEN next ELSE @]
    BY DEF dhcp_t1_timeout, dhcp_renew
  <1> DEFINE e == dhcp_t1_timeout(c)
  <1> HIDE DEF c, next, r
  <1>6. e \in Client /\ e.t0_timeout = d.t0_timeout /\ e.lease_used = d.lease_used
    BY <1>1, <1>3, <1>4, <1>5 DEF Client, SameTimers
  <1>8. OffIsBare(e)
    BY <1>1, <1>4, <1>5 DEF Client, OffIsBare
  <1> HIDE DEF e
  <1>7. Fits(e, left) /\ Fits(e, 0)
    BY <1>6, <1>8, TicksAreNumbers DEF Fits, Running
  <1> QED BY <1>7 DEF e, c

LEMMA TakesT2 ==
  ASSUME NEW d, NEW left, Fits(d, left), d.t2_rebind_time = 1, Running(d, left) \/ left = 0
  PROVE  LET e == dhcp_t2_timeout([d EXCEPT !.t2_rebind_time = @ - 1])
         IN Fits(e, left) /\ Fits(e, 0)
  <1> DEFINE c == [d EXCEPT !.t2_rebind_time = @ - 1]
             next == (c.t0_timeout - c.lease_used) \div 2
             r == Request(c, "REBINDING")
  <1>1. /\ c \in Client /\ c.state = d.state /\ c.address = d.address /\ OffIsBare(d)
        /\ c.t0_timeout = d.t0_timeout /\ c.lease_used = d.lease_used
    BY TicksAreNumbers DEF Fits, Client
  <1>2. c.t0_timeout \in 0..TimeModulus - 1 /\ c.lease_used \in 0..TimeModulus - 1
    BY <1>1 DEF Client, Ticks
  <1>3. next >= 1 => next \in Ticks
    BY <1>2, DhcpAssumption DEF Ticks
  <1>4. r \in Client /\ SameTimers(r, c) /\ r.state # "OFF"
    BY <1>1, RequestKeeps DEF States, Supplied
  <1>5. dhcp_t2_timeout(c) =
            IF c.state \notin {"REQUESTING"} \cup Supplied THEN c
            ELSE [r EXCEPT !.t2_rebind_time = IF next >= 1 THEN next ELSE @]
    BY DEF dhcp_t2_timeout, dhcp_rebind
  <1> DEFINE e == dhcp_t2_timeout(c)
  <1> HIDE DEF c, next, r
  <1>6. e \in Client /\ e.t0_timeout = d.t0_timeout /\ e.lease_used = d.lease_used
    BY <1>1, <1>3, <1>4, <1>5 DEF Client, SameTimers
  <1>8. OffIsBare(e)
    BY <1>1, <1>4, <1>5 DEF Client, OffIsBare
  <1> HIDE DEF e
  <1>7. Fits(e, left) /\ Fits(e, 0)
    BY <1>6, <1>8, TicksAreNumbers DEF Fits, Running
  <1> QED BY <1>7 DEF e, c

(* A minute of a lease that runs, or with no lease to count. *)
LEMMA MinuteRuns ==
  ASSUME NEW d, NEW left, Fits(d, left), Running(d, left) \/ left = 0
  PROVE  Fits(OneMinute(d), OneLess(left)) /\ Fits(OneMinute(d), 0)
  <1> DEFINE used == IF d.t0_timeout = 0 THEN d
                     ELSE [d EXCEPT !.lease_used = (@ + 1) % TimeModulus]
             t2 == [used EXCEPT !.t2_rebind_time = @ - 1]
             rest == IF d.t2_rebind_time = 0 THEN used ELSE t2
             t1 == [rest EXCEPT !.t1_renew_time = @ - 1]
             n == OneLess(left)
  <1>1. OneMinute(d) =
            IF d.t0_timeout # 0 /\ used.lease_used = d.t0_timeout
            THEN dhcp_discover(dhcp_release(used))
            ELSE IF d.t2_rebind_time = 1 THEN dhcp_t2_timeout(t2)
            ELSE IF d.t1_renew_time = 0 THEN rest
            ELSE IF d.t1_renew_time = 1 THEN dhcp_t1_timeout(t1)
            ELSE t1
    BY DEF OneMinute
  <1>2. /\ d \in Client /\ d.t0_timeout \in Ticks /\ d.lease_used \in Ticks
        /\ d.t1_renew_time \in Ticks /\ d.t2_rebind_time \in Ticks
    BY DEF Fits, Client
  <1>3. d.t0_timeout # 0 =>
            (d.lease_used + 1) % TimeModulus = d.lease_used + 1 /\ d.lease_used + 1 \in Ticks
    BY <1>2, DhcpAssumption DEF Fits, Ticks
  <1>4. n \in Ticks \cup {LeaseOver}
    BY DhcpAssumption DEF OneLess, Running, Ticks, LeaseOver
  <1>5. /\ used \in Client
        /\ used.t0_timeout = d.t0_timeout /\ used.t1_renew_time = d.t1_renew_time
        /\ used.t2_rebind_time = d.t2_rebind_time /\ OffIsBare(used)
        /\ used.lease_used = IF d.t0_timeout = 0 THEN d.lease_used ELSE d.lease_used + 1
    BY <1>2, <1>3 DEF Client, Fits, OffIsBare
  <1> HIDE DEF used
  <1>6. CASE d.t0_timeout # 0 /\ used.lease_used = d.t0_timeout
    <2>1. OneMinute(d) = dhcp_discover(dhcp_release(used))
      BY <1>1, <1>6
    <2> QED BY <2>1, <1>4, <1>5, ReleaseDiscoverEnds, EndedFits
  <1>7. CASE ~ (d.t0_timeout # 0 /\ used.lease_used = d.t0_timeout)
    <2>1. Running(used, n) \/ n = 0
      BY <1>2, <1>4, <1>5, <1>7, DhcpAssumption DEF Running, OneLess, Ticks, LeaseOver
    <2>2. Fits(used, n) /\ Fits(used, 0)
      BY <2>1, <1>2, <1>4, <1>5, <1>7, TicksAreNumbers, DhcpAssumption DEF Fits, Ticks
    <2>3. CASE d.t2_rebind_time = 1
      <3>1. OneMinute(d) = dhcp_t2_timeout(t2)
        BY <1>1, <1>7, <2>3
      <3> QED BY <3>1, <2>1, <2>2, <2>3, <1>5, TakesT2
    <2>4. CASE d.t2_rebind_time # 1
      <3>1. rest \in Client /\ rest.t0_timeout = used.t0_timeout
            /\ rest.lease_used = used.lease_used /\ rest.t1_renew_time = d.t1_renew_time
            /\ OffIsBare(rest)
        BY <1>2, <1>5, DhcpAssumption DEF Client, Ticks, OffIsBare
      <3> HIDE DEF rest
      <3>2. (Running(rest, n) \/ n = 0) /\ Fits(rest, n) /\ Fits(rest, 0)
        BY <2>1, <2>2, <3>1 DEF Running, Fits
      <3>3. CASE d.t1_renew_time = 0
        BY <3>2, <3>3, <2>4, <1>1, <1>7
      <3>4. CASE d.t1_renew_time = 1
        BY <3>1, <3>2, <3>4, <2>4, <1>1, <1>7, TakesT1
      <3>5. CASE d.t1_renew_time \notin {0, 1}
        <4>1. t1 \in Client /\ t1.t0_timeout = rest.t0_timeout
              /\ t1.lease_used = rest.lease_used /\ OffIsBare(t1)
          BY <3>1, <3>5, <1>2, DhcpAssumption DEF Client, Ticks, OffIsBare
        <4>2. OneMinute(d) = t1
          BY <3>5, <2>4, <1>1, <1>7
        <4> HIDE DEF t1
        <4> QED BY <4>1, <4>2, <3>2 DEF Fits, Running
      <3> QED BY <3>3, <3>4, <3>5
    <2> QED BY <2>3, <2>4
  <1> QED BY <1>6, <1>7

(* A minute of a lease whose timers were cleared. *)
LEMMA MinuteEnded ==
  ASSUME NEW d, NEW left, Fits(d, left), Ended(d)
  PROVE  Fits(OneMinute(d), OneLess(left)) /\ Fits(OneMinute(d), 0)
  <1>1. OneMinute(d) = d
    BY DEF OneMinute, Ended
  <1>2. OneLess(left) \in Ticks \cup {LeaseOver} /\ d \in Client /\ OffIsBare(d)
    BY DhcpAssumption DEF OneLess, Fits, Ticks, LeaseOver
  <1> QED BY <1>1, <1>2, EndedFits

LEMMA CoarseTimerFits == DhcpInv /\ dhcp_coarse_tmr => DhcpInv'
  <1> SUFFICES ASSUME DhcpInv, dhcp_coarse_tmr PROVE DhcpInv'
    OBVIOUS
  <1> DEFINE e == IF dhcp.state = "OFF" THEN dhcp ELSE OneMinute(dhcp)
  <1>1. Fits(dhcp, lease_left)
    BY DEF DhcpInv
  <1>2. /\ dhcp' = e /\ lease_left' \in {0, OneLess(lease_left)} /\ silent' = silent
        /\ e.address # "leased" => lease_left' = 0
    BY DEF dhcp_coarse_tmr, OneLess, Unlimited
  <1>3. CASE dhcp.state = "OFF"
    <2>1. lease_left = 0 /\ lease_left' = 0
      BY <1>1, <1>2, <1>3 DEF DhcpInv, Fits, OffIsBare, OneLess
    <2> QED BY <2>1, <1>1, <1>2, <1>3 DEF DhcpInv
  <1>4. CASE dhcp.state # "OFF"
    <2>1. Fits(OneMinute(dhcp), OneLess(lease_left)) /\ Fits(OneMinute(dhcp), 0)
      BY <1>1, MinuteRuns, MinuteEnded DEF Fits
    <2> QED BY <2>1, <1>2, <1>4 DEF DhcpInv
  <1> QED BY <1>3, <1>4

-----------------------------------------------------------------------------
LEMMA RepliesFit == DhcpInv /\ (RecvOffer \/ RecvAck \/ RecvNak) => DhcpInv'
  <1> SUFFICES ASSUME DhcpInv, RecvOffer \/ RecvAck \/ RecvNak PROVE DhcpInv'
    OBVIOUS
  <1>1. Fits(dhcp, lease_left) /\ dhcp \in Client
    BY DEF DhcpInv, Fits
  <1>2. CASE RecvOffer
    <2>1. /\ dhcp.state = "SELECTING" /\ ClientBecomes(Request(dhcp, "REQUESTING"))
          /\ UNCHANGED silent
      BY <1>2 DEF RecvOffer, dhcp_select
    <2> QED BY <2>1, <1>1, RequestFits, StepFits DEF States, Supplied
  <1>3. CASE RecvAck
    <2>1. PICK lease \in Leases :
            LET d == [dhcp EXCEPT !.offered = lease]
            IN \/ dhcp.state = "REQUESTING" /\ ClientBecomes(dhcp_check(d))
               \/ /\ dhcp.state \in {"REBOOTING", "REBINDING", "RENEWING"}
                  /\ ClientBecomes(dhcp_bind(d))
      BY <1>3 DEF RecvAck
    <2> DEFINE d == [dhcp EXCEPT !.offered = lease]
    <2>2. lease \in [t0 : Ticks, t1 : Ticks, t2 : Ticks] /\ UNCHANGED silent
      BY <1>3, DhcpAssumption DEF RecvAck, Ticks
    <2>3. d \in Client /\ d.state = dhcp.state /\ Fits(d, lease_left)
      BY <1>1, <2>2 DEF Client, Fits, Ended, Running, OffIsBare
    <2>4. CASE dhcp.state = "REQUESTING" /\ ClientBecomes(dhcp_check(d))
      <3>1. ClientBecomes(Request(d, "CHECKING"))
        BY <2>4 DEF dhcp_check
      <3> HIDE DEF d
      <3> QED BY <3>1, <2>2, <2>3, RequestFits, StepFits DEF States, Supplied
    <2>5. CASE /\ dhcp.state \in {"REBOOTING", "REBINDING", "RENEWING"}
               /\ ClientBecomes(dhcp_bind(d))
      <3> HIDE DEF d
      <3> QED BY <2>2, <2>3, <2>5, BindFits
    <2> QED BY <2>1, <2>4, <2>5
  <1>4. CASE RecvNak
    <2> DEFINE b == dhcp_set_state(dhcp, "BACKING_OFF")
               d == [b EXCEPT !.address = "none"]
    <2>1. ClientBecomes(dhcp_discover(d)) /\ UNCHANGED silent
      BY <1>4 DEF RecvNak, dhcp_handle_nak
    <2>2. b \in Client /\ b.state = "BACKING_OFF" /\ SameTimers(b, dhcp)
      BY <1>1, SetStateKeeps DEF States
    <2> HIDE DEF b
    <2>3. d \in Client /\ d.state = "BACKING_OFF" /\ SameTimers(d, dhcp)
      BY <2>2 DEF Client, SameTimers
    <2> HIDE DEF d
    <2>4. Fits(d, lease_left)
      BY <1>1, <2>3, SameTimersFit DEF Supplied, OffIsBare
    <2> QED BY <2>1, <2>4, DiscoverFits, StepFits
  <1> QED BY <1>2, <1>3, <1>4

LEMMA NetworkFits == DhcpInv /\ (dhcp_arp_reply \/ dhcp_network_changed) => DhcpInv'
  <1> SUFFICES ASSUME DhcpInv, dhcp_arp_reply \/ dhcp_network_changed PROVE DhcpInv'
    OBVIOUS
  <1>1. Fits(dhcp, lease_left) /\ dhcp \in Client
    BY DEF DhcpInv, Fits
  <1>2. CASE dhcp_arp_reply
    <2>1. ClientBecomes(Request(dhcp, "BACKING_OFF")) /\ UNCHANGED silent
      BY <1>2 DEF dhcp_arp_reply, dhcp_decline
    <2> QED BY <2>1, <1>1, RequestFits, StepFits DEF States, Supplied
  <1>3. CASE dhcp_network_changed
    <2> DEFINE d == [dhcp EXCEPT !.tries = 0]
    <2>1. UNCHANGED silent
      BY <1>3 DEF dhcp_network_changed
    <2>2. 0 \in 0..MAX_TRIES
      BY DhcpAssumption
    <2>3. /\ d \in Client /\ d.state = dhcp.state /\ d.address = dhcp.address
          /\ SameTimers(d, dhcp)
      BY <1>1, <2>2 DEF Client, SameTimers
    <2>4. ClientBecomes(IF dhcp.state \in {"REBOOTING"} \cup Supplied
                        THEN Request(d, "REBOOTING") ELSE dhcp_discover(d))
      BY <1>3 DEF dhcp_network_changed, dhcp_reboot
    <2> HIDE DEF d
    <2>5. Fits(d, lease_left)
      BY <1>1, <2>3, SameTimersFit DEF Fits, OffIsBare
    <2>6. CASE dhcp.state \in {"REBOOTING"} \cup Supplied
      <3>1. ClientBecomes(Request(d, "REBOOTING"))
        BY <2>4, <2>6
      <3>2. "REBOOTING" \in States \ {"OFF"} /\ "REBOOTING" # "BOUND"
        BY DEF States
      <3>3. LET e == Request(d, "REBOOTING")
            IN e.state = "REBOOTING" /\ Fits(e, lease_left) /\ Fits(e, 0)
        BY <3>2, <2>3, <2>5, <2>6, RequestFits
      <3> QED BY <3>1, <3>2, <3>3, <2>1, StepFits
    <2>7. CASE dhcp.state \notin {"REBOOTING"} \cup Supplied
      BY <2>1, <2>4, <2>5, <2>7, DiscoverFits, StepFits
    <2> QED BY <2>6, <2>7
  <1> QED BY <1>2, <1>3

LEMMA InitFits == DhcpInit => DhcpInv
  <1> SUFFICES ASSUME DhcpInit PROVE DhcpInv
    OBVIOUS
  <1> DEFINE d == [NoClient EXCEPT !.pcb_allocated = TRUE]
  <1>1. d \in Client
    <2>1. NoLease \in [t0 : Ticks, t1 : Ticks, t2 : Ticks]
      BY TicksAreNumbers DEF NoLease, Unlimited
    <2>2. 0 \in 0..MAX_TRIES /\ 0 \in Ticks
      BY TicksAreNumbers, DhcpAssumption
    <2>3. TRUE \in BOOLEAN /\ FALSE \in BOOLEAN
      OBVIOUS
    <2> QED BY <2>1, <2>2, <2>3 DEF NoClient, Client
  <1>2. d.t0_timeout = 0 /\ d.address = "none" /\ d.lease_used = 0
    BY DEF NoClient
  <1>3. dhcp = dhcp_discover(d) /\ lease_left = 0 /\ silent = FALSE
    BY DEF DhcpInit, Unlimited
  <1> HIDE DEF d
  <1>4. dhcp \in Client /\ SameTimers(dhcp, d) /\ OffIsBare(dhcp)
    BY <1>1, <1>3, DiscoverKeeps
  <1>5. silent \in BOOLEAN
    BY <1>3, Zenon
  <1> QED BY <1>2, <1>3, <1>4, <1>5, TicksAreNumbers DEF DhcpInv, Fits, SameTimers

LEMMA NextFits == DhcpInv /\ [DhcpNext]_dhcpVars => DhcpInv'
  <1> SUFFICES ASSUME DhcpInv, [DhcpNext]_dhcpVars PROVE DhcpInv'
    OBVIOUS
  <1>1. CASE dhcp_fine_tmr
    BY <1>1, FineTimerFits
  <1>2. CASE dhcp_coarse_tmr
    BY <1>2, CoarseTimerFits
  <1>3. CASE RecvOffer \/ RecvAck \/ RecvNak
    BY <1>3, RepliesFit
  <1>4. CASE dhcp_arp_reply \/ dhcp_network_changed
    BY <1>4, NetworkFits
  <1>5. CASE FallSilent
    <2>1. UNCHANGED <<dhcp, lease_left>> /\ silent' = TRUE
      BY <1>5 DEF FallSilent
    <2>2. silent' \in BOOLEAN
      BY <2>1, Zenon
    <2> QED BY <2>1, <2>2 DEF DhcpInv
  <1>6. CASE UNCHANGED dhcpVars
    BY <1>6 DEF dhcpVars, DhcpInv
  <1> QED BY <1>1, <1>2, <1>3, <1>4, <1>5, <1>6 DEF DhcpNext

(* An address the client calls supplied by DHCP is within its lease,       *)
(* whichever replies, losses, link changes and time-outs came before       *)
(* (dhcp_supplied_address, dhcp.c:430).                                    *)
THEOREM LeaseAlwaysLasts == DhcpSpec => []LeaseLasts
  <1>1. DhcpInv => LeaseLasts
    BY TicksAreNumbers
    DEF DhcpInv, Fits, Ended, Running, LeaseLasts, DhcpTypeOK, LeaseOver
  <1> QED BY <1>1, InitFits, NextFits, PTL DEF DhcpSpec

-----------------------------------------------------------------------------
(* ARP.                                                                     *)

Addresses == Macs \cup {Unknown}
ArpEntry == [state : EntryStates, ipaddr : Hosts, ethaddr : Addresses,
             ctime : 0..ARP_MAXAGE, q : Seq(1..MaxPackets)]

Rising(q) == \A j, k \in DOMAIN q : j < k => q[j] < q[k]

(* Packets wait in a pending entry only, in their order, and an entry that  *)
(* is in use has not expired.                                               *)
Orderly(e) ==
    /\ e.q # <<>> => e.state = "PENDING"
    /\ Len(e.q) <= ARP_QUEUE_LEN /\ Rising(e.q)
    /\ e.state # "EMPTY" => e.ctime < ARP_MAXAGE

Alone(t) ==
    \A i, j \in Entries :
        /\ t[i].state # "EMPTY" /\ t[j].state # "EMPTY"
        /\ t[i].ipaddr = t[j].ipaddr
        => i = j

(* What the entries that are used say is what was heard last. *)
Told(t, said) == \A i \in Entries : Stable(t[i]) => t[i].ethaddr = said[t[i].ipaddr]

TableSound(t, said) ==
    /\ t \in [Entries -> ArpEntry]
    /\ \A i \in Entries : Orderly(t[i])
    /\ Alone(t) /\ Told(t, said)

ArpIInv ==
    /\ TableSound(arp_table, heard)
    /\ etharp_cached_entry \in Entries
    /\ heard \in [Hosts -> Addresses]
    /\ arp_queue_free \in Nat
    /\ arp_queue_free + Queued(arp_table) = MEMP_NUM_ARP_QUEUE

LEMMA EntriesFacts ==
    /\ Entries # {} /\ IsFiniteSet(Entries) /\ Entries \subseteq Nat /\ 1 \in Entries
    /\ \A i \in Entries : i <= ARP_TABLE_SIZE
  <1>1. ARP_TABLE_SIZE \in Int /\ ARP_TABLE_SIZE >= 1
    BY ArpAssumption
  <1>2. IsFiniteSet(1..ARP_TABLE_SIZE)
    BY <1>1, FS_Interval
  <1> QED BY <1>1, <1>2 DEF Entries

LEMMA PacketsFacts ==
    ASSUME NEW q \in Seq(1..MaxPackets)
    PROVE  /\ Len(q) \in Nat /\ DOMAIN q = 1..Len(q) /\ q \in [1..Len(q) -> 1..MaxPackets]
           /\ \A k \in DOMAIN q : q[k] \in 1..MaxPackets /\ q[k] \in Nat
  <1>1. PICK S : S = 1..MaxPackets
    OBVIOUS
  <1>2. q \in Seq(S)
    BY <1>1
  <1>3. Len(q) \in Nat /\ DOMAIN q = 1..Len(q) /\ q \in [1..Len(q) -> S]
    BY <1>2
  <1>4. \A k \in DOMAIN q : q[k] \in S
    BY <1>3
  <1>5. \A x \in S : x \in Nat
    BY <1>1, ArpAssumption
  <1> QED BY <1>1, <1>3, <1>4, <1>5

-----------------------------------------------------------------------------
(* The elements that the queues take.                                       *)
QueuePlaces(t) == UNION {{i} \X DOMAIN t[i].q : i \in Entries}

LEMMA QueuePlacesFacts ==
    ASSUME NEW t \in [Entries -> ArpEntry]
    PROVE  /\ IsFiniteSet(QueuePlaces(t)) /\ Queued(t) = Cardinality(QueuePlaces(t)) /\ Queued(t) \in Nat
           /\ \A p : p \in QueuePlaces(t) <=>
                 \E i \in Entries, k \in Nat : p = <<i, k>> /\ 1 <= k /\ k <= Len(t[i].q)
  <1>1. \A i \in Entries : t[i].q \in Seq(1..MaxPackets)
    BY DEF ArpEntry
  <1>2. \A i \in Entries : Len(t[i].q) \in Nat /\ DOMAIN t[i].q = 1..Len(t[i].q)
    BY <1>1
  <1> DEFINE F == {{i} \X DOMAIN t[i].q : i \in Entries}
  <1>3. IsFiniteSet(F)
    <2> DEFINE f == [i \in Entries |-> {i} \X DOMAIN t[i].q]
    <2>1. f \in Surjection(Entries, F)
      BY DEF Surjection
    <2> HIDE DEF f, F
    <2> QED BY <2>1, EntriesFacts, FS_Surjection
  <1>4. \A X \in F : IsFiniteSet(X)
    <2>1. ASSUME NEW i \in Entries PROVE IsFiniteSet({i} \X DOMAIN t[i].q)
      <3>1. IsFiniteSet({i}) /\ IsFiniteSet(DOMAIN t[i].q)
        <4>1. IsFiniteSet(1..Len(t[i].q))
          BY <1>2, FS_Interval
        <4> QED BY <1>2, <4>1, FS_Singleton
      <3> QED BY <3>1, FS_Product
    <2> QED BY <2>1
  <1>5. IsFiniteSet(QueuePlaces(t))
    BY <1>3, <1>4, FS_UNION DEF QueuePlaces
  <1>6. Queued(t) = Cardinality(QueuePlaces(t)) /\ Queued(t) \in Nat
    BY <1>5, FS_CardinalityType DEF Queued, QueuePlaces
  <1>7. ASSUME NEW p
        PROVE  p \in QueuePlaces(t) <=>
                 \E i \in Entries, k \in Nat : p = <<i, k>> /\ 1 <= k /\ k <= Len(t[i].q)
    BY <1>2 DEF QueuePlaces
  <1> QED BY <1>5, <1>6, <1>7

(* Queues that shrink give elements back. *)
LEMMA FewerQueued ==
    ASSUME NEW t \in [Entries -> ArpEntry], NEW u \in [Entries -> ArpEntry],
           \A i \in Entries : Len(u[i].q) <= Len(t[i].q)
    PROVE  Queued(u) <= Queued(t)
  <1>1. \A i \in Entries : Len(u[i].q) \in Nat /\ Len(t[i].q) \in Nat
    BY DEF ArpEntry
  <1>2. QueuePlaces(u) \subseteq QueuePlaces(t)
    <2>1. ASSUME NEW p \in QueuePlaces(u) PROVE p \in QueuePlaces(t)
      <3>1. PICK i \in Entries, k \in Nat : p = <<i, k>> /\ 1 <= k /\ k <= Len(u[i].q)
        BY <2>1, QueuePlacesFacts
      <3>2. k <= Len(t[i].q)
        BY <1>1, <3>1
      <3> QED BY <3>1, <3>2, QueuePlacesFacts
    <2> QED BY <2>1
  <1>3. /\ IsFiniteSet(QueuePlaces(t)) /\ Queued(t) = Cardinality(QueuePlaces(t))
        /\ Queued(u) = Cardinality(QueuePlaces(u))
    BY QueuePlacesFacts
  <1> QED BY <1>2, <1>3, FS_Subset

(* One queue that is longer by one takes one more. *)
LEMMA OneMoreQueued ==
    ASSUME NEW t \in [Entries -> ArpEntry], NEW u \in [Entries -> ArpEntry],
           NEW i \in Entries, Len(u[i].q) = Len(t[i].q) + 1,
           \A j \in Entries : j # i => Len(u[j].q) = Len(t[j].q)
    PROVE  Queued(u) = Queued(t) + 1
  <1>1. \A j \in Entries : Len(u[j].q) \in Nat /\ Len(t[j].q) \in Nat
    BY DEF ArpEntry
  <1> DEFINE new == <<i, Len(u[i].q)>>
  <1>2. ASSUME NEW p PROVE p \in QueuePlaces(u) <=> p \in QueuePlaces(t) \cup {new}
    <2>1. ASSUME p \in QueuePlaces(u) PROVE p \in QueuePlaces(t) \cup {new}
      <3>1. PICK j \in Entries, k \in Nat : p = <<j, k>> /\ 1 <= k /\ k <= Len(u[j].q)
        BY <2>1, QueuePlacesFacts
      <3>2. k <= Len(t[j].q) \/ (j = i /\ k = Len(u[i].q))
        BY <1>1, <3>1
      <3> QED BY <3>1, <3>2, QueuePlacesFacts
    <2>2. ASSUME p \in QueuePlaces(t) PROVE p \in QueuePlaces(u)
      <3>1. PICK j \in Entries, k \in Nat : p = <<j, k>> /\ 1 <= k /\ k <= Len(t[j].q)
        BY <2>2, QueuePlacesFacts
      <3>2. k <= Len(u[j].q)
        BY <1>1, <3>1
      <3> QED BY <3>1, <3>2, QueuePlacesFacts
    <2>3. new \in QueuePlaces(u)
      <3>1. 1 <= Len(u[i].q) /\ Len(u[i].q) <= Len(u[i].q) /\ Len(u[i].q) \in Nat
        BY <1>1
      <3> QED BY <3>1, QueuePlacesFacts
    <2> QED BY <2>1, <2>2, <2>3
  <1>3. new \notin QueuePlaces(t)
    <2>1. SUFFICES ASSUME NEW j \in Entries, NEW k \in Nat, new = <<j, k>>, k <= Len(t[j].q)
                   PROVE  FALSE
      BY QueuePlacesFacts
    <2> QED BY <1>1, <2>1
  <1> HIDE DEF new
  <1>4. QueuePlaces(u) = QueuePlaces(t) \cup {new}
    BY <1>2
  <1>5. /\ IsFiniteSet(QueuePlaces(t)) /\ Queued(t) = Cardinality(QueuePlaces(t))
        /\ Queued(u) = Cardinality(QueuePlaces(u))
    BY QueuePlacesFacts
  <1> QED BY <1>3, <1>4, <1>5, FS_AddElement

-----------------------------------------------------------------------------
(* The entry of a host.                                                     *)
LEMMA EntryFacts ==
    ASSUME NEW t \in [Entries -> ArpEntry], NEW i \in Entries
    PROVE  /\ t[i] \in ArpEntry
           /\ t[i].state \in EntryStates /\ t[i].ipaddr \in Hosts
           /\ t[i].ethaddr \in Addresses /\ t[i].ctime \in 0..ARP_MAXAGE
           /\ t[i].q \in Seq(1..MaxPackets) /\ Len(t[i].q) \in Nat
  BY DEF ArpEntry

LEMMA MinFacts ==
    ASSUME NEW S \in SUBSET Entries, S # {}
    PROVE  Min(S) \in S
  BY EntriesFacts, LeastIsIn

LEMMA OldestFacts ==
    ASSUME arp_table \in [Entries -> ArpEntry], NEW S \in SUBSET Entries, S # {}
    PROVE  Oldest(S) \in S
  <1> DEFINE A == {arp_table[i].ctime : i \in S}
  <1>1. \A i \in S : arp_table[i].ctime \in 0..ARP_MAXAGE
    BY EntryFacts
  <1>2. A \in SUBSET (0..ARP_MAXAGE) /\ A # {}
    BY <1>1
  <1>3. PICK a \in A : \A b \in A : b <= a
    <2> HIDE DEF A
    <2> QED BY <1>2, GreatestNatural, ArpAssumption
  <1> DEFINE O == {i \in S : arp_table[i].ctime = a}
  <1>4. O \in SUBSET (0..ARP_TABLE_SIZE) /\ O # {}
    <2>1. O # {} /\ O \subseteq S
      OBVIOUS
    <2>2. \A k \in Entries : k \in 0..ARP_TABLE_SIZE
      BY ArpAssumption DEF Entries
    <2> HIDE DEF O
    <2> QED BY <2>1, <2>2
  <1>5. PICK k \in O : \A j \in O : j <= k
    <2> HIDE DEF O
    <2> QED BY <1>4, GreatestNatural, ArpAssumption
  <1>6. \A j \in S : \/ arp_table[j].ctime < arp_table[k].ctime
                     \/ arp_table[j].ctime = arp_table[k].ctime /\ j <= k
    <2>1. ASSUME NEW j \in S, arp_table[j].ctime # arp_table[k].ctime
          PROVE  arp_table[j].ctime < arp_table[k].ctime
      <3>1. arp_table[j].ctime <= a /\ arp_table[k].ctime = a
        BY <1>3, <1>5
      <3>2. arp_table[j].ctime \in Int /\ arp_table[k].ctime \in Int
        BY <1>1, <1>5
      <3> QED BY <2>1, <3>1, <3>2
    <2> QED BY <1>5, <2>1
  <1> QED BY <1>5, <1>6 DEF Oldest

LEMMA RecycledFacts ==
    ASSUME arp_table \in [Entries -> ArpEntry]
    PROVE  Recycled \in Entries
  <1> DEFINE empty == {i \in Entries : arp_table[i].state = "EMPTY"}
             stable == {i \in Entries : Stable(arp_table[i])}
             pendingOnes == {i \in Entries : arp_table[i].state = "PENDING" /\ arp_table[i].q = <<>>}
  <1>1. CASE empty # {}
    <2>1. Recycled = Min(empty)
      BY <1>1 DEF Recycled
    <2> QED BY <1>1, <2>1, MinFacts
  <1>2. CASE empty = {} /\ stable # {}
    <2>1. Recycled = Oldest(stable)
      BY <1>2 DEF Recycled
    <2>2. stable \in SUBSET Entries
      OBVIOUS
    <2> HIDE DEF stable
    <2> QED BY <1>2, <2>1, <2>2, OldestFacts
  <1>3. CASE empty = {} /\ stable = {} /\ pendingOnes # {}
    <2>1. Recycled = Oldest(pendingOnes)
      BY <1>3 DEF Recycled
    <2>2. pendingOnes \in SUBSET Entries
      OBVIOUS
    <2> HIDE DEF pendingOnes
    <2> QED BY <1>3, <2>1, <2>2, OldestFacts
  <1>4. CASE empty = {} /\ stable = {} /\ pendingOnes = {}
    <2>1. Recycled = Oldest(Entries)
      BY <1>4 DEF Recycled
    <2> QED BY <2>1, EntriesFacts, OldestFacts
  <1> QED BY <1>1, <1>2, <1>3, <1>4

(* An entry gets new contents, and something new may have been heard from   *)
(* its host.                                                                *)
LEMMA EntryReplaced ==
    ASSUME NEW t, NEW said, TableSound(t, said), NEW i \in Entries, NEW e \in ArpEntry, Orderly(e),
           \A j \in Entries : j # i => t[j].state = "EMPTY" \/ t[j].ipaddr # e.ipaddr,
           NEW now, \A h \in Hosts : h # e.ipaddr => now[h] = said[h],
           Stable(e) => e.ethaddr = now[e.ipaddr]
    PROVE  TableSound([t EXCEPT ![i] = e], now)
  <1> DEFINE u == [t EXCEPT ![i] = e]
  <1>1. /\ t \in [Entries -> ArpEntry] /\ \A j \in Entries : Orderly(t[j])
        /\ Alone(t) /\ Told(t, said)
    BY DEF TableSound
  <1>2. u \in [Entries -> ArpEntry] /\ \A j \in Entries : u[j] = IF j = i THEN e ELSE t[j]
    BY <1>1
  <1> HIDE DEF u
  <1>3. \A j \in Entries : Orderly(u[j])
    BY <1>1, <1>2
  <1>4. Alone(u)
    BY <1>1, <1>2 DEF Alone
  <1>5. Told(u, now)
    <2>1. ASSUME NEW j \in Entries, Stable(u[j]) PROVE u[j].ethaddr = now[u[j].ipaddr]
      <3>1. CASE j = i
        BY <1>2, <2>1, <3>1
      <3>2. CASE j # i
        <4>1. u[j] = t[j] /\ t[j].state # "EMPTY" /\ Stable(t[j])
          BY <1>2, <2>1, <3>2 DEF Stable
        <4>2. t[j].ipaddr # e.ipaddr /\ t[j].ipaddr \in Hosts
          BY <1>1, <3>2, <4>1, EntryFacts
        <4> QED BY <1>1, <4>1, <4>2 DEF Told
      <3> QED BY <3>1, <3>2
    <2> QED BY <2>1 DEF Told
  <1> QED BY <1>2, <1>3, <1>4, <1>5 DEF TableSound, u

(* The table with an entry for the host, which is the only one for it.      *)
LEMMA FoundFacts ==
    ASSUME ArpIInv, NEW ip \in Hosts
    PROVE  LET i == etharp_find_entry(ip)
               t == WithEntryFor(ip)
           IN  /\ i \in Entries /\ TableSound(t, heard)
               /\ t[i].ipaddr = ip /\ t[i].ctime < ARP_MAXAGE
               /\ \A j \in Entries : j # i => t[j].state = "EMPTY" \/ t[j].ipaddr # ip
               /\ \A j \in Entries : j # i => t[j] = arp_table[j]
               /\ \A j \in Entries : Len(t[j].q) <= Len(arp_table[j].q)
               /\ IF Matching(ip) # {} THEN t = arp_table /\ t[i].state # "EMPTY"
                  ELSE t[i].state = "EMPTY" /\ t[i].q = <<>>
  <1> DEFINE i == etharp_find_entry(ip)
             t == WithEntryFor(ip)
  <1>1. TableSound(arp_table, heard) /\ arp_table \in [Entries -> ArpEntry] /\ Alone(arp_table)
    BY DEF ArpIInv, TableSound
  <1>2. CASE Matching(ip) # {}
    <2>1. i = Min(Matching(ip)) /\ t = arp_table
      BY <1>2 DEF etharp_find_entry, WithEntryFor
    <2>2. Matching(ip) \in SUBSET Entries
      BY DEF Matching
    <2>3. i \in Matching(ip)
      BY <1>2, <2>1, <2>2, MinFacts
    <2> HIDE DEF i, t
    <2>4. /\ i \in Entries /\ arp_table[i].state # "EMPTY" /\ arp_table[i].ipaddr = ip
          /\ arp_table[i].ctime < ARP_MAXAGE
      BY <2>3 DEF Matching, ArpIInv, TableSound, Orderly
    <2>5. \A j \in Entries : j # i => arp_table[j].state = "EMPTY" \/ arp_table[j].ipaddr # ip
      BY <1>1, <2>4 DEF Alone
    <2>6. \A j \in Entries : Len(arp_table[j].q) <= Len(arp_table[j].q)
      BY <1>1, EntryFacts
    <2> QED BY <1>1, <1>2, <2>1, <2>4, <2>5, <2>6 DEF i, t
  <1>3. CASE Matching(ip) = {}
    <2> DEFINE e == [etharp_free_entry(arp_table[i]) EXCEPT !.ipaddr = ip, !.ctime = 0]
    <2>1. i = Recycled /\ i \in Entries
      BY <1>1, <1>3, RecycledFacts DEF etharp_find_entry
    <2>2. t = [arp_table EXCEPT ![i] = e]
      BY <1>1, <1>3, <2>1 DEF WithEntryFor
    <2> HIDE DEF i, t
    <2>3. /\ e \in ArpEntry /\ e.state = "EMPTY" /\ e.q = <<>> /\ e.ipaddr = ip /\ e.ctime = 0
      <3>1. arp_table[i] \in ArpEntry /\ 0 \in 0..ARP_MAXAGE /\ "EMPTY" \in EntryStates
        BY <1>1, <2>1, EntryFacts, ArpAssumption DEF EntryStates
      <3> DEFINE b == arp_table[i]
      <3>2. b \in ArpEntry
        BY <3>1
      <3>3. e = [[b EXCEPT !.state = "EMPTY", !.q = <<>>] EXCEPT !.ipaddr = ip, !.ctime = 0]
        BY DEF etharp_free_entry
      <3> HIDE DEF b, e
      <3>4. e = [state |-> "EMPTY", ipaddr |-> ip, ethaddr |-> b.ethaddr, ctime |-> 0, q |-> <<>>]
        BY <3>2, <3>3 DEF ArpEntry
      <3>5. b.ethaddr \in Addresses /\ <<>> \in Seq(1..MaxPackets)
        BY <3>2 DEF ArpEntry
      <3> QED BY <3>1, <3>4, <3>5 DEF ArpEntry
    <2> HIDE DEF e
    <2>4. Orderly(e) /\ ~ Stable(e)
      <3>1. Len(<<>>) = 0 /\ DOMAIN <<>> = {} /\ 0 <= ARP_QUEUE_LEN
        BY ArpAssumption
      <3> QED BY <2>3, <3>1 DEF Orderly, Rising, Stable
    <2>5. \A j \in Entries : arp_table[j].state = "EMPTY" \/ arp_table[j].ipaddr # ip
      BY <1>3 DEF Matching
    <2>6. TableSound(t, heard)
      BY <1>1, <2>1, <2>2, <2>3, <2>4, <2>5, EntryReplaced
    <2>7. /\ \A j \in Entries : t[j] = IF j = i THEN e ELSE arp_table[j]
          /\ e.ctime < ARP_MAXAGE
      BY <1>1, <2>2, <2>3, ArpAssumption
    <2>8. \A j \in Entries : Len(t[j].q) <= Len(arp_table[j].q)
      <3>1. Len(<<>>) = 0 /\ \A j \in Entries : Len(arp_table[j].q) \in Nat
        BY <1>1, EntryFacts
      <3> QED BY <2>3, <2>7, <3>1
    <2> QED BY <1>3, <2>1, <2>3, <2>5, <2>6, <2>7, <2>8 DEF i, t
  <1> QED BY <1>2, <1>3

(* The newest packet is not older than any that waits.                      *)
LEMMA NewestFacts ==
    ASSUME ArpIInv, NEW ip \in Hosts
    PROVE  /\ Newest(ip) \in Nat
           /\ \A i \in Matching(ip) : \A k \in DOMAIN arp_table[i].q :
                arp_table[i].q[k] <= Newest(ip)
  <1> DEFINE S == {0} \cup UNION {Range(arp_table[i].q) : i \in Matching(ip)}
  <1>1. \A i \in Entries : arp_table[i].q \in Seq(1..MaxPackets)
    BY EntryFacts DEF ArpIInv, TableSound
  <1>2. \A i \in Matching(ip) : Range(arp_table[i].q) \subseteq 1..MaxPackets
    <2>1. ASSUME NEW i \in Matching(ip) PROVE Range(arp_table[i].q) \subseteq 1..MaxPackets
      <3>1. arp_table[i].q \in Seq(1..MaxPackets)
        BY <1>1 DEF Matching
      <3>2. \A k \in DOMAIN arp_table[i].q : arp_table[i].q[k] \in 1..MaxPackets
        BY <3>1, PacketsFacts
      <3> QED BY <3>2 DEF Range
    <2> QED BY <2>1
  <1>3. S \in SUBSET (0..MaxPackets) /\ S # {}
    <2>1. 0 \in 0..MaxPackets /\ 1..MaxPackets \subseteq 0..MaxPackets
      BY ArpAssumption
    <2> QED BY <1>2, <2>1
  <1>4. \A i \in Matching(ip) : \A k \in DOMAIN arp_table[i].q : arp_table[i].q[k] \in S
    BY DEF Range
  <1>5. Newest(ip) = Max(S)
    BY DEF Newest
  <1> HIDE DEF S
  <1>6. PICK a \in S : \A b \in S : b <= a
    BY <1>3, GreatestNatural, ArpAssumption
  <1>7. \A b \in S : b \in Nat
    BY <1>3, ArpAssumption
  <1>8. \A b \in S : a >= b
    BY <1>6, <1>7
  <1>9. Max(S) \in S /\ \A b \in S : Max(S) >= b
    BY <1>8 DEF Max
  <1> QED BY <1>4, <1>5, <1>7, <1>9

-----------------------------------------------------------------------------
(* A step that gives back the elements its queues no longer take.           *)
LEMMA PoolKept ==
    ASSUME ArpIInv, TableSound(arp_table', heard'),
           etharp_cached_entry' \in Entries, heard' \in [Hosts -> Addresses],
           \A i \in Entries : Len(arp_table'[i].q) <= Len(arp_table[i].q),
           arp_queue_free' = arp_queue_free + Queued(arp_table) - Queued(arp_table')
    PROVE  ArpIInv'
  <1>1. arp_table \in [Entries -> ArpEntry] /\ arp_table' \in [Entries -> ArpEntry]
    BY DEF ArpIInv, TableSound
  <1>2. Queued(arp_table') <= Queued(arp_table)
    BY <1>1, FewerQueued
  <1>3. Queued(arp_table) \in Nat /\ Queued(arp_table') \in Nat
    BY <1>1, QueuePlacesFacts
  <1>4. arp_queue_free \in Nat /\ arp_queue_free + Queued(arp_table) = MEMP_NUM_ARP_QUEUE
    BY DEF ArpIInv
  <1>5. arp_queue_free' \in Nat /\ arp_queue_free' + Queued(arp_table') = MEMP_NUM_ARP_QUEUE
    BY <1>2, <1>3, <1>4
  <1> QED BY <1>5 DEF ArpIInv

(* What a step puts on the wire.                                            *)
InOrderWhereHeard ==
    /\ \A k \in DOMAIN wire' :
         /\ wire'[k].to = heard'[wire'[k].ip]
         /\ \A i \in Entries : arp_table'[i].ipaddr = wire'[k].ip =>
               \A n \in Range(arp_table'[i].q) : wire'[k].n < n
    /\ \A k \in 2..Len(wire') : wire'[k - 1].n < wire'[k].n

LEMMA NothingSent == ASSUME wire' = <<>> PROVE InOrderWhereHeard
  <1>1. DOMAIN wire' = {} /\ Len(wire') = 0 /\ 2..0 = {}
    OBVIOUS
  <1> QED BY <1>1 DEF InOrderWhereHeard

(* Nothing waits for a host whose only entry is this one, with no queue.    *)
LEMMA NoneWaits ==
    ASSUME NEW t \in [Entries -> ArpEntry], \A j \in Entries : Orderly(t[j]), NEW ip, NEW i \in Entries,
           \A j \in Entries : j # i => t[j].state = "EMPTY" \/ t[j].ipaddr # ip, t[i].q = <<>>
    PROVE  \A j \in Entries : t[j].ipaddr = ip => Range(t[j].q) = {}
  <1>1. ASSUME NEW j \in Entries, t[j].ipaddr = ip PROVE t[j].q = <<>>
    BY <1>1 DEF Orderly
  <1>2. Range(<<>>) = {}
    BY DEF Range
  <1> QED BY <1>1, <1>2

-----------------------------------------------------------------------------
(* The actions.                                                             *)
LEMMA InputStep ==
    ASSUME ArpIInv, NEW ip \in Hosts, NEW mac \in Macs, NEW for_us \in BOOLEAN,
           etharp_input(ip, mac, for_us)
    PROVE  ArpIInv' /\ InOrderWhereHeard
  <1>1. /\ TableSound(arp_table, heard) /\ heard \in [Hosts -> Addresses]
        /\ etharp_cached_entry \in Entries /\ arp_table \in [Entries -> ArpEntry]
        /\ Told(arp_table, heard) /\ Alone(arp_table) /\ \A i \in Entries : Orderly(arp_table[i])
    BY DEF ArpIInv, TableSound
  <1>2. heard' = [heard EXCEPT ![ip] = mac] /\ etharp_cached_entry' = etharp_cached_entry
    BY DEF etharp_input
  <1>3. /\ heard' \in [Hosts -> Addresses] /\ heard'[ip] = mac
        /\ \A h \in Hosts : h # ip => heard'[h] = heard[h]
    BY <1>1, <1>2 DEF Addresses
  <1>4. CASE ~ (for_us \/ Matching(ip) # {})
    <2>1. arp_table' = arp_table /\ arp_queue_free' = arp_queue_free /\ wire' = <<>>
      BY <1>4 DEF etharp_input
    <2>2. Told(arp_table, heard')
      <3>1. ASSUME NEW j \in Entries, Stable(arp_table[j])
            PROVE  arp_table[j].ethaddr = heard'[arp_table[j].ipaddr]
        <4>1. arp_table[j].ipaddr # ip /\ arp_table[j].ipaddr \in Hosts
          BY <1>1, <1>4, <3>1, EntryFacts DEF Matching, Stable
        <4> QED BY <1>1, <1>3, <3>1, <4>1 DEF Told
      <3> QED BY <3>1 DEF Told
    <2>3. ArpIInv'
      BY <1>1, <1>2, <1>3, <2>1, <2>2 DEF ArpIInv, TableSound
    <2> QED BY <2>1, <2>3, NothingSent
  <1>5. CASE for_us \/ Matching(ip) # {}
    <2>1. PICK t, i : t = WithEntryFor(ip) /\ i = etharp_find_entry(ip)
      OBVIOUS
    <2>2. /\ i \in Entries /\ TableSound(t, heard) /\ t[i].ipaddr = ip
          /\ \A j \in Entries : j # i => t[j].state = "EMPTY" \/ t[j].ipaddr # ip
          /\ \A j \in Entries : Len(t[j].q) <= Len(arp_table[j].q)
      BY <2>1, FoundFacts
    <2>3. /\ t \in [Entries -> ArpEntry] /\ \A j \in Entries : Orderly(t[j])
      BY <2>2 DEF TableSound
    <2>4. /\ arp_table' = [t EXCEPT ![i].state = "STABLE", ![i].ethaddr = mac,
                                    ![i].ctime = 0, ![i].q = <<>>]
          /\ wire' = [k \in DOMAIN t[i].q |-> [ip |-> ip, n |-> t[i].q[k], to |-> mac]]
          /\ arp_queue_free' = arp_queue_free + Queued(arp_table) - Queued(arp_table')
      BY <1>5, <2>1 DEF etharp_input, etharp_update_arp_entry
    <2>5. PICK e : e = [state |-> "STABLE", ipaddr |-> ip, ethaddr |-> mac, ctime |-> 0, q |-> <<>>]
      OBVIOUS
    <2>6. arp_table' = [t EXCEPT ![i] = e]
      <3>1. t[i] \in ArpEntry
        BY <2>2, <2>3
      <3>2. arp_table' = [t EXCEPT ![i] = [t[i] EXCEPT !.state = "STABLE", !.ethaddr = mac,
                                                      !.ctime = 0, !.q = <<>>]]
        BY <2>2, <2>3, <2>4
      <3>3. [t[i] EXCEPT !.state = "STABLE", !.ethaddr = mac, !.ctime = 0, !.q = <<>>] = e
        <4>1. PICK b : b = t[i]
          OBVIOUS
        <4>2. b \in ArpEntry /\ b.ipaddr = ip
          BY <2>2, <3>1, <4>1
        <4>3. PICK c : c = [b EXCEPT !.state = "STABLE", !.ethaddr = mac, !.ctime = 0, !.q = <<>>]
          OBVIOUS
        <4>4. c = [state |-> "STABLE", ipaddr |-> b.ipaddr, ethaddr |-> mac, ctime |-> 0, q |-> <<>>]
          BY <4>2, <4>3 DEF ArpEntry
        <4> QED BY <2>5, <4>1, <4>2, <4>3, <4>4
      <3> QED BY <3>2, <3>3
    <2>7. e \in ArpEntry /\ e.ipaddr = ip /\ e.q = <<>> /\ e.ethaddr = heard'[e.ipaddr]
      <3>1. /\ "STABLE" \in EntryStates /\ mac \in Addresses /\ 0 \in 0..ARP_MAXAGE
            /\ <<>> \in Seq(1..MaxPackets)
        BY ArpAssumption DEF EntryStates, Addresses
      <3> QED BY <1>3, <2>5, <3>1 DEF ArpEntry
    <2>8. Orderly(e)
      <3>1. Len(<<>>) = 0 /\ DOMAIN <<>> = {} /\ 0 <= ARP_QUEUE_LEN /\ 0 < ARP_MAXAGE
        BY ArpAssumption
      <3> QED BY <2>5, <3>1 DEF Orderly, Rising
    <2>9. TableSound(arp_table', heard')
      <3>1. \A h \in Hosts : h # e.ipaddr => heard'[h] = heard[h]
        BY <1>3, <2>7
      <3>2. \A j \in Entries : j # i => t[j].state = "EMPTY" \/ t[j].ipaddr # e.ipaddr
        BY <2>2, <2>7
      <3>3. Stable(e) => e.ethaddr = heard'[e.ipaddr]
        BY <2>7
      <3>4. TableSound(t, heard) /\ i \in Entries /\ e \in ArpEntry
        BY <2>2, <2>7
      <3>5. TableSound([t EXCEPT ![i] = e], heard')
        BY <2>8, <3>1, <3>2, <3>3, <3>4, EntryReplaced
      <3> QED BY <2>6, <3>5
    <2>10. \A j \in Entries : arp_table'[j] = IF j = i THEN e ELSE t[j]
      BY <2>3, <2>6
    <2>11. \A j \in Entries : Len(arp_table'[j].q) <= Len(arp_table[j].q)
      <3>1. Len(<<>>) = 0 /\ \A j \in Entries : Len(arp_table[j].q) \in Nat
        BY <1>1, EntryFacts
      <3> QED BY <2>2, <2>7, <2>10, <3>1
    <2>12. ArpIInv'
      BY <1>1, <1>2, <1>3, <2>4, <2>9, <2>11, PoolKept
    <2>13. InOrderWhereHeard
      <3>1. t[i].q \in Seq(1..MaxPackets) /\ Rising(t[i].q)
        BY <2>2, <2>3, EntryFacts DEF Orderly
      <3>2. PICK q : q = t[i].q
        OBVIOUS
      <3>3. /\ DOMAIN q = 1..Len(q) /\ Len(q) \in Nat
            /\ \A k \in DOMAIN q : q[k] \in Nat
        BY <3>1, <3>2, PacketsFacts
      <3>4. wire' = [k \in DOMAIN q |-> [ip |-> ip, n |-> q[k], to |-> mac]]
        BY <2>4, <3>2
      <3>5. DOMAIN wire' = 1..Len(q) /\ Len(wire') = Len(q)
        BY <3>3, <3>4
      <3>6. /\ arp_table' \in [Entries -> ArpEntry] /\ \A j \in Entries : Orderly(arp_table'[j])
            /\ arp_table'[i].q = <<>>
            /\ \A j \in Entries : j # i => arp_table'[j].state = "EMPTY" \/ arp_table'[j].ipaddr # ip
        BY <2>2, <2>7, <2>9, <2>10 DEF TableSound
      <3>7. \A j \in Entries : arp_table'[j].ipaddr = ip => Range(arp_table'[j].q) = {}
        <4>1. ASSUME NEW u, u = arp_table'
              PROVE  \A j \in Entries : u[j].ipaddr = ip => Range(u[j].q) = {}
          <5>1. /\ u \in [Entries -> ArpEntry] /\ \A j \in Entries : Orderly(u[j])
                /\ u[i].q = <<>>
                /\ \A j \in Entries : j # i => u[j].state = "EMPTY" \/ u[j].ipaddr # ip
            BY <3>6, <4>1
          <5>2. i \in Entries
            BY <2>2
          <5> QED BY <5>1, <5>2, NoneWaits
        <4> QED BY <4>1
      <3>8. ASSUME NEW k \in DOMAIN wire'
            PROVE  /\ wire'[k].to = heard'[wire'[k].ip] /\ wire'[k].ip = ip
        BY <1>3, <3>4, <3>8
      <3>9. ASSUME NEW k \in 2..Len(wire') PROVE wire'[k - 1].n < wire'[k].n
        <4>1. k - 1 \in DOMAIN q /\ k \in DOMAIN q /\ k - 1 < k
          BY <3>3, <3>5, <3>9
        <4>2. q[k - 1] < q[k]
          BY <3>1, <3>2, <4>1 DEF Rising
        <4> QED BY <3>4, <4>1, <4>2
      <3> QED BY <3>7, <3>8, <3>9 DEF InOrderWhereHeard
    <2> QED BY <2>12, <2>13
  <1> QED BY <1>4, <1>5

(* The packet goes out at once through an entry of its host.                *)
LEMMA IndexStep ==
    ASSUME ArpIInv, NEW ip \in Hosts, NEW n \in Nat, NEW i \in Entries, NEW sent \in BOOLEAN,
           Stable(arp_table[i]), arp_table[i].ipaddr = ip,
           etharp_output_to_arp_index(ip, n, i, sent), heard' = heard
    PROVE  ArpIInv' /\ InOrderWhereHeard
  <1>1. /\ TableSound(arp_table, heard) /\ heard \in [Hosts -> Addresses]
        /\ arp_table \in [Entries -> ArpEntry] /\ arp_queue_free \in Nat
        /\ Told(arp_table, heard) /\ Alone(arp_table) /\ \A j \in Entries : Orderly(arp_table[j])
    BY DEF ArpIInv, TableSound
  <1>2. PICK b, e : b = arp_table[i] /\ e = Rerequested(b, sent)
    OBVIOUS
  <1>3. /\ b \in ArpEntry /\ Orderly(b) /\ b.state \notin {"EMPTY", "PENDING"} /\ b.q = <<>>
        /\ b.ipaddr = ip /\ b.ethaddr = heard[ip]
    BY <1>1, <1>2 DEF Stable, Orderly, Told
  <1>4. e = b \/ e = [b EXCEPT !.state = "REREQUESTING_1"]
    BY <1>2 DEF Rerequested
  <1>5. /\ e \in ArpEntry /\ Stable(e) /\ e.q = <<>>
        /\ e.ipaddr = ip /\ e.ethaddr = heard[ip] /\ e.ctime = b.ctime
    <2>1. CASE e = b
      BY <1>3, <2>1 DEF Stable
    <2>2. CASE e = [b EXCEPT !.state = "REREQUESTING_1"]
      <3>1. e = [state |-> "REREQUESTING_1", ipaddr |-> b.ipaddr, ethaddr |-> b.ethaddr,
                 ctime |-> b.ctime, q |-> b.q]
        BY <1>3, <2>2 DEF ArpEntry
      <3> QED BY <1>3, <3>1 DEF ArpEntry, EntryStates, Stable
    <2> QED BY <1>4, <2>1, <2>2
  <1>6. Orderly(e)
    <2>1. Len(<<>>) = 0 /\ DOMAIN <<>> = {} /\ 0 <= ARP_QUEUE_LEN
      BY ArpAssumption
    <2> QED BY <1>3, <1>5, <2>1 DEF Orderly, Rising
  <1>7. arp_table' = [arp_table EXCEPT ![i] = e]
    BY <1>1, <1>2 DEF etharp_output_to_arp_index
  <1>8. \A j \in Entries : j # i => arp_table[j].state = "EMPTY" \/ arp_table[j].ipaddr # ip
    BY <1>1 DEF Alone, Stable
  <1>9. TableSound([arp_table EXCEPT ![i] = e], heard)
    <2>1. \A j \in Entries : j # i => arp_table[j].state = "EMPTY" \/ arp_table[j].ipaddr # e.ipaddr
      BY <1>5, <1>8
    <2>2. Stable(e) => e.ethaddr = heard[e.ipaddr]
      BY <1>5
    <2> QED BY <1>1, <1>5, <1>6, <2>1, <2>2, EntryReplaced
  <1>10. TableSound(arp_table', heard')
    BY <1>7, <1>9
  <1>11. \A j \in Entries : arp_table'[j] = IF j = i THEN e ELSE arp_table[j]
    BY <1>1, <1>7
  <1>12. \A j \in Entries : Len(arp_table'[j].q) <= Len(arp_table[j].q)
    <2>1. \A j \in Entries : Len(arp_table[j].q) \in Nat
      BY <1>1, EntryFacts
    <2> QED BY <1>2, <1>3, <1>5, <1>11, <2>1
  <1>13. /\ wire' = <<[ip |-> ip, n |-> n, to |-> arp_table[i].ethaddr]>>
         /\ etharp_cached_entry' = i /\ arp_queue_free' = arp_queue_free
    BY DEF etharp_output_to_arp_index
  <1>14. \A j \in Entries : arp_table'[j].q = arp_table[j].q
    BY <1>2, <1>3, <1>5, <1>11
  <1>15. ArpIInv'
    <2>1. arp_table' \in [Entries -> ArpEntry]
      BY <1>10 DEF TableSound
    <2>2. Queued(arp_table') = Queued(arp_table)
      BY <1>14 DEF Queued
    <2> QED BY <1>1, <1>10, <1>13, <2>2 DEF ArpIInv
  <1>16. InOrderWhereHeard
    <2>1. \A j \in Entries : arp_table'[j].ipaddr = ip => Range(arp_table'[j].q) = {}
      <3>1. ASSUME NEW u, u = arp_table'
            PROVE  \A j \in Entries : u[j].ipaddr = ip => Range(u[j].q) = {}
        <4>1. /\ u \in [Entries -> ArpEntry] /\ \A j \in Entries : Orderly(u[j])
              /\ u[i].q = <<>>
          BY <1>5, <1>10, <1>11, <3>1 DEF TableSound
        <4>2. \A j \in Entries : j # i => u[j].state = "EMPTY" \/ u[j].ipaddr # ip
          BY <1>8, <1>11, <3>1
        <4>3. \A j \in Entries : u[j].ipaddr = ip => Range(u[j].q) = {}
          BY <4>1, <4>2, NoneWaits, Zenon
        <4> QED BY <4>3
      <3> QED BY <3>1
    <2>2. DOMAIN wire' = {1} /\ Len(wire') = 1 /\ 2..1 = {}
      BY <1>13
    <2>3. wire'[1].to = heard'[ip] /\ wire'[1].ip = ip
      BY <1>2, <1>3, <1>13
    <2> QED BY <2>1, <2>2, <2>3 DEF InOrderWhereHeard
  <1> QED BY <1>15, <1>16

(* A packet newer than all that wait keeps the queue in order, and the      *)
(* queue as short as it may be.                                             *)
LEMMA WaitingFacts ==
    ASSUME NEW q \in Seq(1..MaxPackets), Rising(q), Len(q) <= ARP_QUEUE_LEN,
           NEW n \in 1..MaxPackets, \A k \in DOMAIN q : q[k] < n
    PROVE  LET r == Shortened(Append(q, n))
           IN  /\ r \in Seq(1..MaxPackets) /\ Rising(r)
               /\ Len(r) <= ARP_QUEUE_LEN /\ Len(r) \in {Len(q), Len(q) + 1}
  <1>1. PICK S : S = 1..MaxPackets
    OBVIOUS
  <1>2. q \in Seq(S) /\ n \in S /\ \A x \in S : x \in Int
    BY <1>1, ArpAssumption
  <1>3. PICK a : a = Append(q, n)
    OBVIOUS
  <1>4. /\ a \in Seq(S) /\ Len(q) \in Nat /\ Len(a) = Len(q) + 1 /\ a # <<>>
        /\ DOMAIN q = 1..Len(q) /\ DOMAIN a = 1..Len(q) + 1
        /\ \A j \in 1..Len(q) + 1 : a[j] = IF j = Len(q) + 1 THEN n ELSE q[j]
    BY <1>2, <1>3
  <1>5. Rising(a)
    <2>1. ASSUME NEW j \in DOMAIN a, NEW k \in DOMAIN a, j < k PROVE a[j] < a[k]
      <3>1. j \in DOMAIN q /\ a[j] = q[j] /\ j \in Int /\ k \in Int
        BY <1>4, <2>1
      <3>2. CASE k = Len(q) + 1
        <4>1. a[k] = n
          BY <1>4, <3>2
        <4> QED BY <3>1, <4>1
      <3>3. CASE k # Len(q) + 1
        <4>1. k \in DOMAIN q /\ a[k] = q[k]
          BY <1>4, <2>1, <3>3
        <4> QED BY <2>1, <3>1, <4>1 DEF Rising
      <3> QED BY <3>2, <3>3
    <2> QED BY <2>1 DEF Rising
  <1>6. CASE ~ (Len(a) > ARP_QUEUE_LEN)
    <2>1. Shortened(Append(q, n)) = a /\ Len(a) <= ARP_QUEUE_LEN
      BY <1>3, <1>4, <1>6, ArpAssumption DEF Shortened
    <2> QED BY <1>1, <1>4, <1>5, <2>1
  <1>7. CASE Len(a) > ARP_QUEUE_LEN
    <2>1. PICK r : r = Tail(a)
      OBVIOUS
    <2>2. /\ r \in Seq(S) /\ Len(r) = Len(q) /\ DOMAIN r = 1..Len(q)
          /\ \A j \in 1..Len(q) : r[j] = a[j + 1]
      BY <1>4, <2>1
    <2>3. Rising(r)
      <3>1. ASSUME NEW j \in DOMAIN r, NEW k \in DOMAIN r, j < k PROVE r[j] < r[k]
        <4>1. j + 1 \in DOMAIN a /\ k + 1 \in DOMAIN a /\ j + 1 < k + 1
          BY <1>4, <2>2, <3>1
        <4>2. a[j + 1] < a[k + 1]
          BY <1>5, <4>1 DEF Rising
        <4> QED BY <2>2, <4>2
      <3> QED BY <3>1 DEF Rising
    <2>4. Shortened(Append(q, n)) = r
      BY <1>3, <1>7, <2>1 DEF Shortened
    <2> QED BY <1>1, <2>2, <2>3, <2>4
  <1> QED BY <1>6, <1>7

(* The table once a host is asked for that has no stable entry.             *)
Asked(ip) == [WithEntryFor(ip) EXCEPT ![etharp_find_entry(ip)].state = "PENDING"]

LEMMA AskedFacts ==
    ASSUME ArpIInv, NEW ip \in Hosts, ~ Stable(WithEntryFor(ip)[etharp_find_entry(ip)])
    PROVE  LET t == WithEntryFor(ip)
               i == etharp_find_entry(ip)
               u == Asked(ip)
           IN  /\ TableSound(u, heard) /\ u \in [Entries -> ArpEntry] /\ i \in Entries
               /\ \A j \in Entries : u[j].q = t[j].q /\ u[j].ipaddr = t[j].ipaddr
               /\ u[i].state = "PENDING" /\ u[i].ipaddr = ip /\ u[i].ctime < ARP_MAXAGE
               /\ \A j \in Entries : j # i => u[j].state = "EMPTY" \/ u[j].ipaddr # ip
               /\ \A j \in Entries : Len(u[j].q) <= Len(arp_table[j].q)
  <1>1. PICK t, i, u : t = WithEntryFor(ip) /\ i = etharp_find_entry(ip) /\ u = Asked(ip)
    OBVIOUS
  <1>2. ~ Stable(t[i]) /\ u = [t EXCEPT ![i].state = "PENDING"]
    BY <1>1 DEF Asked
  <1>3. /\ i \in Entries /\ TableSound(t, heard) /\ t \in [Entries -> ArpEntry]
        /\ t[i].ipaddr = ip /\ t[i].ctime < ARP_MAXAGE /\ Orderly(t[i])
        /\ \A j \in Entries : j # i => t[j].state = "EMPTY" \/ t[j].ipaddr # ip
        /\ \A j \in Entries : Len(t[j].q) <= Len(arp_table[j].q)
    BY <1>1, FoundFacts DEF TableSound
  <1>4. PICK b, e : b = t[i] /\ e = [b EXCEPT !.state = "PENDING"]
    OBVIOUS
  <1>5. b \in ArpEntry
    BY <1>3, <1>4
  <1>6. e = [state |-> "PENDING", ipaddr |-> b.ipaddr, ethaddr |-> b.ethaddr,
             ctime |-> b.ctime, q |-> b.q]
    BY <1>4, <1>5 DEF ArpEntry
  <1>7. /\ e \in ArpEntry /\ e.ipaddr = ip /\ e.q = b.q /\ e.state = "PENDING"
        /\ ~ Stable(e) /\ e.ctime < ARP_MAXAGE
    BY <1>3, <1>4, <1>5, <1>6, <1>2 DEF ArpEntry, EntryStates, Stable
  <1>8. Orderly(e)
    BY <1>3, <1>4, <1>7 DEF Orderly
  <1>9. u = [t EXCEPT ![i] = e]
    BY <1>3, <1>4, <1>2
  <1>10. TableSound([t EXCEPT ![i] = e], heard)
    <2>1. \A j \in Entries : j # i => t[j].state = "EMPTY" \/ t[j].ipaddr # e.ipaddr
      BY <1>3, <1>7
    <2> QED BY <1>3, <1>7, <1>8, <2>1, EntryReplaced
  <1>11. TableSound(u, heard) /\ u \in [Entries -> ArpEntry]
    BY <1>9, <1>10 DEF TableSound
  <1>12. \A j \in Entries : u[j] = IF j = i THEN e ELSE t[j]
    BY <1>3, <1>9
  <1>13. \A j \in Entries : u[j].q = t[j].q /\ u[j].ipaddr = t[j].ipaddr
    BY <1>3, <1>4, <1>7, <1>12
  <1> QED BY <1>3, <1>7, <1>11, <1>12, <1>13, <1>1

(* The packet waits, if there is memory for it.                             *)
LEMMA QueryStep ==
    ASSUME ArpIInv, NEW ip \in Hosts, NEW copied \in BOOLEAN, NEW n,
           n = Newest(ip) + 1, n <= MaxPackets, \A i \in Matching(ip) : ~ Stable(arp_table[i]),
           etharp_query(ip, n, copied), heard' = heard
    PROVE  ArpIInv' /\ InOrderWhereHeard
  <1>1. /\ heard \in [Hosts -> Addresses] /\ arp_table \in [Entries -> ArpEntry]
        /\ arp_queue_free \in Nat /\ etharp_cached_entry \in Entries
        /\ arp_queue_free + Queued(arp_table) = MEMP_NUM_ARP_QUEUE
    BY DEF ArpIInv, TableSound
  <1>2. PICK w, i : w = WithEntryFor(ip) /\ i = etharp_find_entry(ip)
    OBVIOUS
  <1>3. /\ i \in Entries /\ w[i].ipaddr = ip
        /\ IF Matching(ip) # {} THEN w = arp_table /\ w[i].state # "EMPTY"
           ELSE w[i].state = "EMPTY" /\ w[i].q = <<>>
    BY <1>2, FoundFacts
  <1>4. ~ Stable(w[i]) /\ (w[i].q # <<>> => i \in Matching(ip) /\ w = arp_table)
    BY <1>3 DEF Matching, Stable
  <1>5. PICK t : t = Asked(ip)
    OBVIOUS
  <1>6. /\ TableSound(t, heard) /\ t \in [Entries -> ArpEntry]
        /\ \A j \in Entries : t[j].q = w[j].q
        /\ t[i].state = "PENDING" /\ t[i].ipaddr = ip /\ t[i].ctime < ARP_MAXAGE
        /\ \A j \in Entries : j # i => t[j].state = "EMPTY" \/ t[j].ipaddr # ip
        /\ \A j \in Entries : Len(t[j].q) <= Len(arp_table[j].q)
    <2>1. ~ Stable(WithEntryFor(ip)[etharp_find_entry(ip)])
      BY <1>2, <1>4
    <2> QED BY <1>2, <1>5, <2>1, AskedFacts
  <1>7. PICK pool : pool = arp_queue_free + Queued(arp_table) - Queued(t)
    OBVIOUS
  <1>8. /\ pool \in Nat /\ pool + Queued(t) = MEMP_NUM_ARP_QUEUE /\ Queued(t) \in Nat
    <2>1. Queued(t) <= Queued(arp_table)
      BY <1>1, <1>6, FewerQueued
    <2>2. Queued(t) \in Nat /\ Queued(arp_table) \in Nat
      BY <1>1, <1>6, QueuePlacesFacts
    <2> QED BY <1>1, <1>7, <2>1, <2>2
  <1>9. /\ arp_table' = IF copied /\ pool > 0
                        THEN [t EXCEPT ![i].q = Shortened(Append(@, n))] ELSE t
        /\ arp_queue_free' = IF copied /\ pool > 0
                             THEN pool - (Len(arp_table'[i].q) - Len(t[i].q)) ELSE pool
        /\ wire' = <<>> /\ etharp_cached_entry' = etharp_cached_entry
    BY <1>2, <1>5, <1>7 DEF etharp_query, Asked
  <1>10. CASE ~ (copied /\ pool > 0)
    <2>1. arp_table' = t /\ arp_queue_free' = pool
      BY <1>9, <1>10
    <2>2. ArpIInv'
      BY <1>1, <1>6, <1>8, <1>9, <2>1 DEF ArpIInv
    <2> QED BY <1>9, <2>2, NothingSent
  <1>11. CASE copied /\ pool > 0
    <2>1. PICK b, q, r : b = t[i] /\ q = b.q /\ r = Shortened(Append(q, n))
      OBVIOUS
    <2>2. PICK e : e = [b EXCEPT !.q = r]
      OBVIOUS
    <2>3. b \in ArpEntry /\ Orderly(b) /\ b.ipaddr = ip /\ b.state = "PENDING"
      BY <1>3, <1>6, <2>1 DEF TableSound
    <2>4. /\ q \in Seq(1..MaxPackets) /\ Rising(q) /\ Len(q) <= ARP_QUEUE_LEN /\ Len(q) \in Nat
      BY <2>1, <2>3 DEF ArpEntry, Orderly
    <2>5. n \in 1..MaxPackets /\ \A k \in DOMAIN q : q[k] < n
      <3>1. Newest(ip) \in Nat
        BY NewestFacts
      <3>2. ASSUME NEW k \in DOMAIN q PROVE q[k] <= Newest(ip)
        <4>1. q # <<>>
          BY <3>2
        <4>2. i \in Matching(ip) /\ q = arp_table[i].q
          BY <1>3, <1>4, <1>6, <2>1, <4>1
        <4> QED BY <3>2, <4>2, NewestFacts
      <3>3. \A k \in DOMAIN q : q[k] \in Nat
        BY <2>4, PacketsFacts
      <3> QED BY <3>1, <3>2, <3>3, ArpAssumption
    <2>6. /\ r \in Seq(1..MaxPackets) /\ Rising(r) /\ Len(r) <= ARP_QUEUE_LEN
          /\ Len(r) \in {Len(q), Len(q) + 1}
      BY <2>1, <2>4, <2>5, WaitingFacts
    <2>7. e = [state |-> b.state, ipaddr |-> b.ipaddr, ethaddr |-> b.ethaddr,
               ctime |-> b.ctime, q |-> r]
      BY <2>2, <2>3 DEF ArpEntry
    <2>8. /\ e \in ArpEntry /\ e.ipaddr = ip /\ e.q = r /\ e.state = "PENDING"
          /\ ~ Stable(e) /\ e.ctime < ARP_MAXAGE
      BY <1>6, <2>1, <2>3, <2>6, <2>7 DEF ArpEntry, Stable
    <2>9. Orderly(e)
      BY <2>6, <2>8 DEF Orderly
    <2>10. arp_table' = [t EXCEPT ![i] = e]
      BY <1>3, <1>6, <1>9, <1>11, <2>1, <2>2
    <2>11. TableSound([t EXCEPT ![i] = e], heard)
      <3>1. \A j \in Entries : j # i => t[j].state = "EMPTY" \/ t[j].ipaddr # e.ipaddr
        BY <1>6, <2>8
      <3> QED BY <1>3, <1>6, <2>8, <2>9, <3>1, EntryReplaced
    <2>12. PICK u : u = [t EXCEPT ![i] = e]
      OBVIOUS
    <2>13. u \in [Entries -> ArpEntry] /\ \A j \in Entries : u[j] = IF j = i THEN e ELSE t[j]
      BY <1>6, <2>8, <2>12
    <2>14. \A j \in Entries : Len(t[j].q) \in Nat /\ Len(u[j].q) \in Nat
      BY <1>6, <2>13, EntryFacts
    <2>15. Queued(u) = Queued(t) + (Len(r) - Len(q))
      <3>1. CASE Len(r) = Len(q)
        <4>1. /\ \A j \in Entries : Len(t[j].q) <= Len(u[j].q)
              /\ \A j \in Entries : Len(u[j].q) <= Len(t[j].q)
          BY <2>1, <2>8, <2>13, <2>14, <3>1
        <4>2. Queued(u) <= Queued(t) /\ Queued(t) <= Queued(u)
          BY <1>6, <2>13, <4>1, FewerQueued
        <4>3. Queued(u) \in Nat
          BY <2>13, QueuePlacesFacts
        <4> QED BY <1>8, <2>4, <3>1, <4>2, <4>3
      <3>2. CASE Len(r) = Len(q) + 1
        <4>1. /\ Len(u[i].q) = Len(t[i].q) + 1
              /\ \A j \in Entries : j # i => Len(u[j].q) = Len(t[j].q)
          BY <1>3, <2>1, <2>8, <2>13, <3>2
        <4>2. Queued(u) = Queued(t) + 1
          BY <1>3, <1>6, <2>13, <4>1, OneMoreQueued
        <4> QED BY <1>8, <2>4, <3>2, <4>2
      <3> QED BY <2>6, <3>1, <3>2
    <2>16. arp_queue_free' = pool - (Len(r) - Len(q))
      BY <1>3, <1>9, <1>11, <2>1, <2>8, <2>10, <2>12, <2>13
    <2>17. arp_queue_free' \in Nat /\ arp_queue_free' + Queued(u) = MEMP_NUM_ARP_QUEUE
      <3>1. pool > 0 /\ Len(r) \in Nat
        BY <1>11, <2>4, <2>6
      <3> QED BY <1>8, <2>4, <2>6, <2>15, <2>16, <3>1
    <2>18. ArpIInv'
      BY <1>1, <1>9, <2>10, <2>11, <2>12, <2>17 DEF ArpIInv
    <2> QED BY <1>9, <2>18, NothingSent
  <1> QED BY <1>10, <1>11

LEMMA OutputStep ==
    ASSUME ArpIInv, NEW ip \in Hosts, NEW memory \in BOOLEAN, etharp_output(ip, memory)
    PROVE  ArpIInv' /\ InOrderWhereHeard
  <1>1. PICK n : n = Newest(ip) + 1
    OBVIOUS
  <1>2. n \in Nat /\ n <= MaxPackets /\ heard' = heard
    BY <1>1, NewestFacts DEF etharp_output
  <1>3. PICK known : known = {i \in Matching(ip) : Stable(arp_table[i])}
    OBVIOUS
  <1>4. CASE Cached(ip)
    <2>1. etharp_output_to_arp_index(ip, n, etharp_cached_entry, memory)
      BY <1>1, <1>4 DEF etharp_output
    <2> QED BY <1>2, <1>4, <2>1, IndexStep DEF Cached, ArpIInv
  <1>5. CASE ~ Cached(ip) /\ known # {}
    <2>1. etharp_output_to_arp_index(ip, n, Min(known), memory)
      BY <1>1, <1>3, <1>5 DEF etharp_output
    <2>2. known \in SUBSET Entries
      BY <1>3 DEF Matching
    <2>3. Min(known) \in known
      BY <1>5, <2>2, MinFacts
    <2>4. /\ Min(known) \in Entries /\ Stable(arp_table[Min(known)])
          /\ arp_table[Min(known)].ipaddr = ip
      BY <1>3, <2>3 DEF Matching
    <2> QED BY <1>2, <2>1, <2>4, IndexStep
  <1>6. CASE ~ Cached(ip) /\ known = {}
    <2>1. etharp_query(ip, n, memory)
      BY <1>1, <1>3, <1>6 DEF etharp_output
    <2>2. \A i \in Matching(ip) : ~ Stable(arp_table[i])
      BY <1>3, <1>6
    <2> QED BY <1>1, <1>2, <2>1, <2>2, QueryStep
  <1> QED BY <1>4, <1>5, <1>6

LEMMA QueryAddressStep ==
    ASSUME ArpIInv, NEW ip \in Hosts, QueryAddress(ip)
    PROVE  ArpIInv' /\ InOrderWhereHeard
  <1>1. PICK w, i : w = WithEntryFor(ip) /\ i = etharp_find_entry(ip)
    OBVIOUS
  <1>2. /\ i \in Entries /\ TableSound(w, heard) /\ w \in [Entries -> ArpEntry]
        /\ \A j \in Entries : Len(w[j].q) <= Len(arp_table[j].q)
    BY <1>1, FoundFacts DEF TableSound
  <1>3. /\ arp_table' = [w EXCEPT ![i].state = IF w[i].state = "EMPTY" THEN "PENDING" ELSE w[i].state]
        /\ arp_queue_free' = arp_queue_free + Queued(arp_table) - Queued(arp_table')
        /\ wire' = <<>> /\ etharp_cached_entry' = etharp_cached_entry /\ heard' = heard
    BY <1>1 DEF QueryAddress
  <1>4. TableSound(arp_table', heard) /\ \A j \in Entries : Len(arp_table'[j].q) <= Len(arp_table[j].q)
    <2>1. CASE w[i].state = "EMPTY"
      <3>1. ~ Stable(WithEntryFor(ip)[etharp_find_entry(ip)])
        BY <1>1, <2>1 DEF Stable
      <3>2. arp_table' = Asked(ip)
        BY <1>1, <1>3, <2>1 DEF Asked
      <3> QED BY <3>1, <3>2, AskedFacts
    <2>2. CASE w[i].state # "EMPTY"
      <3>1. arp_table' = [w EXCEPT ![i] = [w[i] EXCEPT !.state = w[i].state]]
        BY <1>3, <2>2
      <3>2. PICK b : b = w[i]
        OBVIOUS
      <3>3. b \in ArpEntry
        BY <1>2, <3>2
      <3>4. [b EXCEPT !.state = b.state] = b
        BY <3>3 DEF ArpEntry
      <3>5. arp_table' = [w EXCEPT ![i] = w[i]]
        BY <3>1, <3>2, <3>4
      <3>6. arp_table' = w
        BY <1>2, <3>5
      <3> QED BY <1>2, <3>6
    <2> QED BY <2>1, <2>2
  <1>5. TableSound(arp_table', heard')
    BY <1>3, <1>4
  <1>6. etharp_cached_entry' \in Entries /\ heard' \in [Hosts -> Addresses]
    BY <1>3 DEF ArpIInv
  <1> QED BY <1>3, <1>4, <1>5, <1>6, PoolKept, NothingSent

(* An entry that grows old or is freed tells nothing new.                   *)
Fades(e, a) ==
    /\ a \in ArpEntry /\ Orderly(a)
    /\ a.ipaddr = e.ipaddr /\ a.ethaddr = e.ethaddr /\ Len(a.q) <= Len(e.q)
    /\ a.state # "EMPTY" => e.state # "EMPTY"
    /\ Stable(a) => Stable(e)

LEMMA FreedFades ==
    ASSUME NEW e \in ArpEntry
    PROVE  Fades(e, etharp_free_entry(e))
  <1>1. PICK a : a = etharp_free_entry(e)
    OBVIOUS
  <1>2. a = [state |-> "EMPTY", ipaddr |-> e.ipaddr, ethaddr |-> e.ethaddr,
             ctime |-> e.ctime, q |-> <<>>]
    BY <1>1 DEF etharp_free_entry, ArpEntry
  <1>3. e.q \in Seq(1..MaxPackets)
    BY DEF ArpEntry
  <1>4. /\ <<>> \in Seq(1..MaxPackets) /\ Len(<<>>) = 0 /\ DOMAIN <<>> = {}
        /\ 0 <= Len(e.q) /\ 0 <= ARP_QUEUE_LEN
    BY <1>3, ArpAssumption
  <1>5. a \in ArpEntry
    BY <1>2, <1>4 DEF ArpEntry, EntryStates
  <1>6. Orderly(a)
    BY <1>2, <1>4 DEF Orderly, Rising
  <1> QED BY <1>1, <1>2, <1>4, <1>5, <1>6 DEF Fades, Stable

LEMMA AgedFades ==
    ASSUME NEW e \in ArpEntry, Orderly(e)
    PROVE  Fades(e, Aged(e))
  <1>1. PICK o : o = [e EXCEPT !.ctime = @ + 1]
    OBVIOUS
  <1>2. /\ e.ctime \in Nat /\ Len(e.q) \in Nat /\ e.q \in Seq(1..MaxPackets)
    BY ArpAssumption, PacketsFacts DEF ArpEntry
  <1>3. o = [state |-> e.state, ipaddr |-> e.ipaddr, ethaddr |-> e.ethaddr,
             ctime |-> e.ctime + 1, q |-> e.q]
    BY <1>1 DEF ArpEntry
  <1>4. CASE e.state = "EMPTY"
    <2>1. Aged(e) = e
      BY <1>4 DEF Aged
    <2> QED BY <1>2, <2>1 DEF Fades
  <1>5. CASE e.state # "EMPTY"
    <2>1. e.ctime + 1 \in 0..ARP_MAXAGE
      BY <1>2, <1>5, ArpAssumption DEF Orderly
    <2>2. o \in ArpEntry
      BY <1>3, <2>1 DEF ArpEntry
    <2>3. Fades(o, etharp_free_entry(o))
      BY <2>2, FreedFades
    <2>4. CASE Aged(e) = etharp_free_entry(o)
      BY <1>3, <1>5, <2>3, <2>4 DEF Fades, Stable, etharp_free_entry
    <2>5. CASE /\ e.state = "REREQUESTING_1" /\ o.ctime < ARP_MAXAGE
               /\ Aged(e) = [o EXCEPT !.state = "REREQUESTING_2"]
      <3>1. Aged(e) = [state |-> "REREQUESTING_2", ipaddr |-> e.ipaddr, ethaddr |-> e.ethaddr,
                       ctime |-> e.ctime + 1, q |-> e.q]
        BY <1>3, <2>2, <2>5 DEF ArpEntry
      <3>2. PICK a : a = Aged(e)
        OBVIOUS
      <3>3. a \in ArpEntry
        BY <2>1, <3>1, <3>2 DEF ArpEntry, EntryStates
      <3>4. Orderly(a)
        BY <1>3, <2>5, <3>1, <3>2 DEF Orderly
      <3>5. e.state # "EMPTY" /\ Stable(e)
        BY <2>5 DEF Stable
      <3>6. a.ipaddr = e.ipaddr /\ a.ethaddr = e.ethaddr /\ Len(a.q) <= Len(e.q)
        BY <1>2, <3>1, <3>2
      <3>7. Fades(e, a)
        BY <3>3, <3>4, <3>5, <3>6 DEF Fades
      <3> QED BY <3>2, <3>7
    <2>6. CASE /\ e.state = "REREQUESTING_2" /\ o.ctime < ARP_MAXAGE
               /\ Aged(e) = [o EXCEPT !.state = "STABLE"]
      <3>1. Aged(e) = [state |-> "STABLE", ipaddr |-> e.ipaddr, ethaddr |-> e.ethaddr,
                       ctime |-> e.ctime + 1, q |-> e.q]
        BY <1>3, <2>2, <2>6 DEF ArpEntry
      <3>2. PICK a : a = Aged(e)
        OBVIOUS
      <3>3. a \in ArpEntry
        BY <2>1, <3>1, <3>2 DEF ArpEntry, EntryStates
      <3>4. Orderly(a)
        BY <1>3, <2>6, <3>1, <3>2 DEF Orderly
      <3>5. e.state # "EMPTY" /\ Stable(e)
        BY <2>6 DEF Stable
      <3>6. a.ipaddr = e.ipaddr /\ a.ethaddr = e.ethaddr /\ Len(a.q) <= Len(e.q)
        BY <1>2, <3>1, <3>2
      <3>7. Fades(e, a)
        BY <3>3, <3>4, <3>5, <3>6 DEF Fades
      <3> QED BY <3>2, <3>7
    <2>7. CASE o.ctime < ARP_MAXAGE /\ Aged(e) = o
      <3>1. Orderly(o)
        BY <1>3, <2>7 DEF Orderly
      <3> QED BY <1>2, <1>3, <2>2, <2>7, <3>1 DEF Fades, Stable
    <2>8. \/ Aged(e) = etharp_free_entry(o)
          \/ /\ e.state = "REREQUESTING_1" /\ o.ctime < ARP_MAXAGE
             /\ Aged(e) = [o EXCEPT !.state = "REREQUESTING_2"]
          \/ /\ e.state = "REREQUESTING_2" /\ o.ctime < ARP_MAXAGE
             /\ Aged(e) = [o EXCEPT !.state = "STABLE"]
          \/ o.ctime < ARP_MAXAGE /\ Aged(e) = o
      <3>1. o.ctime \in Int /\ ARP_MAXAGE \in Int
        BY <1>2, <1>3, ArpAssumption
      <3>2. o.ctime < ARP_MAXAGE \/ o.ctime >= ARP_MAXAGE
        BY <3>1
      <3> QED BY <1>1, <1>5, <3>2 DEF Aged
    <2> QED BY <2>4, <2>5, <2>6, <2>7, <2>8
  <1> QED BY <1>4, <1>5

(* A step in which every entry grows old or is freed.                       *)
LEMMA FadingStep ==
    ASSUME ArpIInv, arp_table' \in [Entries -> ArpEntry],
           \A j \in Entries : Fades(arp_table[j], arp_table'[j]),
           arp_queue_free' = arp_queue_free + Queued(arp_table) - Queued(arp_table'),
           wire' = <<>>, UNCHANGED <<etharp_cached_entry, heard>>
    PROVE  ArpIInv' /\ InOrderWhereHeard
  <1>1. /\ Told(arp_table, heard) /\ Alone(arp_table)
        /\ etharp_cached_entry' \in Entries /\ heard' \in [Hosts -> Addresses]
    BY DEF ArpIInv, TableSound
  <1>2. /\ \A j \in Entries : Orderly(arp_table'[j])
        /\ \A j \in Entries : Len(arp_table'[j].q) <= Len(arp_table[j].q)
    BY DEF Fades
  <1>3. Alone(arp_table')
    BY <1>1 DEF Fades, Alone
  <1>4. Told(arp_table', heard')
    BY <1>1 DEF Fades, Told
  <1>5. TableSound(arp_table', heard')
    BY <1>2, <1>3, <1>4 DEF TableSound
  <1> QED BY <1>1, <1>2, <1>5, PoolKept, NothingSent

LEMMA TimerStep ==
    ASSUME ArpIInv, etharp_tmr
    PROVE  ArpIInv' /\ InOrderWhereHeard
  <1>1. arp_table \in [Entries -> ArpEntry] /\ \A j \in Entries : Orderly(arp_table[j])
    BY DEF ArpIInv, TableSound
  <1>2. \A j \in Entries : Fades(arp_table[j], Aged(arp_table[j]))
    BY <1>1, AgedFades
  <1>3. arp_table' = [j \in Entries |-> Aged(arp_table[j])]
    BY DEF etharp_tmr
  <1>4. \A j \in Entries : Aged(arp_table[j]) \in ArpEntry
    BY <1>2 DEF Fades
  <1>5. /\ arp_table' \in [Entries -> ArpEntry]
        /\ \A j \in Entries : Fades(arp_table[j], arp_table'[j])
    BY <1>2, <1>3, <1>4
  <1>6. /\ arp_queue_free' = arp_queue_free + Queued(arp_table) - Queued(arp_table')
        /\ wire' = <<>> /\ UNCHANGED <<etharp_cached_entry, heard>>
    BY DEF etharp_tmr
  <1> QED BY <1>5, <1>6, FadingStep

LEMMA CleanupStep ==
    ASSUME ArpIInv, etharp_cleanup_netif
    PROVE  ArpIInv' /\ InOrderWhereHeard
  <1>1. arp_table \in [Entries -> ArpEntry] /\ \A j \in Entries : Orderly(arp_table[j])
    BY DEF ArpIInv, TableSound
  <1>2. arp_table' = [j \in Entries |-> IF arp_table[j].state = "EMPTY" THEN arp_table[j]
                                        ELSE etharp_free_entry(arp_table[j])]
    BY DEF etharp_cleanup_netif
  <1>3. ASSUME NEW j \in Entries PROVE Fades(arp_table[j], arp_table'[j])
    <2>1. CASE arp_table[j].state = "EMPTY"
      <3>1. arp_table'[j] = arp_table[j] /\ Len(arp_table[j].q) \in Nat
        BY <1>1, <1>2, <2>1, EntryFacts
      <3> QED BY <1>1, <3>1 DEF Fades
    <2>2. CASE arp_table[j].state # "EMPTY"
      <3>1. arp_table'[j] = etharp_free_entry(arp_table[j])
        BY <1>2, <2>2
      <3> QED BY <1>1, <3>1, FreedFades
    <2> QED BY <2>1, <2>2
  <1>4. \A j \in Entries : arp_table'[j] \in ArpEntry
    BY <1>3 DEF Fades
  <1>5. arp_table' \in [Entries -> ArpEntry]
    BY <1>2, <1>4
  <1>6. /\ arp_queue_free' = arp_queue_free + Queued(arp_table) - Queued(arp_table')
        /\ wire' = <<>> /\ UNCHANGED <<etharp_cached_entry, heard>>
    BY DEF etharp_cleanup_netif
  <1> QED BY <1>3, <1>5, <1>6, FadingStep

-----------------------------------------------------------------------------
LEMMA ArpStarts == ArpInit => ArpIInv
  <1> SUFFICES ASSUME ArpInit PROVE ArpIInv
    OBVIOUS
  <1>1. PICK ip \in Hosts : arp_table = [i \in Entries |-> Entry("EMPTY", ip, Unknown, 0, <<>>)]
    BY DEF ArpInit
  <1>2. PICK e : e = [state |-> "EMPTY", ipaddr |-> ip, ethaddr |-> Unknown, ctime |-> 0, q |-> <<>>]
    OBVIOUS
  <1>3. e \in ArpEntry
    <2>1. /\ "EMPTY" \in EntryStates /\ Unknown \in Addresses /\ 0 \in 0..ARP_MAXAGE
          /\ <<>> \in Seq(1..MaxPackets)
      BY ArpAssumption DEF EntryStates, Addresses
    <2> QED BY <1>2, <2>1 DEF ArpEntry
  <1>4. Orderly(e) /\ ~ Stable(e) /\ e.state = "EMPTY"
    <2>1. Len(<<>>) = 0 /\ DOMAIN <<>> = {} /\ 0 <= ARP_QUEUE_LEN
      BY ArpAssumption
    <2> QED BY <1>2, <2>1 DEF Orderly, Rising, Stable
  <1>5. arp_table = [i \in Entries |-> e]
    BY <1>1, <1>2 DEF Entry
  <1>6. TableSound(arp_table, heard)
    BY <1>3, <1>4, <1>5 DEF TableSound, Alone, Told
  <1>7. /\ etharp_cached_entry \in Entries /\ heard \in [Hosts -> Addresses]
        /\ arp_queue_free = MEMP_NUM_ARP_QUEUE /\ MEMP_NUM_ARP_QUEUE \in Nat
    BY EntriesFacts, ArpAssumption DEF ArpInit, Addresses
  <1>8. Queued(arp_table) = 0
    <2>1. \A i \in Entries : arp_table[i].q = <<>>
      BY <1>2, <1>5
    <2>2. QueuePlaces(arp_table) = {}
      BY <2>1 DEF QueuePlaces
    <2> QED BY <2>2, FS_EmptySet DEF Queued, QueuePlaces
  <1> QED BY <1>6, <1>7, <1>8 DEF ArpIInv

LEMMA ArpKeeps == ArpIInv /\ [ArpNext]_arpVars => ArpIInv' /\ [InOrderWhereHeard]_arpVars
  <1> SUFFICES ASSUME ArpIInv, [ArpNext]_arpVars
               PROVE  ArpIInv' /\ [InOrderWhereHeard]_arpVars
    OBVIOUS
  <1>1. ASSUME NEW ip \in Hosts, NEW mac \in Macs, NEW for_us \in BOOLEAN,
               etharp_input(ip, mac, for_us)
        PROVE  ArpIInv' /\ InOrderWhereHeard
    BY <1>1, InputStep
  <1>2. ASSUME NEW ip \in Hosts, NEW memory \in BOOLEAN, etharp_output(ip, memory)
        PROVE  ArpIInv' /\ InOrderWhereHeard
    BY <1>2, OutputStep
  <1>3. ASSUME NEW ip \in Hosts, QueryAddress(ip)
        PROVE  ArpIInv' /\ InOrderWhereHeard
    BY <1>3, QueryAddressStep
  <1>4. CASE etharp_tmr
    BY <1>4, TimerStep
  <1>5. CASE etharp_cleanup_netif
    BY <1>5, CleanupStep
  <1>6. CASE UNCHANGED arpVars
    BY <1>6 DEF arpVars, ArpIInv, TableSound, Told, Alone
  <1> QED BY <1>1, <1>2, <1>3, <1>4, <1>5, <1>6 DEF ArpNext

LEMMA ArpIInvSuffices == ArpIInv => QueuesAreKept
  <1> SUFFICES ASSUME ArpIInv PROVE QueuesAreKept
    OBVIOUS
  <1>1. /\ arp_table \in [Entries -> ArpEntry] /\ \A i \in Entries : Orderly(arp_table[i])
        /\ Alone(arp_table)
    BY DEF ArpIInv, TableSound
  <1>2. arp_queue_free \in 0..MEMP_NUM_ARP_QUEUE
    <2>1. Queued(arp_table) \in Nat
      BY <1>1, QueuePlacesFacts
    <2> QED BY <2>1, ArpAssumption DEF ArpIInv
  <1>3. ArpTypeOK
    BY <1>1, <1>2, EntryFacts DEF ArpTypeOK, ArpIInv, Addresses, Orderly
  <1>4. ASSUME NEW i \in Entries, NEW k \in 2..Len(arp_table[i].q)
        PROVE  arp_table[i].q[k - 1] < arp_table[i].q[k]
    <2>1. PICK q : q = arp_table[i].q
      OBVIOUS
    <2>2. q \in Seq(1..MaxPackets) /\ Rising(q)
      BY <1>1, <2>1, EntryFacts DEF Orderly
    <2>3. DOMAIN q = 1..Len(q) /\ Len(q) \in Nat
      BY <2>2, PacketsFacts
    <2>4. k - 1 \in DOMAIN q /\ k \in DOMAIN q /\ k - 1 < k
      BY <1>4, <2>1, <2>3
    <2> QED BY <2>1, <2>2, <2>4 DEF Rising
  <1>5. \A i \in Entries : arp_table[i].q # <<>> => arp_table[i].state = "PENDING"
    BY <1>1 DEF Orderly
  <1> QED BY <1>1, <1>3, <1>4, <1>5 DEF QueuesAreKept, Alone, ArpIInv

(* A host is in one entry at most, only a pending entry has packets, in     *)
(* their order, and every element of the pool is free or in one queue,      *)
(* however entries are recycled, expire and are resolved                    *)
(* (etharp.c:207-232, 256-400, 427-500, 970-1090).                          *)
THEOREM QueuesAlwaysKept == ArpSpec => []QueuesAreKept
  <1>1. ArpIInv /\ [ArpNext]_arpVars => ArpIInv'
    BY ArpKeeps
  <1> QED BY ArpStarts, <1>1, ArpIInvSuffices, PTL DEF ArpSpec

(* Every packet goes to the address its host told last, in order, and       *)
(* overtakes none that waits (etharp.c:427-500, 830-910).                   *)
THEOREM SentAsHeard == ArpSpec => SentInOrderWhereHeard
  <1>1. ArpIInv /\ [ArpNext]_arpVars => ArpIInv' /\ [InOrderWhereHeard]_arpVars
    BY ArpKeeps
  <1>2. ArpSpec => [][InOrderWhereHeard]_arpVars
    BY ArpStarts, <1>1, PTL DEF ArpSpec
  <1> QED BY <1>2, PTL DEF SentInOrderWhereHeard, InOrderWhereHeard

-----------------------------------------------------------------------------
(* Time-outs.                                                               *)

TimeoutEntry == [h : Handlers, time : Times]

(* The handlers in a list. *)
Listed(q) == {q[i].h : i \in 1..Len(q)}

OneEach(q) == \A i, j \in 1..Len(q) : q[i].h = q[j].h => i = j

OnceListed(q) == q \in Seq(TimeoutEntry) /\ OneEach(q)

HandlerOf(h) == thread.at = "handler" /\ thread.h = h

TimeoutsIInv ==
    /\ OnceListed(next_timeout)
    /\ timeouts_last_time \in Times /\ sys_now \in Times
    /\ tcpip_tcp_timer_active \in BOOLEAN /\ tcp_pcbs \in BOOLEAN
    /\ thread.at \in {"again", "sleep", "check", "handler"} /\ input = Idle
    /\ thread.at = "handler" => thread.h \in Handlers \ Listed(next_timeout)
    /\ \A h \in cyclic_timers \cup {"tcp"} :
          (h \in cyclic_timers \/ tcpip_tcp_timer_active)
             <=> (h \in Listed(next_timeout) \/ HandlerOf(h))
    /\ tcp_pcbs => tcpip_tcp_timer_active

LEMMA TimesFacts ==
    /\ 0 \in Times /\ \A t \in Times : t \in Nat /\ t \in Int
    /\ \A a, b \in Int : Minus(a, b) \in Times /\ Plus(a, b) \in Times
  <1>1. ClockModulus \in Nat /\ ClockModulus > 0
    BY TimeoutsAssumption
  <1>2. \A x \in Int : x % ClockModulus \in 0..(ClockModulus - 1)
    BY <1>1
  <1> QED BY <1>1, <1>2 DEF Times, Minus, Plus

LEMMA ListFacts ==
    ASSUME NEW q \in Seq(TimeoutEntry)
    PROVE  /\ Len(q) \in Nat /\ DOMAIN q = 1..Len(q)
           /\ \A k \in 1..Len(q) : /\ q[k] \in TimeoutEntry /\ q[k].h \in Handlers
                                   /\ q[k].time \in Times /\ q[k].time \in Nat
  <1>1. Len(q) \in Nat /\ DOMAIN q = 1..Len(q) /\ \A k \in 1..Len(q) : q[k] \in TimeoutEntry
    OBVIOUS
  <1>2. \A e \in TimeoutEntry : e.h \in Handlers /\ e.time \in Times
    BY DEF TimeoutEntry
  <1>3. \A k \in 1..Len(q) : q[k].time \in Times
    BY <1>1, <1>2
  <1>4. \A k \in 1..Len(q) : q[k].time \in Nat
    BY <1>3, TimesFacts
  <1> QED BY <1>1, <1>2, <1>3, <1>4

(* The sums of the first times, one by one. *)
LEMMA SumExists ==
    ASSUME NEW q \in Seq(TimeoutEntry), NEW n \in 0..Len(q)
    PROVE  \E f \in [0..n -> Int] :
              /\ f[0] = 0 /\ f[n] = Until(q, n)
              /\ \A k \in 1..n : f[k] = f[k - 1] + q[k].time
  <1>1. Len(q) \in Nat /\ n \in Nat /\ \A k \in 1..n : q[k].time \in Int
    BY ListFacts
  <1> DEFINE sum[k \in 0..n] == IF k = 0 THEN 0 ELSE sum[k - 1] + q[k].time
  <1> DEFINE step == [x \in Int \X (1..n) |-> x[1] + q[x[2]].time]
  <1>2. step \in [Int \X (1..n) -> Int]
    BY <1>1
  <1>3. PICK f \in [0..n -> Int] : Along(f, n, 0, step)
    <2> HIDE DEF step
    <2>1. PICK D, base : D = Int /\ base = 0
      OBVIOUS
    <2>2. base \in D /\ step \in [D \X (1..n) -> D]
      BY <1>2, <2>1
    <2>3. \E f \in [0..n -> D] : Along(f, n, base, step)
      BY <1>1, <2>2, StepsExist
    <2> QED BY <2>1, <2>3
  <1>4. \A k \in 0..n : k # 0 => step[<<f[k - 1], k>>] = f[k - 1] + q[k].time
    <2>1. \A k \in 0..n : k # 0 => k - 1 \in 0..n /\ k \in 1..n
      BY <1>1
    <2> QED BY <1>3, <2>1
  <1> HIDE DEF step
  <1>5. \A k \in 0..n : f[k] = IF k = 0 THEN 0 ELSE f[k - 1] + q[k].time
    BY <1>3, <1>4 DEF Along
  <1>6. f = [k \in 0..n |-> f[k]]
    BY <1>3
  <1>7. f = [k \in 0..n |-> IF k = 0 THEN 0 ELSE f[k - 1] + q[k].time]
    BY <1>5, <1>6, Zenon
  <1>8. sum = [k \in 0..n |-> IF k = 0 THEN 0 ELSE sum[k - 1] + q[k].time]
    <2>1. \E g : g = [k \in 0..n |-> IF k = 0 THEN 0 ELSE g[k - 1] + q[k].time]
      BY <1>7
    <2> QED BY <2>1
  <1>9. Until(q, n) = sum[n]
    BY DEF Until
  <1> HIDE DEF sum
  <1>10. sum[0] = 0 /\ DOMAIN sum = 0..n /\ \A k \in 1..n : sum[k] = sum[k - 1] + q[k].time
    BY <1>1, <1>8
  <1>11. ASSUME NEW m \in 0..n PROVE sum[m] \in Int
    <2>1. ASSUME NEW k \in 1..m, sum[k - 1] \in Int PROVE sum[k] \in Int
      <3>1. k \in 1..n
        BY <1>1
      <3>2. sum[k] = sum[k - 1] + q[k].time
        BY <1>10, <3>1
      <3>3. q[k].time \in Int
        BY <1>1, <3>1
      <3> QED BY <2>1, <3>2, <3>3
    <2>2. m \in Nat /\ sum[0] \in Int
      BY <1>1, <1>10
    <2> QED BY <2>1, <2>2, HoldsAlong
  <1>12. sum \in [0..n -> Int]
    <2>1. sum = [k \in 0..n |-> sum[k]]
      BY <1>8, <1>10
    <2> QED BY <1>11, <2>1
  <1> QED BY <1>9, <1>10, <1>12

LEMMA UntilIsNumber ==
    ASSUME NEW q \in Seq(TimeoutEntry), NEW n \in 0..Len(q)
    PROVE  Until(q, n) \in Int
  <1>1. PICK f \in [0..n -> Int] : f[n] = Until(q, n)
    BY SumExists
  <1>2. n \in 0..n
    OBVIOUS
  <1> QED BY <1>1, <1>2

(* The walk finds a place in a list that is not empty.                      *)
LEMMA PlaceFacts ==
    ASSUME NEW q \in Seq(TimeoutEntry), q # <<>>, NEW msecs \in Times, NEW diff \in Times
    PROVE  LET i == Place(q, msecs, diff)
           IN  /\ i \in 1..Len(q) /\ Left(q, i, msecs, diff) \in Times
               /\ i = Len(q) \/ q[i + 1].time > Left(q, i, msecs, diff)
               /\ \A j \in 1..(i - 1) : q[j + 1].time <= Left(q, j, msecs, diff)
  <1>1. Len(q) \in Nat /\ Len(q) >= 1 /\ \A k \in 1..Len(q) : q[k].time \in Nat
    BY ListFacts
  <1>2. ASSUME NEW k \in 1..Len(q) PROVE Left(q, k, msecs, diff) \in Times
    <2>1. k \in 0..Len(q)
      BY <1>1
    <2>2. Until(q, k) \in Int /\ msecs \in Int /\ diff \in Int
      BY <2>1, UntilIsNumber, TimesFacts
    <2>3. Plus(msecs, diff) \in Int
      BY <2>2, TimesFacts
    <2> QED BY <2>2, <2>3, TimesFacts DEF Left
  <1>3. \A k \in 1..Len(q) : Left(q, k, msecs, diff) \in Int
    BY <1>2, TimesFacts
  <1> DEFINE T == {k \in 1..Len(q) : k = Len(q) \/ q[k + 1].time > Left(q, k, msecs, diff)}
  <1>4. T \in SUBSET Nat /\ T # {}
    BY <1>1
  <1>5. PICK k \in T : \A j \in T : k <= j
    <2> HIDE DEF T
    <2> QED BY <1>4, LeastNatural
  <1>6. ASSUME NEW j \in 1..(k - 1) PROVE q[j + 1].time <= Left(q, j, msecs, diff)
    <2>1. j \in 1..Len(q) /\ j \notin T /\ j # Len(q) /\ j + 1 \in 1..Len(q)
      BY <1>1, <1>5
    <2> QED BY <1>1, <1>3, <2>1
  <1>7. k \in 1..Len(q) /\ (k = Len(q) \/ q[k + 1].time > Left(q, k, msecs, diff))
    BY <1>5
  <1> HIDE DEF T
  <1>8. LET i == Place(q, msecs, diff)
        IN  /\ i \in 1..Len(q)
            /\ i = Len(q) \/ q[i + 1].time > Left(q, i, msecs, diff)
            /\ \A j \in 1..(i - 1) : q[j + 1].time <= Left(q, j, msecs, diff)
    BY <1>6, <1>7 DEF Place
  <1> QED BY <1>2, <1>8

-----------------------------------------------------------------------------
(* What is listed when an entry changes its time, comes in or goes.         *)
LEMMA SameListed ==
    ASSUME NEW q, OnceListed(q), NEW r \in Seq(TimeoutEntry), Len(r) = Len(q),
           \A k \in 1..Len(q) : r[k].h = q[k].h
    PROVE  OnceListed(r) /\ Listed(r) = Listed(q)
  BY DEF OnceListed, OneEach, Listed

LEMMA OneMoreListed ==
    ASSUME NEW q, OnceListed(q), NEW r \in Seq(TimeoutEntry), Len(r) = Len(q) + 1,
           NEW i \in 1..Len(r), NEW h, r[i].h = h, h \notin Listed(q),
           \A k \in 1..Len(r) : k < i => r[k].h = q[k].h,
           \A k \in 1..Len(r) : k > i => r[k].h = q[k - 1].h
    PROVE  OnceListed(r) /\ Listed(r) = Listed(q) \cup {h}
  <1>1. Len(q) \in Nat /\ Len(r) \in Nat
    BY ListFacts DEF OnceListed
  <1>2. \A k \in 1..Len(r) : k # i =>
            \E j \in 1..Len(q) : r[k].h = q[j].h /\ ((k < i /\ j = k) \/ (k > i /\ j = k - 1))
    <2>1. ASSUME NEW k \in 1..Len(r), k < i
          PROVE  \E j \in 1..Len(q) : r[k].h = q[j].h /\ ((k < i /\ j = k) \/ (k > i /\ j = k - 1))
      <3>1. k \in 1..Len(q)
        BY <1>1, <2>1
      <3> QED BY <2>1, <3>1
    <2>2. ASSUME NEW k \in 1..Len(r), k > i
          PROVE  \E j \in 1..Len(q) : r[k].h = q[j].h /\ ((k < i /\ j = k) \/ (k > i /\ j = k - 1))
      <3>1. k - 1 \in 1..Len(q)
        BY <1>1, <2>2
      <3> QED BY <2>2, <3>1
    <2>3. \A k \in 1..Len(r) : k # i => k < i \/ k > i
      BY <1>1
    <2> QED BY <2>1, <2>2, <2>3
  <1>3. OneEach(r)
    <2>1. SUFFICES ASSUME NEW k \in 1..Len(r), NEW l \in 1..Len(r), r[k].h = r[l].h PROVE k = l
      BY DEF OneEach
    <2>2. \A j \in 1..Len(q) : q[j].h # h
      BY DEF Listed
    <2>3. CASE k = i \/ l = i
      BY <1>2, <2>1, <2>2, <2>3
    <2>4. CASE k # i /\ l # i
      <3>1. PICK j \in 1..Len(q) :
                r[k].h = q[j].h /\ ((k < i /\ j = k) \/ (k > i /\ j = k - 1))
        BY <1>2, <2>4
      <3>2. PICK m \in 1..Len(q) :
                r[l].h = q[m].h /\ ((l < i /\ m = l) \/ (l > i /\ m = l - 1))
        BY <1>2, <2>4
      <3>3. j = m
        BY <2>1, <3>1, <3>2 DEF OnceListed, OneEach
      <3>4. k \in Int /\ l \in Int /\ i \in Int
        BY <1>1
      <3> QED BY <3>1, <3>2, <3>3, <3>4
    <2> QED BY <2>3, <2>4
  <1>4. Listed(r) \subseteq Listed(q) \cup {h}
    <2>1. ASSUME NEW k \in 1..Len(r) PROVE r[k].h \in Listed(q) \cup {h}
      <3>1. CASE k = i
        BY <3>1
      <3>2. CASE k # i
        <4>1. PICK j \in 1..Len(q) : r[k].h = q[j].h
          BY <1>2, <3>2
        <4> QED BY <4>1 DEF Listed
      <3> QED BY <3>1, <3>2
    <2> QED BY <2>1 DEF Listed
  <1>5. ASSUME NEW j \in 1..Len(q) PROVE \E k \in 1..Len(r) : r[k].h = q[j].h
    <2>1. CASE j < i
      <3>1. j \in 1..Len(r) /\ j < i
        BY <1>1, <2>1
      <3>2. r[j].h = q[j].h
        BY <3>1
      <3> QED BY <3>1, <3>2
    <2>2. CASE ~ (j < i)
      <3>1. j + 1 \in 1..Len(r) /\ j + 1 > i /\ (j + 1) - 1 = j
        BY <1>1, <2>2
      <3> QED BY <3>1
    <2> QED BY <2>1, <2>2
  <1>6. Listed(q) \cup {h} \subseteq Listed(r)
    BY <1>5 DEF Listed
  <1> QED BY <1>3, <1>4, <1>6 DEF OnceListed

LEMMA OneLessListed ==
    ASSUME NEW q, OnceListed(q), NEW r \in Seq(TimeoutEntry), Len(r) = Len(q) - 1,
           NEW i \in 1..Len(q),
           \A k \in 1..Len(r) : k < i => r[k].h = q[k].h,
           \A k \in 1..Len(r) : k >= i => r[k].h = q[k + 1].h
    PROVE  OnceListed(r) /\ Listed(r) = Listed(q) \ {q[i].h}
  <1>1. Len(q) \in Nat /\ Len(r) \in Nat
    BY ListFacts DEF OnceListed
  <1>2. ASSUME NEW k \in 1..Len(r)
        PROVE  \E j \in 1..Len(q) : r[k].h = q[j].h /\ ((k < i /\ j = k) \/ (k >= i /\ j = k + 1))
    <2>1. CASE k < i
      <3>1. k \in 1..Len(q)
        BY <1>1, <2>1
      <3> QED BY <2>1, <3>1
    <2>2. CASE k >= i
      <3>1. k + 1 \in 1..Len(q)
        BY <1>1, <2>2
      <3> QED BY <2>2, <3>1
    <2>3. k < i \/ k >= i
      BY <1>1
    <2> QED BY <2>1, <2>2, <2>3
  <1>3. OneEach(r)
    <2>1. SUFFICES ASSUME NEW k \in 1..Len(r), NEW l \in 1..Len(r), r[k].h = r[l].h PROVE k = l
      BY DEF OneEach
    <2>2. PICK j \in 1..Len(q) :
              r[k].h = q[j].h /\ ((k < i /\ j = k) \/ (k >= i /\ j = k + 1))
      BY <1>2
    <2>3. PICK m \in 1..Len(q) :
              r[l].h = q[m].h /\ ((l < i /\ m = l) \/ (l >= i /\ m = l + 1))
      BY <1>2
    <2>4. j = m
      BY <2>1, <2>2, <2>3 DEF OnceListed, OneEach
    <2>5. k \in Int /\ l \in Int /\ i \in Int
      BY <1>1
    <2> QED BY <2>2, <2>3, <2>4, <2>5
  <1>4. Listed(r) \subseteq Listed(q) \ {q[i].h}
    <2>1. ASSUME NEW k \in 1..Len(r) PROVE r[k].h \in Listed(q) /\ r[k].h # q[i].h
      <3>1. PICK j \in 1..Len(q) :
                r[k].h = q[j].h /\ ((k < i /\ j = k) \/ (k >= i /\ j = k + 1))
        BY <1>2
      <3>2. j # i
        BY <1>1, <3>1
      <3> QED BY <3>1, <3>2 DEF Listed, OnceListed, OneEach
    <2> QED BY <2>1 DEF Listed
  <1>5. ASSUME NEW j \in 1..Len(q), q[j].h # q[i].h PROVE \E k \in 1..Len(r) : r[k].h = q[j].h
    <2>1. CASE j < i
      <3>1. j \in 1..Len(r)
        BY <1>1, <2>1
      <3> QED BY <2>1, <3>1
    <2>2. CASE j > i
      <3>1. j - 1 \in 1..Len(r) /\ j - 1 >= i /\ (j - 1) + 1 = j
        BY <1>1, <2>2
      <3> QED BY <3>1
    <2>3. j # i
      BY <1>5
    <2>4. j < i \/ j > i
      BY <1>1, <2>3
    <2> QED BY <2>1, <2>2, <2>4
  <1>6. Listed(q) \ {q[i].h} \subseteq Listed(r)
    BY <1>5 DEF Listed
  <1> QED BY <1>3, <1>4, <1>6 DEF OnceListed

Retimed(q, i, t) == [q EXCEPT ![i].time = t]

LEMMA RetimedPlaces ==
    ASSUME NEW q \in Seq(TimeoutEntry), NEW i \in 1..Len(q), NEW t \in Times
    PROVE  LET r == Retimed(q, i, t)
           IN  /\ r \in Seq(TimeoutEntry) /\ Len(r) = Len(q)
               /\ r[i].h = q[i].h /\ r[i].time = t
               /\ \A k \in 1..Len(q) : k # i => r[k] = q[k]
  <1>1. /\ Len(q) \in Nat /\ DOMAIN q = 1..Len(q) /\ \A k \in 1..Len(q) : q[k] \in TimeoutEntry
    BY ListFacts
  <1>2. PICK b, e : b = q[i] /\ e = [b EXCEPT !.time = t]
    OBVIOUS
  <1>3. b \in TimeoutEntry
    BY <1>1, <1>2
  <1>4. e = [h |-> b.h, time |-> t]
    BY <1>2, <1>3 DEF TimeoutEntry
  <1>5. e \in TimeoutEntry /\ e.h = b.h /\ e.time = t
    BY <1>3, <1>4 DEF TimeoutEntry
  <1>6. PICK r : r = [q EXCEPT ![i] = e]
    OBVIOUS
  <1>7. Retimed(q, i, t) = r
    BY <1>1, <1>2, <1>6 DEF Retimed
  <1>8. r \in Seq(TimeoutEntry) /\ Len(r) = Len(q)
    BY <1>1, <1>5, <1>6
  <1>9. r[i] = e /\ \A k \in 1..Len(q) : k # i => r[k] = q[k]
    BY <1>1, <1>6
  <1> QED BY <1>2, <1>5, <1>7, <1>8, <1>9

LEMMA RetimedFacts ==
    ASSUME NEW q, OnceListed(q), NEW i \in 1..Len(q), NEW t \in Times
    PROVE  /\ OnceListed(Retimed(q, i, t)) /\ Listed(Retimed(q, i, t)) = Listed(q)
           /\ Len(Retimed(q, i, t)) = Len(q)
  <1>1. PICK r : r = Retimed(q, i, t)
    OBVIOUS
  <1>2. q \in Seq(TimeoutEntry)
    BY DEF OnceListed
  <1>3. /\ r \in Seq(TimeoutEntry) /\ Len(r) = Len(q) /\ r[i].h = q[i].h
        /\ \A k \in 1..Len(q) : k # i => r[k] = q[k]
    BY <1>1, <1>2, RetimedPlaces
  <1>4. \A k \in 1..Len(q) : r[k].h = q[k].h
    BY <1>3
  <1>5. OnceListed(r) /\ Listed(r) = Listed(q)
    BY <1>3, <1>4, SameListed
  <1> QED BY <1>1, <1>3, <1>5

LEMMA LinkFacts ==
    ASSUME NEW q, OnceListed(q), NEW i \in 1..Len(q), NEW e \in TimeoutEntry, e.h \notin Listed(q)
    PROVE  OnceListed(Link(q, i, e)) /\ Listed(Link(q, i, e)) = Listed(q) \cup {e.h}
  <1>1. /\ q \in Seq(TimeoutEntry) /\ Len(q) \in Nat /\ DOMAIN q = 1..Len(q)
        /\ \A k \in 1..Len(q) : q[k].time \in Times
    BY ListFacts DEF OnceListed
  <1>2. CASE i = Len(q)
    <2>1. PICK r : r = Append(q, e)
      OBVIOUS
    <2>2. /\ r \in Seq(TimeoutEntry) /\ Len(r) = Len(q) + 1
          /\ \A k \in 1..Len(q) + 1 : r[k] = IF k = Len(q) + 1 THEN e ELSE q[k]
      BY <1>1, <2>1
    <2>3. Len(r) \in 1..Len(r) /\ r[Len(r)] = e
      BY <1>1, <2>2
    <2>4. /\ \A k \in 1..Len(r) : k < Len(r) => r[k].h = q[k].h
          /\ \A k \in 1..Len(r) : ~ (k > Len(r))
      BY <1>1, <2>2
    <2>5. OnceListed(r) /\ Listed(r) = Listed(q) \cup {e.h}
      BY <2>2, <2>3, <2>4, OneMoreListed
    <2>6. Link(q, i, e) = r
      BY <1>2, <2>1 DEF Link
    <2> QED BY <2>5, <2>6
  <1>3. CASE i # Len(q)
    <2>1. PICK k : k = i + 1
      OBVIOUS
    <2>2. k \in 1..Len(q) /\ k \in Nat
      <3>1. Len(q) \in Nat /\ i \in 1..Len(q) /\ i # Len(q)
        BY <1>1, <1>3
      <3> QED BY <2>1, <3>1
    <2>3. PICK t, p : t = Minus(q[k].time, e.time) /\ p = Retimed(q, k, t)
      OBVIOUS
    <2>4. t \in Times
      <3>1. q[k].time \in Times /\ e.time \in Times
        BY <1>1, <2>2 DEF TimeoutEntry
      <3>2. q[k].time \in Int /\ e.time \in Int
        BY <3>1, TimesFacts
      <3> QED BY <2>3, <3>2, TimesFacts
    <2>5. OnceListed(p) /\ Listed(p) = Listed(q) /\ Len(p) = Len(q)
      BY <2>2, <2>3, <2>4, RetimedFacts
    <2>6. PICK r : r = InsertAt(p, k, e)
      OBVIOUS
    <2>7. p \in Seq(TimeoutEntry) /\ k \in 1..Len(p) + 1
      <3>1. Len(p) \in Nat /\ k \in 1..Len(p)
        BY <1>1, <2>2, <2>5
      <3> QED BY <2>5, <3>1 DEF OnceListed
    <2>8. /\ r \in Seq(TimeoutEntry) /\ Len(r) = Len(p) + 1
          /\ \A j \in DOMAIN r : r[j] = IF j < k THEN p[j] ELSE IF j = k THEN e ELSE p[j - 1]
      BY <2>6, <2>7, InsertAtPlaces
    <2>9. DOMAIN r = 1..Len(r) /\ k \in 1..Len(r)
      BY <2>7, <2>8, ListFacts
    <2>10. /\ r[k].h = e.h
           /\ \A j \in 1..Len(r) : j < k => r[j].h = p[j].h
           /\ \A j \in 1..Len(r) : j > k => r[j].h = p[j - 1].h
      <3>1. r[k] = e
        BY <2>2, <2>8, <2>9
      <3>2. ASSUME NEW j \in 1..Len(r), j > k PROVE r[j] = p[j - 1]
        <4>1. ~ (j < k) /\ j # k
          BY <2>2, <3>2
        <4> QED BY <2>8, <2>9, <4>1
      <3> QED BY <2>8, <2>9, <3>1, <3>2
    <2>11. OnceListed(r) /\ Listed(r) = Listed(p) \cup {e.h}
      <3>1. r \in Seq(TimeoutEntry) /\ Len(r) = Len(p) + 1 /\ OnceListed(p) /\ e.h \notin Listed(p)
        BY <2>5, <2>8
      <3> QED BY <2>9, <2>10, <3>1, OneMoreListed
    <2>12. Link(q, i, e) = r
      BY <1>3, <2>1, <2>3, <2>6 DEF Link, Retimed
    <2> QED BY <2>5, <2>11, <2>12
  <1> QED BY <1>2, <1>3

LEMMA AtHeadFacts ==
    ASSUME NEW q, OnceListed(q), q # <<>>, NEW h \in Handlers, h \notin Listed(q),
           NEW msecs \in Times, NEW diff \in Times
    PROVE  LET r == AtHead(q, h, msecs, diff)
           IN  OnceListed(r) /\ Listed(r) = Listed(q) \cup {h}
  <1>1. /\ q \in Seq(TimeoutEntry) /\ Len(q) \in Nat /\ Len(q) >= 1
        /\ \A k \in 1..Len(q) : q[k].time \in Times
    BY ListFacts DEF OnceListed
  <1>2. PICK t, p : t = Minus(q[1].time, msecs) /\ p = Retimed(q, 1, t)
    OBVIOUS
  <1>3. t \in Times /\ Plus(msecs, diff) \in Times
    <2>1. q[1].time \in Times
      BY <1>1
    <2>2. q[1].time \in Int /\ msecs \in Int /\ diff \in Int
      BY <2>1, TimesFacts
    <2> QED BY <1>2, <2>2, TimesFacts
  <1>4. OnceListed(p) /\ Listed(p) = Listed(q) /\ Len(p) = Len(q)
    <2>1. 1 \in 1..Len(q)
      BY <1>1
    <2> QED BY <1>2, <1>3, <2>1, RetimedFacts
  <1>5. PICK e, r : e = [h |-> h, time |-> Plus(msecs, diff)] /\ r = <<e>> \o p
    OBVIOUS
  <1>6. e \in TimeoutEntry /\ e.h = h
    BY <1>3, <1>5 DEF TimeoutEntry
  <1>7. p \in Seq(TimeoutEntry)
    BY <1>4 DEF OnceListed
  <1>8. /\ r \in Seq(TimeoutEntry) /\ Len(r) = Len(p) + 1 /\ r[1] = e
        /\ \A k \in 1..Len(r) : k > 1 => r[k] = p[k - 1]
    BY <1>5, <1>6, <1>7
  <1>9. /\ 1 \in 1..Len(r) /\ \A k \in 1..Len(r) : ~ (k < 1)
    BY <1>1, <1>4, <1>8
  <1>10. OnceListed(r) /\ Listed(r) = Listed(p) \cup {h}
    BY <1>4, <1>6, <1>8, <1>9, OneMoreListed
  <1>11. AtHead(q, h, msecs, diff) = r
    BY <1>2, <1>5 DEF AtHead, Retimed
  <1> QED BY <1>4, <1>10, <1>11

LEMMA BehindFacts ==
    ASSUME NEW q, OnceListed(q), q # <<>>, NEW h \in Handlers, h \notin Listed(q),
           NEW msecs \in Times, NEW diff \in Times
    PROVE  LET r == Behind(q, h, msecs, diff)
           IN  OnceListed(r) /\ Listed(r) = Listed(q) \cup {h}
  <1>1. /\ q \in Seq(TimeoutEntry) /\ Len(q) \in Nat /\ Len(q) >= 1
        /\ \A k \in 1..Len(q) : q[k].time \in Times
    BY ListFacts DEF OnceListed
  <1>2. PICK i, left : i = Place(q, msecs, diff) /\ left = Left(q, i, msecs, diff)
    OBVIOUS
  <1>3. i \in 1..Len(q) /\ left \in Times
    BY <1>1, <1>2, PlaceFacts
  <1>4. PICK t : t = IF i = Len(q) /\ left > msecs THEN Plus(msecs, q[1].time) ELSE left
    OBVIOUS
  <1>5. t \in Times
    <2>1. q[1].time \in Times
      BY <1>1
    <2>2. q[1].time \in Int /\ msecs \in Int
      BY <2>1, TimesFacts
    <2>3. Plus(msecs, q[1].time) \in Times
      BY <2>2, TimesFacts
    <2> QED BY <1>3, <1>4, <2>3
  <1>6. PICK e : e = [h |-> h, time |-> t]
    OBVIOUS
  <1>7. e \in TimeoutEntry /\ e.h = h
    BY <1>5, <1>6 DEF TimeoutEntry
  <1>8. Behind(q, h, msecs, diff) = Link(q, i, e)
    BY <1>2, <1>4, <1>6 DEF Behind
  <1> QED BY <1>3, <1>7, <1>8, LinkFacts

(* A time-out that is started comes into the list, whatever its place.      *)
LEMMA StartFacts ==
    ASSUME NEW q, OnceListed(q), NEW last \in Times, sys_now \in Times,
           NEW h \in Handlers, h \notin Listed(q), NEW msecs \in Times,
           sys_timeout(q, last, h, msecs)
    PROVE  /\ OnceListed(next_timeout') /\ Listed(next_timeout') = Listed(q) \cup {h}
           /\ timeouts_last_time' \in Times
  <1>1. PICK diff : diff = Minus(sys_now, last)
    OBVIOUS
  <1>2. diff \in Times
    <2>1. sys_now \in Int /\ last \in Int
      BY TimesFacts
    <2> QED BY <1>1, <2>1, TimesFacts
  <1>3. /\ next_timeout' = IF q = <<>> THEN <<[h |-> h, time |-> msecs]>>
                           ELSE IF q[1].time > msecs THEN AtHead(q, h, msecs, diff)
                           ELSE Behind(q, h, msecs, diff)
        /\ timeouts_last_time' = IF q = <<>> THEN sys_now ELSE last
    BY <1>1 DEF sys_timeout
  <1>4. CASE q = <<>>
    <2>1. PICK e, r : e = [h |-> h, time |-> msecs] /\ r = <<e>>
      OBVIOUS
    <2>2. e \in TimeoutEntry /\ e.h = h
      BY <2>1 DEF TimeoutEntry
    <2>3. r \in Seq(TimeoutEntry) /\ Len(r) = 1 /\ r[1] = e
      BY <2>1, <2>2
    <2>4. 1..Len(q) = {} /\ 1..1 = {1}
      BY <1>4
    <2>5. Listed(q) = {}
      BY <2>4 DEF Listed
    <2>6. Listed(r) = {h} /\ OneEach(r)
      BY <2>2, <2>3, <2>4 DEF Listed, OneEach
    <2> QED BY <1>3, <1>4, <2>1, <2>3, <2>5, <2>6 DEF OnceListed
  <1>5. CASE q # <<>>
    BY <1>2, <1>3, <1>5, AtHeadFacts, BehindFacts
  <1> QED BY <1>4, <1>5

(* Those behind a time-out that is taken out move up by one place, and the  *)
(* first of them by its time.                                               *)
LEMMA StopPlaces ==
    ASSUME OnceListed(next_timeout), NEW i \in 1..Len(next_timeout), sys_untimeout(i)
    PROVE  LET q == next_timeout
               r == next_timeout'
           IN  /\ r \in Seq(TimeoutEntry) /\ Len(r) = Len(q) - 1
               /\ \A k \in 1..Len(r) : k < i => r[k] = q[k]
               /\ \A k \in 1..Len(r) : k >= i => r[k].h = q[k + 1].h
               /\ \A k \in 1..Len(r) : k > i => r[k].time = q[k + 1].time
               /\ i < Len(q) => r[i].time = Plus(q[i + 1].time, q[i].time)
  <1>1. PICK q : q = next_timeout
    OBVIOUS
  <1>2. /\ q \in Seq(TimeoutEntry) /\ Len(q) \in Nat /\ DOMAIN q = 1..Len(q) /\ i \in 1..Len(q)
        /\ \A k \in 1..Len(q) : q[k] \in TimeoutEntry /\ q[k].time \in Times
        /\ OnceListed(q)
    <2>1. OnceListed(q) /\ i \in 1..Len(q)
      BY <1>1
    <2> QED BY <2>1, ListFacts DEF OnceListed
  <1>3. PICK a, b : a = SubSeq(q, 1, i - 1) /\ b = SubSeq(q, i + 1, Len(q))
    OBVIOUS
  <1>4. a \in Seq(TimeoutEntry) /\ Len(a) = i - 1 /\ \A k \in 1..(i - 1) : a[k] = q[k]
    <2>1. q \in Seq(TimeoutEntry) /\ i \in 1..Len(q)
      BY <1>2
    <2> QED BY <1>3, <2>1
  <1>5. /\ b \in Seq(TimeoutEntry) /\ Len(b) = Len(q) - i
        /\ \A k \in 1..(Len(q) - i) : b[k] = q[i + k]
    <2>1. q \in Seq(TimeoutEntry) /\ i \in 0..Len(q)
      BY <1>2
    <2> QED BY <1>3, <2>1, CutPlaces
  <1>6. PICK c : c = IF i = Len(q) THEN <<>> ELSE [b EXCEPT ![1].time = Plus(@, q[i].time)]
    OBVIOUS
  <1>7. next_timeout' = a \o c
    BY <1>1, <1>3, <1>6 DEF sys_untimeout
  <1>8. /\ c \in Seq(TimeoutEntry) /\ Len(c) = Len(q) - i
        /\ \A k \in 1..(Len(q) - i) : c[k].h = q[i + k].h
        /\ \A k \in 2..(Len(q) - i) : c[k].time = q[i + k].time
        /\ i < Len(q) => c[1].time = Plus(q[i + 1].time, q[i].time)
    <2>1. CASE i = Len(q)
      BY <1>2, <1>6, <2>1
    <2>2. CASE i # Len(q)
      <3>1. Len(b) >= 1 /\ DOMAIN b = 1..Len(b) /\ 1 \in 1..Len(b) /\ Len(b) \in Nat
        <4>1. Len(b) \in Nat /\ DOMAIN b = 1..Len(b)
          BY <1>5, ListFacts
        <4>2. Len(b) = Len(q) - i /\ i \in 1..Len(q) /\ Len(q) \in Nat
          BY <1>2, <1>5
        <4>3. Len(b) >= 1
          BY <2>2, <4>2
        <4> QED BY <4>1, <4>3
      <3>2. PICK d, e : d = b[1] /\ e = [d EXCEPT !.time = Plus(d.time, q[i].time)]
        OBVIOUS
      <3>3. d \in TimeoutEntry
        BY <1>5, <3>1, <3>2
      <3>4. Plus(d.time, q[i].time) \in Times
        <4>1. d.time \in Int /\ q[i].time \in Int
          BY <1>2, <3>3, TimesFacts DEF TimeoutEntry
        <4> QED BY <4>1, TimesFacts
      <3>5. e = [h |-> d.h, time |-> Plus(d.time, q[i].time)]
        BY <3>2, <3>3 DEF TimeoutEntry
      <3>6. e \in TimeoutEntry /\ e.h = d.h /\ e.time = Plus(d.time, q[i].time)
        BY <3>3, <3>4, <3>5 DEF TimeoutEntry
      <3>7. c = [b EXCEPT ![1] = e]
        BY <1>6, <2>2, <3>1, <3>2
      <3>8. c \in Seq(TimeoutEntry) /\ Len(c) = Len(b)
        BY <1>5, <3>1, <3>6, <3>7
      <3>9. \A k \in 1..Len(b) : c[k].h = b[k].h
        BY <3>1, <3>2, <3>6, <3>7
      <3>10. \A k \in 2..Len(b) : c[k] = b[k]
        BY <3>1, <3>7
      <3>11. c[1].time = Plus(q[i + 1].time, q[i].time)
        <4>1. c[1] = e
          BY <3>1, <3>7
        <4>2. d = q[i + 1]
          BY <1>5, <3>1, <3>2
        <4> QED BY <3>6, <4>1, <4>2
      <3>12. \A k \in 2..(Len(q) - i) : c[k].time = q[i + k].time
        <4>1. ASSUME NEW k \in 2..(Len(q) - i) PROVE c[k].time = q[i + k].time
          <5>1. k \in 1..(Len(q) - i) /\ k \in 2..Len(b)
            BY <1>5, <3>1
          <5>2. b[k] = q[i + k] /\ c[k] = b[k]
            BY <1>5, <3>10, <5>1
          <5> QED BY <5>2
        <4> QED BY <4>1
      <3> QED BY <1>5, <3>8, <3>9, <3>11, <3>12
    <2> QED BY <2>1, <2>2
  <1>9. PICK r : r = a \o c
    OBVIOUS
  <1>10. /\ r \in Seq(TimeoutEntry) /\ Len(r) = Len(q) - 1
         /\ \A k \in 1..Len(r) : r[k] = IF k < i THEN a[k] ELSE c[k - (i - 1)]
    <2>1. Len(a) \in Nat /\ Len(c) \in Nat
      BY <1>4, <1>8, ListFacts
    <2>2. /\ r \in Seq(TimeoutEntry) /\ Len(r) = Len(a) + Len(c)
          /\ \A k \in 1..Len(r) : r[k] = IF k <= Len(a) THEN a[k] ELSE c[k - Len(a)]
      <3>1. a \in Seq(TimeoutEntry) /\ c \in Seq(TimeoutEntry)
        BY <1>4, <1>8
      <3> QED BY <1>9, <2>1, <3>1
    <2>3. Len(r) = Len(q) - 1 /\ Len(a) = i - 1 /\ i \in Nat /\ Len(r) \in Nat
      BY <1>2, <1>4, <1>8, <2>1, <2>2
    <2>4. \A k \in 1..Len(r) : k <= Len(a) <=> k < i
      BY <2>3
    <2> QED BY <2>2, <2>3, <2>4
  <1>11. \A k \in 1..Len(r) : k < i => r[k] = q[k]
    <2>1. ASSUME NEW k \in 1..Len(r), k < i PROVE r[k] = q[k]
      <3>1. k \in 1..(i - 1)
        BY <1>2, <2>1
      <3> QED BY <1>4, <1>10, <2>1, <3>1
    <2> QED BY <2>1
  <1>12. ASSUME NEW k \in 1..Len(r), k >= i
         PROVE  /\ k - (i - 1) \in 1..(Len(q) - i) /\ i + (k - (i - 1)) = k + 1
                /\ r[k] = c[k - (i - 1)]
    <2>1. k - (i - 1) \in 1..(Len(q) - i) /\ i + (k - (i - 1)) = k + 1 /\ ~ (k < i)
      BY <1>2, <1>10, <1>12
    <2> QED BY <1>10, <2>1
  <1>13. \A k \in 1..Len(r) : k >= i => r[k].h = q[k + 1].h
    BY <1>8, <1>12
  <1>14. \A k \in 1..Len(r) : k > i => r[k].time = q[k + 1].time
    <2>1. ASSUME NEW k \in 1..Len(r), k > i PROVE r[k].time = q[k + 1].time
      <3>1. k >= i /\ k - (i - 1) >= 2
        BY <1>2, <1>10, <2>1
      <3>2. /\ k - (i - 1) \in 1..(Len(q) - i) /\ i + (k - (i - 1)) = k + 1
            /\ r[k] = c[k - (i - 1)]
        BY <1>12, <3>1
      <3>3. k - (i - 1) \in 2..(Len(q) - i)
        BY <1>2, <3>1, <3>2
      <3> QED BY <1>8, <3>2, <3>3
    <2> QED BY <2>1
  <1>15. i < Len(q) => r[i].time = Plus(q[i + 1].time, q[i].time)
    <2>1. SUFFICES ASSUME i < Len(q) PROVE r[i].time = Plus(q[i + 1].time, q[i].time)
      OBVIOUS
    <2>2. i \in 1..Len(r) /\ i >= i /\ i - (i - 1) = 1
      BY <1>2, <1>10, <2>1
    <2>3. r[i] = c[1]
      BY <1>12, <2>2
    <2> QED BY <1>8, <2>1, <2>3
  <1> QED BY <1>1, <1>7, <1>9, <1>10, <1>11, <1>13, <1>14, <1>15

(* A time-out that is taken out is the only one that goes.                  *)
LEMMA StopFacts ==
    ASSUME OnceListed(next_timeout), NEW i \in 1..Len(next_timeout), sys_untimeout(i)
    PROVE  /\ OnceListed(next_timeout')
           /\ Listed(next_timeout') = Listed(next_timeout) \ {next_timeout[i].h}
  <1>1. PICK q, r : q = next_timeout /\ r = next_timeout'
    OBVIOUS
  <1>2. /\ OnceListed(q) /\ i \in 1..Len(q) /\ r \in Seq(TimeoutEntry) /\ Len(r) = Len(q) - 1
        /\ \A k \in 1..Len(r) : k < i => r[k].h = q[k].h
        /\ \A k \in 1..Len(r) : k >= i => r[k].h = q[k + 1].h
    BY <1>1, StopPlaces
  <1>3. OnceListed(r) /\ Listed(r) = Listed(q) \ {q[i].h}
    BY <1>2, OneLessListed
  <1> QED BY <1>1, <1>3

-----------------------------------------------------------------------------
Kinds == cyclic_timers \cup {"tcp"}

LEMMA KindsFacts ==
    /\ Kinds \subseteq Handlers /\ OneShots \subseteq Handlers
    /\ \A h \in OneShots : h \notin Kinds
    /\ "tcp" \notin cyclic_timers /\ \A h \in Kinds : h \in cyclic_timers \/ h = "tcp"
    /\ \A h \in Kinds : Interval[h] \in Times /\ \A m \in Msecs : m \in Times
  BY TimeoutsAssumption DEF Kinds, Handlers

(* The state after a step that leaves no handler running.                   *)
LEMMA Settles ==
    ASSUME OnceListed(next_timeout'), timeouts_last_time' \in Times, sys_now' \in Times,
           tcpip_tcp_timer_active' \in BOOLEAN, tcp_pcbs' \in BOOLEAN, input' = Idle,
           thread'.at \in {"again", "sleep", "check"},
           \A h \in Kinds : (h \in cyclic_timers \/ tcpip_tcp_timer_active')
                                <=> h \in Listed(next_timeout'),
           tcp_pcbs' => tcpip_tcp_timer_active'
    PROVE  TimeoutsIInv'
  <1>1. thread'.at # "handler"
    OBVIOUS
  <1>2. \A h \in Kinds : (h \in cyclic_timers \/ tcpip_tcp_timer_active')
                             <=> (h \in Listed(next_timeout') \/ HandlerOf(h)')
    BY <1>1 DEF HandlerOf
  <1> QED BY <1>1, <1>2 DEF TimeoutsIInv, Kinds

LEMMA ThreadCallsKeep ==
    ASSUME TimeoutsIInv, ThreadCalls, \A h \in Kinds : ~ HandlerOf(h),
           thread'.at \in {"again", "sleep", "check"}, sys_now' = sys_now, input' = input
    PROVE  TimeoutsIInv'
  <1>1. /\ OnceListed(next_timeout) /\ timeouts_last_time \in Times /\ sys_now \in Times
        /\ tcpip_tcp_timer_active \in BOOLEAN /\ tcp_pcbs \in BOOLEAN
        /\ sys_now' \in Times /\ input' = Idle
        /\ \A h \in Kinds : (h \in cyclic_timers \/ tcpip_tcp_timer_active)
                                <=> h \in Listed(next_timeout)
        /\ tcp_pcbs => tcpip_tcp_timer_active
    BY DEF TimeoutsIInv, Kinds
  <1>2. \A h \in Handlers : Scheduled(h) <=> h \in Listed(next_timeout)
    BY DEF Scheduled, Listed
  <1>3. ASSUME NEW h \in OneShots, NEW msecs \in Msecs, ~ Scheduled(h), Starts(h, msecs)
        PROVE  TimeoutsIInv'
    <2>1. h \in Handlers /\ h \notin Listed(next_timeout) /\ msecs \in Times /\ h \notin Kinds
      BY <1>2, <1>3, KindsFacts, TimeoutsAssumption
    <2>2. /\ sys_timeout(next_timeout, timeouts_last_time, h, msecs)
          /\ tcpip_tcp_timer_active' = tcpip_tcp_timer_active /\ tcp_pcbs' = tcp_pcbs
      BY <1>3 DEF Starts
    <2>3. /\ OnceListed(next_timeout') /\ Listed(next_timeout') = Listed(next_timeout) \cup {h}
          /\ timeouts_last_time' \in Times
      BY <1>1, <2>1, <2>2, StartFacts
    <2> QED BY <1>1, <2>1, <2>2, <2>3, Settles
  <1>4. ASSUME NEW h \in OneShots, Stops(h)
        PROVE  TimeoutsIInv'
    <2>1. PICK i \in 1..Len(next_timeout) : next_timeout[i].h = h /\ sys_untimeout(i)
      BY <1>4 DEF Stops
    <2>2. /\ timeouts_last_time' = timeouts_last_time
          /\ tcpip_tcp_timer_active' = tcpip_tcp_timer_active /\ tcp_pcbs' = tcp_pcbs
      BY <1>4 DEF Stops
    <2>3. OnceListed(next_timeout') /\ Listed(next_timeout') = Listed(next_timeout) \ {h}
      BY <1>1, <2>1, StopFacts
    <2>4. h \notin Kinds
      BY <1>4, KindsFacts
    <2> QED BY <1>1, <2>2, <2>3, <2>4, Settles
  <1>5. ASSUME tcp_timer_needed
        PROVE  TimeoutsIInv'
    <2>1. CASE tcpip_tcp_timer_active
      <3>1. /\ next_timeout' = next_timeout /\ timeouts_last_time' = timeouts_last_time
            /\ tcpip_tcp_timer_active' = tcpip_tcp_timer_active /\ tcp_pcbs' = TRUE
        BY <1>5, <2>1 DEF tcp_timer_needed
      <3> QED BY <1>1, <2>1, <3>1, Settles
    <2>2. CASE ~ tcpip_tcp_timer_active
      <3>1. /\ sys_timeout(next_timeout, timeouts_last_time, "tcp", Interval["tcp"])
            /\ tcpip_tcp_timer_active' = TRUE /\ tcp_pcbs' = TRUE
        BY <1>5, <2>2 DEF tcp_timer_needed
      <3>2. "tcp" \in Kinds /\ "tcp" \in Handlers
        BY DEF Kinds, Handlers
      <3>3. "tcp" \notin Listed(next_timeout) /\ Interval["tcp"] \in Times
        BY <1>1, <2>2, <3>2, KindsFacts
      <3>4. /\ OnceListed(next_timeout') /\ Listed(next_timeout') = Listed(next_timeout) \cup {"tcp"}
            /\ timeouts_last_time' \in Times
        BY <1>1, <3>1, <3>2, <3>3, StartFacts
      <3>5. \A h \in Kinds : h \in Listed(next_timeout')
        BY <1>1, <3>4, KindsFacts
      <3> QED BY <1>1, <3>1, <3>4, <3>5, Settles
    <2> QED BY <2>1, <2>2
  <1>6. ASSUME tcp_pcbs' = FALSE,
               UNCHANGED <<next_timeout, timeouts_last_time, tcpip_tcp_timer_active>>
        PROVE  TimeoutsIInv'
    BY <1>1, <1>6, Settles
  <1> QED BY <1>3, <1>4, <1>5, <1>6 DEF ThreadCalls

LEMMA PopKeeps ==
    ASSUME TimeoutsIInv, CheckPops
    PROVE  TimeoutsIInv'
  <1>1. /\ OnceListed(next_timeout) /\ timeouts_last_time \in Times /\ sys_now \in Times
        /\ tcpip_tcp_timer_active \in BOOLEAN /\ tcp_pcbs \in BOOLEAN /\ thread.at = "check"
        /\ sys_now' = sys_now /\ input' = Idle /\ tcp_pcbs' = tcp_pcbs
        /\ tcpip_tcp_timer_active' = tcpip_tcp_timer_active
        /\ tcp_pcbs => tcpip_tcp_timer_active
    BY DEF TimeoutsIInv, CheckPops
  <1>2. \A h \in Kinds : (h \in cyclic_timers \/ tcpip_tcp_timer_active)
                             <=> h \in Listed(next_timeout)
    BY <1>1 DEF TimeoutsIInv, Kinds, HandlerOf
  <1>3. CASE next_timeout # <<>> /\ next_timeout[1].time <= thread.diff
    <2>1. PICK q, e : q = next_timeout /\ e = q[1]
      OBVIOUS
    <2>2. /\ timeouts_last_time' = Plus(timeouts_last_time, e.time) /\ next_timeout' = Tail(q)
          /\ thread' = InHandler(e.h, thread.diff - e.time)
      BY <1>3, <2>1 DEF CheckPops
    <2>3. q \in Seq(TimeoutEntry) /\ OnceListed(q) /\ q # <<>>
      BY <1>1, <1>3, <2>1 DEF OnceListed
    <2>4. 1 \in 1..Len(q) /\ Len(q) \in Nat
      BY <2>3
    <2>5. e.h \in Handlers /\ e.time \in Times /\ e.h \in Listed(q)
      BY <2>1, <2>3, <2>4, ListFacts DEF Listed
    <2>6. PICK r : r = Tail(q)
      OBVIOUS
    <2>7. /\ r \in Seq(TimeoutEntry) /\ Len(r) = Len(q) - 1
          /\ \A k \in 1..Len(r) : r[k] = q[k + 1]
      BY <2>3, <2>6
    <2>8. \A k \in 1..Len(r) : ~ (k < 1) /\ r[k].h = q[k + 1].h
      BY <2>4, <2>7
    <2>9. OnceListed(r) /\ Listed(r) = Listed(q) \ {e.h}
      BY <2>1, <2>3, <2>4, <2>7, <2>8, OneLessListed
    <2>10. timeouts_last_time' \in Times
      <3>1. timeouts_last_time \in Int /\ e.time \in Int
        BY <1>1, <2>5, TimesFacts
      <3> QED BY <2>2, <3>1, TimesFacts
    <2>11. thread'.at = "handler" /\ thread'.h = e.h
      BY <2>2 DEF InHandler
    <2>12. \A h \in Kinds : (h \in Listed(next_timeout') \/ HandlerOf(h)') <=> h \in Listed(q)
      BY <2>2, <2>5, <2>6, <2>9, <2>11 DEF HandlerOf
    <2>13. thread'.h \in Handlers \ Listed(next_timeout')
      BY <2>2, <2>5, <2>6, <2>9, <2>11
    <2>14. OnceListed(next_timeout')
      BY <2>2, <2>6, <2>9
    <2> QED BY <1>1, <1>2, <2>1, <2>10, <2>11, <2>12, <2>13, <2>14 DEF TimeoutsIInv, Kinds
  <1>4. CASE ~ (next_timeout # <<>> /\ next_timeout[1].time <= thread.diff)
    <2>1. /\ thread' = Again /\ next_timeout' = next_timeout
          /\ timeouts_last_time' = timeouts_last_time
      BY <1>4 DEF CheckPops
    <2>2. thread'.at \in {"again", "sleep", "check"}
      BY <2>1 DEF Again
    <2> QED BY <1>1, <1>2, <2>1, <2>2, Settles
  <1> QED BY <1>3, <1>4

LEMMA HandlerKeeps ==
    ASSUME TimeoutsIInv, HandlerRuns
    PROVE  TimeoutsIInv'
  <1>1. /\ OnceListed(next_timeout) /\ timeouts_last_time \in Times /\ sys_now \in Times
        /\ tcpip_tcp_timer_active \in BOOLEAN /\ tcp_pcbs \in BOOLEAN
        /\ thread.h \in Handlers /\ thread.h \notin Listed(next_timeout)
        /\ sys_now' = sys_now /\ sys_now' \in Times /\ input' = input /\ input' = Idle
        /\ tcp_pcbs => tcpip_tcp_timer_active
    BY DEF TimeoutsIInv, HandlerRuns
  <1>2. thread'.at \in {"again", "sleep", "check"}
    BY DEF HandlerRuns, Checking
  <1>3. \A h \in Kinds : (h \in cyclic_timers \/ tcpip_tcp_timer_active)
                             <=> (h \in Listed(next_timeout) \/ h = thread.h)
    BY DEF TimeoutsIInv, Kinds, HandlerOf, HandlerRuns
  <1>4. CASE thread.h = "tcp" /\ tcpip_tcp_timer
    <2>1. PICK some \in BOOLEAN :
             /\ tcp_pcbs' = some
             /\ IF some
                THEN /\ sys_timeout(next_timeout, timeouts_last_time, "tcp", Interval["tcp"])
                     /\ UNCHANGED tcpip_tcp_timer_active
                ELSE /\ tcpip_tcp_timer_active' = FALSE
                     /\ UNCHANGED <<next_timeout, timeouts_last_time>>
      BY <1>4 DEF tcpip_tcp_timer
    <2>2. "tcp" \in Kinds /\ "tcp" \in Handlers /\ "tcp" \notin Listed(next_timeout)
      BY <1>1, <1>4 DEF Kinds, Handlers
    <2>3. tcpip_tcp_timer_active
      BY <1>3, <1>4, <2>2, KindsFacts
    <2>4. CASE some
      <3>1. /\ sys_timeout(next_timeout, timeouts_last_time, "tcp", Interval["tcp"])
            /\ tcpip_tcp_timer_active' = tcpip_tcp_timer_active
        BY <2>1, <2>4
      <3>2. Interval["tcp"] \in Times
        BY <2>2, KindsFacts
      <3>3. /\ OnceListed(next_timeout') /\ Listed(next_timeout') = Listed(next_timeout) \cup {"tcp"}
            /\ timeouts_last_time' \in Times
        BY <1>1, <2>2, <3>1, <3>2, StartFacts
      <3>4. \A h \in Kinds : h \in Listed(next_timeout')
        BY <1>3, <1>4, <2>3, <3>3
      <3> QED BY <1>1, <1>2, <2>1, <2>3, <3>1, <3>3, <3>4, Settles
    <2>5. CASE ~ some
      <3>1. /\ tcpip_tcp_timer_active' = FALSE /\ next_timeout' = next_timeout
            /\ timeouts_last_time' = timeouts_last_time /\ tcp_pcbs' = FALSE
        BY <2>1, <2>5
      <3>2. \A h \in Kinds : h \in cyclic_timers <=> h \in Listed(next_timeout)
        BY <1>3, <1>4, <2>2, <2>3, KindsFacts
      <3> QED BY <1>1, <1>2, <3>1, <3>2, Settles
    <2> QED BY <2>4, <2>5
  <1>5. CASE thread.h \in cyclic_timers /\ cyclic_timer(thread.h)
    <2>1. PICK h : h = thread.h
      OBVIOUS
    <2>2. /\ sys_timeout(next_timeout, timeouts_last_time, h, Interval[h])
          /\ tcpip_tcp_timer_active' = tcpip_tcp_timer_active /\ tcp_pcbs' = tcp_pcbs
      BY <1>5, <2>1 DEF cyclic_timer
    <2>3. h \in Handlers /\ h \notin Listed(next_timeout) /\ h \in Kinds
      BY <1>1, <1>5, <2>1 DEF Kinds
    <2>4. Interval[h] \in Times
      BY <2>3, KindsFacts
    <2>5. /\ OnceListed(next_timeout') /\ Listed(next_timeout') = Listed(next_timeout) \cup {h}
          /\ timeouts_last_time' \in Times
      BY <1>1, <2>2, <2>3, <2>4, StartFacts
    <2>6. \A g \in Kinds : (g \in cyclic_timers \/ tcpip_tcp_timer_active')
                               <=> g \in Listed(next_timeout')
      BY <1>3, <2>1, <2>2, <2>5
    <2> QED BY <1>1, <1>2, <2>2, <2>5, <2>6, Settles
  <1>6. CASE thread.h \in OneShots /\ ThreadCalls
    <2>1. \A h \in Kinds : ~ HandlerOf(h)
      BY <1>6, KindsFacts DEF HandlerOf
    <2> QED BY <1>1, <1>2, <1>6, <2>1, ThreadCallsKeep
  <1> QED BY <1>4, <1>5, <1>6 DEF HandlerRuns

(* The clock, the waits and the messages.                                   *)
LEMMA WaitKeeps ==
    ASSUME TimeoutsIInv, FetchBegins \/ FetchTimesOut
    PROVE  TimeoutsIInv'
  <1>1. /\ OnceListed(next_timeout) /\ timeouts_last_time \in Times /\ sys_now \in Times
        /\ tcpip_tcp_timer_active \in BOOLEAN /\ tcp_pcbs \in BOOLEAN /\ input = Idle
        /\ tcp_pcbs => tcpip_tcp_timer_active
    BY DEF TimeoutsIInv
  <1>2. /\ UNCHANGED <<next_timeout, timeouts_last_time, sys_now,
                       tcpip_tcp_timer_active, tcp_pcbs, input>>
        /\ thread.at # "handler" /\ thread'.at \in {"again", "sleep", "check"}
    BY DEF FetchBegins, FetchTimesOut, Again, Checking, SleepUntil
  <1>3. \A h \in Kinds : (h \in cyclic_timers \/ tcpip_tcp_timer_active)
                             <=> h \in Listed(next_timeout)
    BY <1>2 DEF TimeoutsIInv, Kinds, HandlerOf
  <1> QED BY <1>1, <1>2, <1>3, Settles

LEMMA MessageKeeps ==
    ASSUME TimeoutsIInv, FetchGetsMessage
    PROVE  TimeoutsIInv'
  <1>1. /\ ThreadCalls /\ sys_now' = sys_now /\ input' = input
        /\ thread.at # "handler" /\ thread'.at \in {"again", "sleep", "check"}
    BY DEF FetchGetsMessage, Again
  <1>2. \A h \in Kinds : ~ HandlerOf(h)
    BY <1>1 DEF HandlerOf
  <1> QED BY <1>1, <1>2, ThreadCallsKeep

LEMMA ClockKeeps ==
    ASSUME TimeoutsIInv, ClockAdvances
    PROVE  TimeoutsIInv'
  <1>1. sys_now' \in Times
    <2>1. sys_now \in Int /\ 1 \in Int
      BY TimesFacts DEF TimeoutsIInv
    <2> QED BY <2>1, TimesFacts DEF ClockAdvances
  <1>2. /\ next_timeout' = next_timeout /\ timeouts_last_time' = timeouts_last_time
        /\ tcpip_tcp_timer_active' = tcpip_tcp_timer_active /\ tcp_pcbs' = tcp_pcbs
        /\ thread' = thread /\ input' = input
    BY DEF ClockAdvances
  <1> QED BY <1>1, <1>2 DEF TimeoutsIInv, HandlerOf

-----------------------------------------------------------------------------
LEMMA TimeoutsStart == TimeoutsInit => TimeoutsIInv
  <1> SUFFICES ASSUME TimeoutsInit PROVE TimeoutsIInv
    OBVIOUS
  <1>1. PICK n : n = Cardinality(cyclic_timers)
    OBVIOUS
  <1>2. n \in Nat
    BY <1>1, TimeoutsAssumption, FS_CardinalityType
  <1>3. PICK order \in [1..n -> cyclic_timers] :
          /\ \A i, j \in DOMAIN order :
                /\ order[i] = order[j] => i = j
                /\ i < j => Interval[order[i]] <= Interval[order[j]]
          /\ next_timeout = [i \in DOMAIN order |->
                [h |-> order[i],
                 time |-> Interval[order[i]]
                          - (IF i = 1 THEN 0 ELSE Interval[order[i - 1]])]]
    BY <1>1 DEF TimeoutsInit
  <1>4. DOMAIN order = 1..n /\ \A i \in 1..n : order[i] \in cyclic_timers
    BY <1>3
  <1>5. \A h \in cyclic_timers : Interval[h] \in Times /\ Interval[h] \in Nat /\ h \in Handlers
    BY TimesFacts, TimeoutsAssumption DEF Handlers
  <1>6. PICK f : f = [i \in 1..n |-> Interval[order[i]] - (IF i = 1 THEN 0 ELSE Interval[order[i - 1]])]
    OBVIOUS
  <1>7. ASSUME NEW i \in 1..n PROVE f[i] \in Times
    <2>1. Interval[order[i]] \in Times /\ Interval[order[i]] \in Nat
      BY <1>4, <1>5
    <2>2. CASE i = 1
      <3>1. f[i] = Interval[order[i]]
        BY <1>6, <2>1, <2>2
      <3> QED BY <2>1, <3>1
    <2>3. CASE i # 1
      <3>1. i - 1 \in 1..n /\ i - 1 < i
        BY <1>2, <2>3
      <3>2. Interval[order[i - 1]] \in Nat
        BY <1>4, <1>5, <3>1
      <3>3. Interval[order[i - 1]] <= Interval[order[i]]
        BY <1>3, <1>4, <3>1
      <3>4. f[i] = Interval[order[i]] - Interval[order[i - 1]]
        BY <1>6, <2>3
      <3>5. ClockModulus \in Nat
        BY TimeoutsAssumption
      <3> QED BY <2>1, <3>2, <3>3, <3>4, <3>5 DEF Times
    <2> QED BY <2>2, <2>3
  <1>8. PICK q : q = [i \in 1..n |-> [h |-> order[i], time |-> f[i]]]
    OBVIOUS
  <1>9. next_timeout = q
    BY <1>3, <1>4, <1>6, <1>8
  <1>10. \A i \in 1..n : q[i] \in TimeoutEntry /\ q[i].h = order[i]
    <2>1. ASSUME NEW i \in 1..n PROVE q[i] \in TimeoutEntry /\ q[i].h = order[i]
      <3>1. order[i] \in Handlers /\ f[i] \in Times /\ q[i] = [h |-> order[i], time |-> f[i]]
        BY <1>4, <1>5, <1>7, <1>8
      <3> QED BY <3>1 DEF TimeoutEntry
    <2> QED BY <2>1
  <1>11. q \in Seq(TimeoutEntry) /\ Len(q) = n
    <2>1. q \in [1..n -> TimeoutEntry]
      BY <1>8, <1>10
    <2> QED BY <1>2, <2>1
  <1>12. OnceListed(q)
    <2>1. \A i, j \in 1..n : q[i].h = q[j].h => order[i] = order[j]
      BY <1>10
    <2>2. \A i, j \in 1..n : order[i] = order[j] => i = j
      BY <1>3, <1>4
    <2> QED BY <1>11, <2>1, <2>2 DEF OnceListed, OneEach
  <1>13. Range(order) = cyclic_timers
    <2>1. order \in Seq(cyclic_timers) /\ Len(order) = n
      BY <1>2
    <2>2. IsInjective(order)
      BY <1>3 DEF IsInjective
    <2>3. Cardinality(Range(order)) = n
      BY <2>1, <2>2, RangeCount
    <2>4. Range(order) \in SUBSET cyclic_timers
      BY <1>4 DEF Range
    <2> QED BY <1>1, <2>3, <2>4, TimeoutsAssumption, FS_Subset
  <1>14. Listed(q) = cyclic_timers
    BY <1>4, <1>10, <1>11, <1>13 DEF Listed, Range
  <1>15. /\ timeouts_last_time \in Times /\ sys_now \in Times
         /\ tcpip_tcp_timer_active = FALSE /\ tcp_pcbs = FALSE
         /\ thread = Again /\ input = Idle
    BY TimesFacts DEF TimeoutsInit
  <1>16. thread.at = "again"
    BY <1>15 DEF Again
  <1>17. \A h \in Kinds : h \in cyclic_timers <=> h \in Listed(next_timeout) \/ HandlerOf(h)
    BY <1>9, <1>14, <1>16 DEF HandlerOf
  <1> QED BY <1>9, <1>12, <1>15, <1>16, <1>17 DEF TimeoutsIInv, Kinds

LEMMA TimeoutsKeep == TimeoutsIInv /\ [TimeoutsNext]_timeoutVars => TimeoutsIInv'
  <1> SUFFICES ASSUME TimeoutsIInv, [TimeoutsNext]_timeoutVars PROVE TimeoutsIInv'
    OBVIOUS
  <1>1. CASE UNCHANGED timeoutVars
    BY <1>1 DEF timeoutVars, TimeoutsIInv, HandlerOf
  <1> QED BY <1>1, ClockKeeps, WaitKeeps, MessageKeeps, PopKeeps, HandlerKeeps DEF TimeoutsNext

LEMMA TimeoutsIInvSuffices == TimeoutsIInv => NoTimerLost
  <1> SUFFICES ASSUME TimeoutsIInv PROVE NoTimerLost
    OBVIOUS
  <1>1. \A i \in 1..Len(next_timeout) : next_timeout[i] \in TimeoutEntry
    BY ListFacts DEF TimeoutsIInv, OnceListed
  <1>2. TimeoutsTypeOK
    BY <1>1 DEF TimeoutsIInv, TimeoutsTypeOK, TimeoutEntry
  <1>3. \A h \in Kinds : (h \in cyclic_timers \/ tcpip_tcp_timer_active)
                             <=> (Scheduled(h) \/ (thread.at = "handler" /\ thread.h = h))
    BY DEF TimeoutsIInv, Kinds, Scheduled, Listed, HandlerOf
  <1> QED BY <1>2, <1>3 DEF TimeoutsIInv, NoTimerLost, OnceListed, OneEach, Kinds

(* Every cyclic timer is in the list once or its handler runs, and the TCP  *)
(* timer runs while there is a connection, however connections open and     *)
(* close around its handler (timeouts.c:123-157).                           *)
THEOREM TimersNeverLost == TimeoutsSpec => []NoTimerLost
  BY TimeoutsStart, TimeoutsKeep, TimeoutsIInvSuffices, PTL DEF TimeoutsSpec

-----------------------------------------------------------------------------
(* Time-outs: when they end.                                                *)
(* The delays that time-outs are started with. *)
Delays == Msecs \cup {Interval[h] : h \in Kinds}

(* A delay that is asked for now, however late the thread is, counts less   *)
(* than a round of the clock from timeouts_last_time, and so does whatever  *)
(* is in the list.                                                          *)
SumsFit ==
    \A i \in 0..Len(next_timeout) : \A m \in Delays :
        Until(next_timeout, i) + MaxLate + m < ClockModulus

(* With one time-out in the list, a handler that starts it again finds the  *)
(* list empty and starts it from now: what sys_check_timeouts has left of   *)
(* the difference is then from before, but nobody else is in the list.      *)
TimeIInv ==
    /\ next_timeout # <<>> => Late <= next_timeout[1].time + MaxLate
    /\ thread.at \in {"check", "handler"} => thread.diff \in Nat
    /\ thread.at = "check" => thread.diff <= Late \/ Len(next_timeout) <= 1
    /\ thread.at = "handler" => thread.diff <= Late \/ next_timeout = <<>>
    /\ thread.at = "sleep" =>
          /\ next_timeout # <<>>
          /\ thread.wake = Plus(timeouts_last_time, next_timeout[1].time)

LEMMA RoundFacts ==
    ASSUME NEW a \in Times, NEW b \in Times
    PROVE  /\ Minus(a, b) = IF b <= a THEN a - b ELSE a - b + ClockModulus
           /\ Plus(a, b) = IF a + b < ClockModulus THEN a + b ELSE a + b - ClockModulus
           /\ Minus(a, b) \in Times /\ Plus(a, b) \in Times
           /\ a \in Nat /\ b \in Nat /\ a < ClockModulus /\ b < ClockModulus
           /\ ClockModulus \in Nat /\ ClockModulus > 0
  <1>1. ClockModulus \in Nat /\ ClockModulus > 0
    BY TimeoutsAssumption
  <1>2. a \in Nat /\ b \in Nat /\ a < ClockModulus /\ b < ClockModulus
    BY <1>1 DEF Times
  <1>3. (a + b) % ClockModulus = IF a + b < ClockModulus THEN a + b ELSE a + b - ClockModulus
    <2>1. CASE a + b < ClockModulus
      <3>1. (a + b) % ClockModulus = a + b
        BY <1>1, <1>2, <2>1
      <3> QED BY <2>1, <3>1
    <2>2. CASE ~ (a + b < ClockModulus)
      <3>1. (a + b) % ClockModulus = a + b - ClockModulus
        BY <1>1, <1>2, <2>2
      <3> QED BY <2>2, <3>1
    <2> QED BY <2>1, <2>2
  <1>4. (a - b) % ClockModulus = IF b <= a THEN a - b ELSE a - b + ClockModulus
    <2>1. CASE b <= a
      <3>1. (a - b) % ClockModulus = a - b
        BY <1>1, <1>2, <2>1
      <3> QED BY <2>1, <3>1
    <2>2. CASE ~ (b <= a)
      <3>1. (a - b) % ClockModulus = a - b + ClockModulus
        BY <1>1, <1>2, <2>2
      <3> QED BY <2>2, <3>1
    <2> QED BY <2>1, <2>2
  <1>5. Minus(a, b) \in Times /\ Plus(a, b) \in Times
    BY <1>2, TimesFacts
  <1> QED BY <1>1, <1>2, <1>3, <1>4, <1>5 DEF Minus, Plus

(* Removing the first entry moves the start of the list as far as its time. *)
LEMMA LatePops ==
    ASSUME NEW now \in Times, NEW last \in Times, NEW t \in Times, t <= Minus(now, last)
    PROVE  Minus(now, Plus(last, t)) = Minus(now, last) - t
  <1>1. PICK next : next = Plus(last, t)
    OBVIOUS
  <1>2. next \in Times /\ next = IF last + t < ClockModulus THEN last + t ELSE last + t - ClockModulus
    BY <1>1, RoundFacts
  <1>3. /\ Minus(now, last) = IF last <= now THEN now - last ELSE now - last + ClockModulus
        /\ Minus(now, next) = IF next <= now THEN now - next ELSE now - next + ClockModulus
        /\ now < ClockModulus /\ last < ClockModulus /\ t < ClockModulus /\ next < ClockModulus
        /\ now \in Nat /\ last \in Nat /\ t \in Nat /\ next \in Nat /\ ClockModulus \in Nat
    BY <1>2, RoundFacts
  <1>4. Minus(now, next) = Minus(now, last) - t
    BY <1>2, <1>3
  <1> QED BY <1>1, <1>4

(* While the clock is not a whole round past timeouts_last_time, an advance *)
(* makes the thread later by one.                                           *)
LEMMA LateGrows ==
    ASSUME NEW now \in Times, NEW last \in Times, Minus(now, last) + 1 < ClockModulus
    PROVE  Minus(Plus(now, 1), last) = Minus(now, last) + 1
  <1>1. 1 \in Times
    <2>1. ClockModulus \in Nat /\ Minus(now, last) \in Nat
      BY RoundFacts, TimesFacts
    <2> QED BY <2>1 DEF Times
  <1>2. PICK next : next = Plus(now, 1)
    OBVIOUS
  <1>3. next \in Times /\ next = IF now + 1 < ClockModulus THEN now + 1 ELSE now + 1 - ClockModulus
    <2>1. PICK one : one = 1
      OBVIOUS
    <2>2. one \in Times
      BY <1>1, <2>1
    <2>3. /\ Plus(now, one) \in Times
          /\ Plus(now, one) = IF now + one < ClockModulus THEN now + one
                              ELSE now + one - ClockModulus
      BY <2>2, RoundFacts
    <2> QED BY <1>2, <2>1, <2>3
  <1>4. /\ Minus(now, last) = IF last <= now THEN now - last ELSE now - last + ClockModulus
        /\ Minus(next, last) = IF last <= next THEN next - last ELSE next - last + ClockModulus
        /\ now < ClockModulus /\ last < ClockModulus /\ next < ClockModulus
        /\ now \in Nat /\ last \in Nat /\ next \in Nat /\ ClockModulus \in Nat
    BY <1>3, RoundFacts
  <1>5. Minus(next, last) = Minus(now, last) + 1
    BY <1>3, <1>4
  <1> QED BY <1>2, <1>5

(* The wake time, seen from now. *)
LEMMA WakeSeen ==
    ASSUME NEW now \in Times, NEW last \in Times, NEW t \in Times
    PROVE  LET late == Minus(now, last)
           IN  /\ late <= t => Minus(Plus(last, t), now) = t - late
               /\ late <= t => Plus(now, t - late) = Plus(last, t)
               /\ late \in Nat /\ t \in Nat
  <1>1. PICK wake, late : wake = Plus(last, t) /\ late = Minus(now, last)
    OBVIOUS
  <1>2. wake \in Times /\ wake = IF last + t < ClockModulus THEN last + t ELSE last + t - ClockModulus
    BY <1>1, RoundFacts
  <1>3. /\ late = IF last <= now THEN now - last ELSE now - last + ClockModulus
        /\ Minus(wake, now) = IF now <= wake THEN wake - now ELSE wake - now + ClockModulus
        /\ now < ClockModulus /\ last < ClockModulus /\ t < ClockModulus /\ wake < ClockModulus
        /\ now \in Nat /\ last \in Nat /\ t \in Nat /\ wake \in Nat /\ ClockModulus \in Nat
        /\ late \in Nat
    BY <1>1, <1>2, RoundFacts
  <1>4. late <= t => Minus(wake, now) = t - late
    BY <1>2, <1>3
  <1>5. ASSUME late <= t PROVE Plus(now, t - late) = wake
    <2>1. t - late \in Times
      BY <1>3, <1>5 DEF Times
    <2>2. Plus(now, t - late) = IF now + (t - late) < ClockModulus THEN now + (t - late)
                                ELSE now + (t - late) - ClockModulus
      BY <2>1, RoundFacts
    <2> QED BY <1>2, <1>3, <1>5, <2>2
  <1> QED BY <1>1, <1>3, <1>4, <1>5

(* Sums that grow alike stay apart by the same. *)
LEMMA GrowAlike ==
    ASSUME NEW n \in Nat, NEW a, NEW b, \A k \in 0..n : a[k] \in Int /\ b[k] \in Int,
           \A k \in 1..n : a[k] - a[k - 1] = b[k] - b[k - 1]
    PROVE  a[n] - b[n] = a[0] - b[0]
  <1>1. PICK d : d = a[0] - b[0]
    OBVIOUS
  <1>2. PICK f : f = [k \in 0..n |-> a[k] - b[k]]
    OBVIOUS
  <1>3. f[0] \in {d}
    BY <1>1, <1>2
  <1>4. ASSUME NEW k \in 1..n, f[k - 1] \in {d} PROVE f[k] \in {d}
    <2>1. k \in 0..n /\ k - 1 \in 0..n
      OBVIOUS
    <2>2. f[k] = a[k] - b[k] /\ f[k - 1] = a[k - 1] - b[k - 1]
      BY <1>2, <2>1
    <2>3. a[k] \in Int /\ b[k] \in Int /\ a[k - 1] \in Int /\ b[k - 1] \in Int
      BY <2>1
    <2>4. f[k] = f[k - 1]
      BY <2>2, <2>3
    <2> QED BY <1>4, <2>4
  <1>5. f[n] \in {d}
    <2>1. PICK D : D = {d}
      OBVIOUS
    <2>2. f[0] \in D /\ \A k \in 1..n : f[k - 1] \in D => f[k] \in D
      BY <1>3, <1>4, <2>1
    <2>3. f[n] \in D
      BY <2>2, HoldsAlong
    <2> QED BY <2>1, <2>3
  <1>6. f[n] = a[n] - b[n]
    BY <1>2
  <1> QED BY <1>1, <1>5, <1>6

LEMMA UntilSums ==
    ASSUME NEW q \in Seq(TimeoutEntry)
    PROVE  /\ Until(q, 0) = 0
           /\ \A i \in 0..Len(q) : Until(q, i) \in Nat
           /\ \A i \in 1..Len(q) : Until(q, i) = Until(q, i - 1) + q[i].time
  <1>1. Len(q) \in Nat /\ \A k \in 1..Len(q) : q[k].time \in Nat
    BY ListFacts
  <1>2. Until(q, 0) = 0
    <2>1. 0 \in 0..Len(q)
      BY <1>1
    <2>2. \E f \in [0..0 -> Int] : f[0] = 0 /\ f[0] = Until(q, 0)
      BY <2>1, SumExists
    <2> QED BY <2>2
  <1>3. ASSUME NEW i \in 1..Len(q) PROVE Until(q, i) = Until(q, i - 1) + q[i].time
    <2>1. PICK m : m = i - 1
      OBVIOUS
    <2>2. m \in 0..Len(q) /\ i \in 0..Len(q) /\ m \in Nat /\ i = m + 1 /\ i \in Nat
      BY <1>1, <2>1
    <2>3. PICK a \in [0..i -> Int] : /\ a[0] = 0 /\ a[i] = Until(q, i)
                                   /\ \A k \in 1..i : a[k] = a[k - 1] + q[k].time
      BY <2>2, SumExists
    <2>4. PICK b \in [0..m -> Int] : /\ b[0] = 0 /\ b[m] = Until(q, m)
                                   /\ \A k \in 1..m : b[k] = b[k - 1] + q[k].time
      BY <2>2, SumExists
    <2>5. \A k \in 0..m : a[k] \in Int /\ b[k] \in Int
      BY <2>2, <2>3, <2>4
    <2>6. ASSUME NEW k \in 1..m PROVE a[k] - a[k - 1] = b[k] - b[k - 1]
      <3>1. k \in 1..i /\ k \in 0..m /\ k - 1 \in 0..m /\ k \in 1..Len(q)
        BY <1>1, <2>2
      <3>2. q[k].time \in Int
        BY <1>1, <3>1
      <3>4. a[k] = a[k - 1] + q[k].time
        BY <2>3, <3>1
      <3>5. b[k] = b[k - 1] + q[k].time
        BY <2>4
      <3>3. a[k - 1] \in Int /\ b[k - 1] \in Int
        BY <2>5, <3>1
      <3> QED BY <3>2, <3>3, <3>4, <3>5
    <2>7. a[m] - b[m] = a[0] - b[0]
      <3>1. m \in Nat
        BY <2>2
      <3> QED BY <2>5, <2>6, <3>1, GrowAlike
    <2>8. a[m] = Until(q, m)
      <3>1. a[m] \in Int /\ b[m] \in Int
        BY <2>2, <2>5
      <3> QED BY <2>3, <2>4, <2>7, <3>1
    <2>9. a[i] = a[i - 1] + q[i].time
      <3>1. i \in 1..i
        BY <2>2
      <3> QED BY <2>3, <3>1
    <2> QED BY <2>1, <2>3, <2>8, <2>9
  <1>4. ASSUME NEW i \in 0..Len(q) PROVE Until(q, i) \in Nat
    <2>1. PICK f : f = [k \in 0..i |-> Until(q, k)]
      OBVIOUS
    <2>2. f[0] \in Nat /\ i \in Nat
      BY <1>1, <1>2, <2>1
    <2>3. ASSUME NEW k \in 1..i, f[k - 1] \in Nat PROVE f[k] \in Nat
      <3>1. k \in 1..Len(q) /\ k \in 0..i /\ k - 1 \in 0..i
        BY <1>1, <2>2
      <3>2. Until(q, k) = Until(q, k - 1) + q[k].time /\ q[k].time \in Nat
        BY <1>1, <1>3, <3>1
      <3>3. f[k] = Until(q, k) /\ f[k - 1] = Until(q, k - 1)
        BY <2>1, <3>1
      <3> QED BY <2>3, <3>2, <3>3
    <2>4. f[i] \in Nat
      BY <2>2, <2>3, HoldsAlong
    <2> QED BY <2>1, <2>2, <2>4
  <1> QED BY <1>2, <1>3, <1>4

(* A later entry of a list is counted from further on. *)
LEMMA SumsGrow ==
    ASSUME NEW q \in Seq(TimeoutEntry), NEW j \in 0..Len(q), NEW i \in 0..j
    PROVE  Until(q, i) <= Until(q, j)
  <1>1. Len(q) \in Nat /\ \A k \in 1..Len(q) : q[k].time \in Nat
    BY ListFacts
  <1>2. PICK n, f : n = j - i /\ f = [k \in 0..n |-> Until(q, i + k)]
    OBVIOUS
  <1>3. n \in Nat /\ i \in Nat /\ j = i + n
    BY <1>1, <1>2
  <1>4. PICK D : D = {x \in Nat : Until(q, i) <= x}
    OBVIOUS
  <1>5. Until(q, i) \in Nat
    <2>1. i \in 0..Len(q)
      BY <1>1
    <2> QED BY <2>1, UntilSums
  <1>6. f[0] \in D
    BY <1>2, <1>3, <1>4, <1>5
  <1>7. ASSUME NEW k \in 1..n, f[k - 1] \in D PROVE f[k] \in D
    <2>1. k \in 0..n /\ k - 1 \in 0..n /\ i + k \in 1..Len(q) /\ i + (k - 1) = (i + k) - 1
      BY <1>1, <1>3
    <2>2. f[k] = Until(q, i + k) /\ f[k - 1] = Until(q, i + (k - 1))
      BY <1>2, <2>1
    <2>3. Until(q, i + k) = Until(q, (i + k) - 1) + q[i + k].time
      BY <2>1, UntilSums
    <2>4. f[k] = f[k - 1] + q[i + k].time /\ q[i + k].time \in Nat
      BY <1>1, <2>1, <2>2, <2>3
    <2> QED BY <1>4, <1>5, <1>7, <2>4
  <1>8. f[n] \in D
    BY <1>3, <1>6, <1>7, HoldsAlong
  <1>9. f[n] = Until(q, j)
    BY <1>2, <1>3
  <1> QED BY <1>4, <1>8, <1>9

(* Two lists whose times are the same from some place on. *)
LEMMA SameBehind ==
    ASSUME NEW q \in Seq(TimeoutEntry), NEW r \in Seq(TimeoutEntry),
           NEW a \in 0..Len(q), NEW b \in 0..Len(r), NEW n \in Nat,
           a + n <= Len(q), b + n <= Len(r),
           \A k \in 1..n : r[b + k].time = q[a + k].time
    PROVE  Until(r, b + n) - Until(q, a + n) = Until(r, b) - Until(q, a)
  <1>1. /\ Len(q) \in Nat /\ \A k \in 1..Len(q) : q[k].time \in Nat
        /\ Len(r) \in Nat /\ \A k \in 1..Len(r) : r[k].time \in Nat
        /\ a \in Nat /\ b \in Nat
    BY ListFacts
  <1>2. PICK f, g : f = [k \in 0..n |-> Until(r, b + k)] /\ g = [k \in 0..n |-> Until(q, a + k)]
    OBVIOUS
  <1>3. ASSUME NEW k \in 0..n
        PROVE  /\ f[k] = Until(r, b + k) /\ g[k] = Until(q, a + k)
               /\ f[k] \in Int /\ g[k] \in Int
    <2>1. b + k \in 0..Len(r) /\ a + k \in 0..Len(q)
      BY <1>1
    <2> QED BY <1>2, <2>1, UntilSums
  <1>4. ASSUME NEW k \in 1..n PROVE f[k] - f[k - 1] = g[k] - g[k - 1]
    <2>1. /\ k \in 0..n /\ k - 1 \in 0..n /\ b + k \in 1..Len(r) /\ a + k \in 1..Len(q)
          /\ b + (k - 1) = (b + k) - 1 /\ a + (k - 1) = (a + k) - 1
      BY <1>1
    <2>2. /\ Until(r, b + k) = Until(r, (b + k) - 1) + r[b + k].time
          /\ Until(q, a + k) = Until(q, (a + k) - 1) + q[a + k].time
      BY <2>1, UntilSums
    <2>3. /\ f[k] = f[k - 1] + r[b + k].time /\ g[k] = g[k - 1] + q[a + k].time
          /\ f[k - 1] \in Int /\ g[k - 1] \in Int
      BY <1>3, <2>1, <2>2
    <2>4. r[b + k].time = q[a + k].time /\ q[a + k].time \in Int
      <3>1. q[a + k].time \in Int
        BY <1>1, <2>1
      <3> QED BY <3>1
    <2> QED BY <2>3, <2>4
  <1>5. f[n] - g[n] = f[0] - g[0]
    BY <1>3, <1>4, GrowAlike
  <1>6. n \in 0..n /\ 0 \in 0..n /\ b + 0 = b /\ a + 0 = a
    BY <1>1
  <1> QED BY <1>3, <1>5, <1>6

(* What r keeps of q is no earlier in r. *)
NoEarlier(q, r) ==
    \A i \in 1..Len(q), j \in 1..Len(r) : r[j].h = q[i].h => Until(r, j) >= Until(q, i)

(* The entry of h in r is as late as asked for, or all of q is overdue.     *)
AsAsked(q, r, h, asked, late) ==
    \A j \in 1..Len(r) : r[j].h = h =>
        Until(r, j) >= asked \/ \A i \in 1..Len(q) : Until(q, i) < late

LEMMA OneMoreTimed ==
    ASSUME NEW q, OnceListed(q), NEW r \in Seq(TimeoutEntry), Len(r) = Len(q) + 1,
           NEW i \in 1..Len(r), r[i].h \notin Listed(q),
           \A k \in 1..Len(r) : k < i => r[k].h = q[k].h /\ Until(r, k) >= Until(q, k),
           \A k \in 1..Len(r) : k > i => r[k].h = q[k - 1].h /\ Until(r, k) >= Until(q, k - 1)
    PROVE  NoEarlier(q, r) /\ \A j \in 1..Len(r) : r[j].h = r[i].h => j = i
  <1>1. Len(q) \in Nat /\ Len(r) \in Nat
    BY ListFacts DEF OnceListed
  <1>2. \A j \in 1..Len(q) : q[j].h # r[i].h
    BY DEF Listed
  <1>3. ASSUME NEW j \in 1..Len(q), NEW k \in 1..Len(r), r[k].h = q[j].h
        PROVE  Until(r, k) >= Until(q, j)
    <2>1. k # i
      BY <1>2, <1>3
    <2>2. CASE k < i
      <3>1. k \in 1..Len(q) /\ r[k].h = q[k].h /\ Until(r, k) >= Until(q, k)
        BY <1>1, <2>2
      <3>2. k = j
        BY <1>3, <3>1 DEF OnceListed, OneEach
      <3> QED BY <3>1, <3>2
    <2>3. CASE k > i
      <3>1. k - 1 \in 1..Len(q)
        BY <1>1, <2>3
      <3>2. r[k].h = q[k - 1].h /\ Until(r, k) >= Until(q, k - 1)
        BY <2>3
      <3>3. k - 1 = j
        BY <1>3, <3>1, <3>2 DEF OnceListed, OneEach
      <3> QED BY <3>2, <3>3
    <2> QED BY <1>1, <2>1, <2>2, <2>3
  <1>4. ASSUME NEW j \in 1..Len(r), r[j].h = r[i].h PROVE j = i
    <2>1. CASE j < i
      <3>1. j \in 1..Len(q) /\ r[j].h = q[j].h
        BY <1>1, <2>1
      <3> QED BY <1>2, <1>4, <3>1
    <2>2. CASE j > i
      <3>1. j - 1 \in 1..Len(q) /\ r[j].h = q[j - 1].h
        BY <1>1, <2>2
      <3> QED BY <1>2, <1>4, <3>1
    <2> QED BY <1>1, <2>1, <2>2
  <1> QED BY <1>3, <1>4 DEF NoEarlier

LEMMA OneLessTimed ==
    ASSUME NEW q, OnceListed(q), NEW r \in Seq(TimeoutEntry), Len(r) = Len(q) - 1,
           NEW i \in 1..Len(q),
           \A k \in 1..Len(r) : k < i => r[k].h = q[k].h /\ Until(r, k) >= Until(q, k),
           \A k \in 1..Len(r) : k >= i => r[k].h = q[k + 1].h /\ Until(r, k) >= Until(q, k + 1)
    PROVE  NoEarlier(q, r)
  <1>1. Len(q) \in Nat /\ Len(r) \in Nat
    BY ListFacts DEF OnceListed
  <1>2. ASSUME NEW j \in 1..Len(q), NEW k \in 1..Len(r), r[k].h = q[j].h
        PROVE  Until(r, k) >= Until(q, j)
    <2>1. CASE k < i
      <3>1. k \in 1..Len(q) /\ r[k].h = q[k].h /\ Until(r, k) >= Until(q, k)
        BY <1>1, <2>1
      <3>2. k = j
        BY <1>2, <3>1 DEF OnceListed, OneEach
      <3> QED BY <3>1, <3>2
    <2>2. CASE k >= i
      <3>1. k + 1 \in 1..Len(q)
        BY <1>1, <2>2
      <3>2. r[k].h = q[k + 1].h /\ Until(r, k) >= Until(q, k + 1)
        BY <2>2
      <3>3. k + 1 = j
        BY <1>2, <3>1, <3>2 DEF OnceListed, OneEach
      <3> QED BY <3>2, <3>3
    <2> QED BY <1>1, <2>1, <2>2
  <1> QED BY <1>2 DEF NoEarlier

(* The first n times of a list tell its first n sums. *)
LEMMA SameFront ==
    ASSUME NEW q \in Seq(TimeoutEntry), NEW r \in Seq(TimeoutEntry), NEW n \in Nat,
           n <= Len(q), n <= Len(r), \A k \in 1..n : r[k] = q[k]
    PROVE  \A k \in 0..n : Until(r, k) = Until(q, k)
  <1>1. SUFFICES ASSUME NEW k \in 0..n PROVE Until(r, k) = Until(q, k)
    OBVIOUS
  <1>2. Len(q) \in Nat /\ Len(r) \in Nat
    BY ListFacts
  <1>3. k \in Nat /\ 0 \in 0..Len(q) /\ 0 \in 0..Len(r) /\ k <= Len(q) /\ k <= Len(r) /\ 0 + k = k
    BY <1>1, <1>2
  <1>4. k \in 0..Len(q) /\ k \in 0..Len(r)
    BY <1>2, <1>3
  <1>5. PICK zero : zero = 0
    OBVIOUS
  <1>6. \A j \in 1..k : r[zero + j].time = q[zero + j].time
    BY <1>1, <1>5
  <1>7. Until(r, zero + k) - Until(q, zero + k) = Until(r, zero) - Until(q, zero)
    <2>1. zero \in 0..Len(q) /\ zero \in 0..Len(r) /\ zero + k <= Len(q) /\ zero + k <= Len(r) /\ k \in Nat
      BY <1>3, <1>5
    <2> QED BY <1>6, <2>1, SameBehind
  <1>8. Until(q, 0) = 0 /\ Until(r, 0) = 0 /\ Until(q, k) \in Int /\ Until(r, k) \in Int
    BY <1>4, UntilSums
  <1> QED BY <1>3, <1>5, <1>7, <1>8

(* A new entry behind the i-th takes its time from the one behind it.       *)
LEMMA LinkTimed ==
    ASSUME NEW q, OnceListed(q), NEW i \in 1..Len(q), NEW e \in TimeoutEntry,
           e.h \notin Listed(q), i < Len(q) => e.time <= q[i + 1].time
    PROVE  LET r == Link(q, i, e)
           IN  /\ NoEarlier(q, r) /\ r[1] = q[1]
               /\ \A j \in 1..Len(r) : r[j].h = e.h => Until(r, j) = Until(q, i) + e.time
  <1>1. /\ q \in Seq(TimeoutEntry) /\ Len(q) \in Nat /\ i \in Nat /\ 1 <= i /\ i <= Len(q)
        /\ \A k \in 1..Len(q) : q[k].time \in Times /\ q[k].time \in Nat
        /\ e.time \in Times /\ e.time \in Nat
    <2>1. q \in Seq(TimeoutEntry) /\ e.time \in Times
      BY DEF OnceListed, TimeoutEntry
    <2>2. Len(q) \in Nat /\ \A k \in 1..Len(q) : q[k].time \in Times /\ q[k].time \in Nat
      BY <2>1, ListFacts
    <2>3. e.time \in Nat
      BY <2>1, TimesFacts
    <2>4. i \in Nat /\ 1 <= i /\ i <= Len(q)
      BY <2>2
    <2> QED BY <2>1, <2>2, <2>3, <2>4
  <1>2. CASE i = Len(q)
    <2>1. PICK r : r = Append(q, e)
      OBVIOUS
    <2>2. /\ r \in Seq(TimeoutEntry) /\ Len(r) = Len(q) + 1
          /\ \A k \in 1..Len(q) + 1 : r[k] = IF k = Len(q) + 1 THEN e ELSE q[k]
      BY <1>1, <2>1
    <2>3. i + 1 \in 1..Len(r) /\ r[i + 1] = e /\ Len(r) = i + 1
      BY <1>1, <1>2, <2>2
    <2>4. \A k \in 0..i : Until(r, k) = Until(q, k)
      <3>1. \A k \in 1..i : r[k] = q[k]
        BY <1>1, <1>2, <2>2
      <3>2. i <= Len(q) /\ i <= Len(r)
        BY <1>1, <2>3
      <3> QED BY <1>1, <2>2, <3>1, <3>2, SameFront
    <2>5. \A k \in 1..Len(r) : k < i + 1 => r[k].h = q[k].h /\ Until(r, k) >= Until(q, k)
      <3>1. ASSUME NEW k \in 1..Len(r), k < i + 1
            PROVE  r[k].h = q[k].h /\ Until(r, k) >= Until(q, k)
        <4>1. k \in 0..Len(q) /\ k \in 0..i /\ r[k] = q[k]
          BY <1>1, <1>2, <2>2, <3>1
        <4>2. Until(q, k) \in Int /\ Until(r, k) = Until(q, k)
          BY <1>1, <2>4, <4>1, UntilSums
        <4> QED BY <4>1, <4>2
      <3> QED BY <3>1
    <2>6. \A k \in 1..Len(r) : ~ (k > i + 1)
      BY <1>1, <2>3
    <2>7. PICK place : place = i + 1
      OBVIOUS
    <2>8. /\ \A k \in 1..Len(r) : k < place => r[k].h = q[k].h /\ Until(r, k) >= Until(q, k)
          /\ \A k \in 1..Len(r) : k > place => r[k].h = q[k - 1].h /\ Until(r, k) >= Until(q, k - 1)
          /\ place \in 1..Len(r) /\ r[place].h \notin Listed(q) /\ r[place].h = e.h
      BY <2>3, <2>5, <2>6, <2>7
    <2>9. NoEarlier(q, r) /\ \A j \in 1..Len(r) : r[j].h = r[place].h => j = place
      BY <2>2, <2>8, OneMoreTimed
    <2>10. Until(r, i + 1) = Until(q, i) + e.time
      <3>1. Until(r, i + 1) = Until(r, (i + 1) - 1) + r[i + 1].time
        BY <2>2, <2>3, UntilSums
      <3>2. (i + 1) - 1 = i /\ i \in 0..i
        BY <1>1
      <3> QED BY <2>3, <2>4, <3>1, <3>2
    <2>11. Link(q, i, e) = r
      BY <1>2, <2>1 DEF Link
    <2>12. r[1] = q[1]
      BY <1>1, <1>2, <2>2
    <2> QED BY <2>7, <2>8, <2>9, <2>10, <2>11, <2>12
  <1>3. CASE i # Len(q)
    <2>1. PICK k : k = i + 1
      OBVIOUS
    <2>2. k \in 1..Len(q) /\ k \in Nat /\ i = k - 1 /\ e.time <= q[k].time /\ i < k
      BY <1>1, <1>3, <2>1
    <2>3. PICK t, p : t = Minus(q[k].time, e.time) /\ p = Retimed(q, k, t)
      OBVIOUS
    <2>4. t \in Times /\ t = q[k].time - e.time
      <3>1. q[k].time \in Times /\ e.time \in Times
        BY <1>1, <2>2
      <3> QED BY <2>2, <2>3, <3>1, RoundFacts
    <2>5. /\ p \in Seq(TimeoutEntry) /\ Len(p) = Len(q) /\ p[k].h = q[k].h /\ p[k].time = t
          /\ \A j \in 1..Len(q) : j # k => p[j] = q[j]
      <3>1. q \in Seq(TimeoutEntry) /\ k \in 1..Len(q) /\ t \in Times
        BY <1>1, <2>2, <2>4
      <3>2. LET r == Retimed(q, k, t)
            IN  /\ r \in Seq(TimeoutEntry) /\ Len(r) = Len(q)
                /\ r[k].h = q[k].h /\ r[k].time = t
                /\ \A j \in 1..Len(q) : j # k => r[j] = q[j]
        BY Zenon, <3>1, RetimedPlaces
      <3> QED BY <2>3, <3>2
    <2>6. PICK r : r = InsertAt(p, k, e)
      OBVIOUS
    <2>7. k \in 1..Len(p) + 1
      BY <2>2, <2>5
    <2>8. /\ r \in Seq(TimeoutEntry) /\ Len(r) = Len(p) + 1
          /\ \A j \in DOMAIN r : r[j] = IF j < k THEN p[j] ELSE IF j = k THEN e ELSE p[j - 1]
      BY <2>5, <2>6, <2>7, InsertAtPlaces
    <2>9. DOMAIN r = 1..Len(r) /\ k \in 1..Len(r) /\ k + 1 \in 1..Len(r) /\ Len(r) = Len(q) + 1
      <3>1. Len(r) = Len(q) + 1 /\ DOMAIN r = 1..Len(r)
        BY <2>5, <2>8
      <3> QED BY <1>1, <2>2, <3>1
    <2>10. r[k] = e
      BY <2>2, <2>8, <2>9
    <2>11. ASSUME NEW j \in 1..Len(r), j < k PROVE r[j] = q[j] /\ j \in 0..i
      <3>1. j \in 1..Len(q) /\ j # k /\ j \in 0..i
        BY <2>2, <2>11
      <3> QED BY <2>5, <2>8, <2>9, <2>11, <3>1
    <2>12. r[k + 1].h = q[k].h /\ r[k + 1].time = t
      <3>1. PICK x : x = k + 1
        OBVIOUS
      <3>2. x \in DOMAIN r /\ ~ (x < k) /\ x # k /\ x - 1 = k
        BY <2>2, <2>9, <3>1
      <3>3. r[x] = p[x - 1]
        BY <2>8, <3>2
      <3>4. r[k + 1] = p[k]
        BY <3>1, <3>2, <3>3
      <3> QED BY <2>5, <3>4
    <2>13. ASSUME NEW j \in 1..Len(r), j > k + 1 PROVE r[j] = q[j - 1]
      <3>1. j - 1 \in 1..Len(q) /\ j - 1 # k /\ ~ (j < k) /\ j # k
        <4>1. k \in Nat /\ j \in 1..(Len(q) + 1) /\ Len(q) \in Nat
          BY <2>2, <2>9, <2>13
        <4>2. k >= 1
          BY <2>2
        <4> QED BY <2>13, <4>1, <4>2
      <3>2. r[j] = p[j - 1]
        BY <2>8, <2>9, <3>1
      <3> QED BY <2>5, <3>1, <3>2
    <2>14. \A j \in 0..i : Until(r, j) = Until(q, j)
      <3>1. \A j \in 1..i : r[j] = q[j]
        <4>1. ASSUME NEW j \in 1..i PROVE r[j] = q[j]
          <5>1. j \in 1..Len(r) /\ j < k
            BY <1>1, <2>2, <2>9
          <5> QED BY <2>11, <5>1
        <4> QED BY <4>1
      <3>2. i <= Len(q) /\ i <= Len(r)
        BY <1>1, <2>9
      <3> QED BY <1>1, <2>8, <3>1, <3>2, SameFront
    <2>15. Until(r, k) = Until(q, i) + e.time
      <3>1. Until(r, k) = Until(r, k - 1) + r[k].time
        BY <2>8, <2>9, UntilSums
      <3>2. i \in 0..i
        BY <1>1
      <3> QED BY <2>2, <2>10, <2>14, <3>1, <3>2
    <2>16. Until(r, k + 1) = Until(q, k)
      <3>1. Until(r, k + 1) = Until(r, (k + 1) - 1) + r[k + 1].time
        BY <2>8, <2>9, UntilSums
      <3>2. Until(q, k) = Until(q, k - 1) + q[k].time
        BY <1>1, <2>2, UntilSums
      <3>3. (k + 1) - 1 = k /\ i \in 0..Len(q)
        BY <1>1, <2>2
      <3>4. Until(q, i) \in Int /\ q[k].time \in Int /\ e.time \in Int
        BY <1>1, <2>2, <3>3, UntilSums
      <3> QED BY <2>2, <2>4, <2>12, <2>15, <3>1, <3>2, <3>3, <3>4
    <2>17. ASSUME NEW j \in 1..Len(r), j > k
           PROVE  r[j].h = q[j - 1].h /\ Until(r, j) = Until(q, j - 1)
      <3>1. CASE j = k + 1
        <4>1. j - 1 = k
          BY <2>2, <3>1
        <4> QED BY <2>12, <2>16, <3>1, <4>1
      <3>2. CASE j > k + 1
        <4>1. PICK n, a, b : n = j - (k + 1) /\ a = k /\ b = k + 1
          OBVIOUS
        <4>2. /\ n \in Nat /\ a \in 0..Len(q) /\ b \in 0..Len(r) /\ a + n <= Len(q) /\ b + n <= Len(r)
              /\ a + n = j - 1 /\ b + n = j
          BY <2>2, <2>9, <3>2, <4>1
        <4>3. ASSUME NEW m \in 1..n PROVE r[b + m].time = q[a + m].time
          <5>1. b + m \in 1..Len(r) /\ b + m > k + 1 /\ (b + m) - 1 = a + m
            BY <2>2, <2>9, <4>1, <4>2
          <5> QED BY <2>13, <5>1
        <4>4. Until(r, b + n) - Until(q, a + n) = Until(r, b) - Until(q, a)
          <5>1. /\ q \in Seq(TimeoutEntry) /\ r \in Seq(TimeoutEntry)
                /\ n \in Nat /\ a \in 0..Len(q) /\ b \in 0..Len(r) /\ a + n <= Len(q) /\ b + n <= Len(r)
            BY <1>1, <2>8, <4>2
          <5>2. \A m \in 1..n : r[b + m].time = q[a + m].time
            BY <4>3
          <5> QED BY Zenon, <5>1, <5>2, SameBehind
        <4>5. Until(r, b + n) \in Int /\ Until(q, a + n) \in Int /\ Until(q, a) \in Int
          <5>1. b + n \in 0..Len(r) /\ a + n \in 0..Len(q)
            BY <4>2
          <5> QED BY <1>1, <2>8, <4>2, <5>1, UntilSums
        <4>6. Until(r, j) = Until(q, j - 1)
          BY <2>16, <4>1, <4>2, <4>4, <4>5
        <4>7. r[j].h = q[j - 1].h
          BY <2>13, <3>2
        <4> QED BY <4>6, <4>7
      <3> QED BY <2>2, <2>17, <3>1, <3>2
    <2>18. \A j \in 1..Len(r) : j < k => r[j].h = q[j].h /\ Until(r, j) >= Until(q, j)
      <3>1. ASSUME NEW j \in 1..Len(r), j < k PROVE r[j].h = q[j].h /\ Until(r, j) >= Until(q, j)
        <4>1. j \in 0..Len(q)
          BY <2>2, <3>1
        <4>2. Until(r, j) = Until(q, j) /\ Until(q, j) \in Int /\ r[j] = q[j]
          BY <1>1, <2>11, <2>14, <3>1, <4>1, UntilSums
        <4> QED BY <4>2
      <3> QED BY <3>1
    <2>19. \A j \in 1..Len(r) : j > k => r[j].h = q[j - 1].h /\ Until(r, j) >= Until(q, j - 1)
      <3>1. ASSUME NEW j \in 1..Len(r), j > k
            PROVE  r[j].h = q[j - 1].h /\ Until(r, j) >= Until(q, j - 1)
        <4>1. j - 1 \in 0..Len(q)
          BY <2>2, <2>9, <3>1
        <4>2. Until(q, j - 1) \in Int
          BY <1>1, <4>1, UntilSums
        <4> QED BY <2>17, <3>1, <4>2
      <3> QED BY <3>1
    <2>20. NoEarlier(q, r) /\ \A j \in 1..Len(r) : r[j].h = r[k].h => j = k
      <3>1. r[k].h \notin Listed(q)
        BY <2>10
      <3> QED BY <2>8, <2>9, <2>18, <2>19, <3>1, OneMoreTimed
    <2>21. Link(q, i, e) = r
      BY <1>3, <2>1, <2>3, <2>6 DEF Link, Retimed
    <2>22. r[1] = q[1]
      <3>1. 1 \in 1..Len(r) /\ 1 < k
        BY <1>1, <2>2, <2>9
      <3> QED BY <2>11, <3>1
    <2> QED BY <2>10, <2>15, <2>20, <2>21, <2>22
  <1> QED BY <1>2, <1>3

(* Before the first entry the others move back by how late the thread is.   *)
LEMMA AtHeadTimed ==
    ASSUME NEW q, OnceListed(q), q # <<>>, NEW h \in Handlers, h \notin Listed(q),
           NEW msecs \in Times, NEW late \in Times, msecs < q[1].time, msecs + late < ClockModulus
    PROVE  LET r == AtHead(q, h, msecs, late)
           IN  /\ NoEarlier(q, r) /\ r[1].time >= late
               /\ \A j \in 1..Len(r) : r[j].h = h => Until(r, j) = late + msecs
  <1>1. /\ q \in Seq(TimeoutEntry) /\ Len(q) \in Nat /\ Len(q) >= 1
        /\ \A k \in 1..Len(q) : q[k].time \in Times /\ q[k].time \in Nat
    BY ListFacts DEF OnceListed
  <1>2. PICK t, p : t = Minus(q[1].time, msecs) /\ p = Retimed(q, 1, t)
    OBVIOUS
  <1>3. /\ t \in Times /\ t = q[1].time - msecs /\ Plus(msecs, late) = late + msecs
        /\ Plus(msecs, late) \in Times /\ msecs \in Nat /\ late \in Nat
    <2>1. q[1].time \in Times
      BY <1>1
    <2>2. t \in Times /\ t = q[1].time - msecs
      <3>1. PICK a : a = q[1].time
        OBVIOUS
      <3>2. a \in Times /\ msecs < a
        BY <2>1, <3>1
      <3>3. Minus(a, msecs) = a - msecs /\ Minus(a, msecs) \in Times
        BY <3>2, RoundFacts
      <3> QED BY <1>2, <3>1, <3>3
    <2>3. Plus(msecs, late) = late + msecs /\ Plus(msecs, late) \in Times /\ msecs \in Nat /\ late \in Nat
      BY RoundFacts
    <2> QED BY <2>2, <2>3
  <1>4. /\ p \in Seq(TimeoutEntry) /\ Len(p) = Len(q) /\ p[1].h = q[1].h /\ p[1].time = t
        /\ \A j \in 1..Len(q) : j # 1 => p[j] = q[j]
    <2>1. q \in Seq(TimeoutEntry) /\ 1 \in 1..Len(q) /\ t \in Times
      BY <1>1, <1>3
    <2>2. LET r == Retimed(q, 1, t)
          IN  /\ r \in Seq(TimeoutEntry) /\ Len(r) = Len(q)
              /\ r[1].h = q[1].h /\ r[1].time = t
              /\ \A k \in 1..Len(q) : k # 1 => r[k] = q[k]
      BY Zenon, <2>1, RetimedPlaces
    <2> QED BY <1>2, <2>2
  <1>5. PICK e, r : e = [h |-> h, time |-> Plus(msecs, late)] /\ r = <<e>> \o p
    OBVIOUS
  <1>6. e \in TimeoutEntry /\ e.h = h /\ e.time = late + msecs
    BY <1>3, <1>5 DEF TimeoutEntry
  <1>7. /\ r \in Seq(TimeoutEntry) /\ Len(r) = Len(q) + 1 /\ r[1] = e
        /\ \A k \in 1..Len(r) : k > 1 => r[k] = p[k - 1]
    BY <1>4, <1>5, <1>6
  <1>8. r[2].h = q[1].h /\ r[2].time = t
    <2>1. 2 \in 1..Len(r) /\ 2 > 1 /\ 2 - 1 = 1
      BY <1>1, <1>7
    <2> QED BY <1>4, <1>7, <2>1
  <1>9. ASSUME NEW k \in 1..Len(r), k > 2 PROVE r[k] = q[k - 1]
    <2>1. k > 1 /\ k - 1 \in 1..Len(q) /\ k - 1 # 1
      BY <1>1, <1>7, <1>9
    <2> QED BY <1>4, <1>7, <2>1
  <1>10. Until(r, 0) = 0 /\ Until(r, 1) = late + msecs /\ Until(r, 2) = late + q[1].time
    <2>1. 1 \in 1..Len(r) /\ 2 \in 1..Len(r) /\ 1 - 1 = 0 /\ 2 - 1 = 1
      BY <1>1, <1>7
    <2>2. Until(r, 0) = 0 /\ Until(r, 1) = Until(r, 0) + r[1].time /\ Until(r, 2) = Until(r, 1) + r[2].time
      BY <1>7, <2>1, UntilSums
    <2>3. q[1].time \in Nat
      BY <1>1
    <2>4. r[1].time = late + msecs /\ r[2].time = q[1].time - msecs /\ late \in Nat /\ msecs \in Nat
      BY <1>3, <1>6, <1>7, <1>8
    <2>5. Until(r, 1) = late + msecs
      BY <2>2, <2>4
    <2>6. Until(r, 2) = late + q[1].time
      BY <2>2, <2>3, <2>4, <2>5
    <2> QED BY <2>2, <2>5, <2>6
  <1>11. Until(q, 1) = q[1].time
    <2>1. 1 \in 1..Len(q) /\ 1 - 1 = 0
      BY <1>1
    <2>2. Until(q, 1) = Until(q, 1 - 1) + q[1].time /\ Until(q, 0) = 0 /\ q[1].time \in Nat
      BY <1>1, <2>1, UntilSums
    <2> QED BY <2>1, <2>2
  <1>12. ASSUME NEW j \in 1..Len(r), j > 1 PROVE r[j].h = q[j - 1].h /\ Until(r, j) >= Until(q, j - 1)
    <2>1. CASE j = 2
      <3>1. j - 1 = 1 /\ q[1].time \in Nat
        BY <1>1, <2>1
      <3> QED BY <1>3, <1>8, <1>10, <1>11, <2>1, <3>1
    <2>2. CASE j > 2
      <3>1. PICK n, a, b : n = j - 2 /\ a = 1 /\ b = 2
        OBVIOUS
      <3>2. /\ n \in Nat /\ a \in 0..Len(q) /\ b \in 0..Len(r) /\ a + n <= Len(q) /\ b + n <= Len(r)
            /\ a + n = j - 1 /\ b + n = j
        BY <1>1, <1>7, <2>2, <3>1
      <3>3. ASSUME NEW m \in 1..n PROVE r[b + m].time = q[a + m].time
        <4>1. b + m \in 1..Len(r) /\ b + m > 2 /\ (b + m) - 1 = a + m
          BY <1>1, <1>7, <3>1, <3>2
        <4> QED BY <1>9, <4>1
      <3>4. Until(r, b + n) - Until(q, a + n) = Until(r, b) - Until(q, a)
        BY <1>1, <1>7, <3>2, <3>3, SameBehind
      <3>5. Until(r, j) \in Int /\ Until(q, j - 1) \in Int
        <4>1. j \in 0..Len(r) /\ j - 1 \in 0..Len(q)
          BY <1>1, <1>7, <2>2
        <4> QED BY <1>1, <1>7, <4>1, UntilSums
      <3>6. Until(r, j) - Until(q, j - 1) = late
        <4>1. q[1].time \in Nat
          BY <1>1
        <4> QED BY <1>3, <1>10, <1>11, <3>1, <3>2, <3>4, <4>1
      <3> QED BY <1>3, <1>9, <2>2, <3>5, <3>6
    <2> QED BY <1>1, <1>7, <1>12, <2>1, <2>2
  <1>13. NoEarlier(q, r) /\ \A j \in 1..Len(r) : r[j].h = r[1].h => j = 1
    <2>1. 1 \in 1..Len(r) /\ r[1].h \notin Listed(q)
      BY <1>1, <1>6, <1>7
    <2>2. \A k \in 1..Len(r) : ~ (k < 1)
      BY <1>1, <1>7
    <2> QED BY <1>7, <1>12, <2>1, <2>2, OneMoreTimed
  <1>14. AtHead(q, h, msecs, late) = r
    BY <1>2, <1>5 DEF AtHead, Retimed
  <1>15. \A j \in 1..Len(r) : r[j].h = h => Until(r, j) = late + msecs
    BY <1>6, <1>7, <1>10, <1>13
  <1> QED BY <1>3, <1>6, <1>7, <1>13, <1>14, <1>15

(* The walk goes as far as the new entry is not before what it passes.      *)
LEMMA WalkReaches ==
    ASSUME NEW q \in Seq(TimeoutEntry), NEW msecs \in Times, NEW late \in Times,
           msecs + late < ClockModulus, q[1].time <= msecs, NEW n \in 1..Len(q),
           \A j \in 1..(n - 1) : q[j + 1].time <= Left(q, j, msecs, late)
    PROVE  /\ Until(q, n) <= msecs + late
           /\ Left(q, n, msecs, late) = msecs + late - Until(q, n)
  <1>1. /\ Len(q) \in Nat /\ \A k \in 1..Len(q) : q[k].time \in Nat
        /\ msecs \in Nat /\ late \in Nat /\ n \in Nat /\ 1 <= n /\ n <= Len(q)
    <2>1. Len(q) \in Nat /\ \A k \in 1..Len(q) : q[k].time \in Nat
      BY ListFacts
    <2>2. msecs \in Nat /\ late \in Nat
      BY TimesFacts
    <2> QED BY <2>1, <2>2
  <1>2. PICK m, f : m = n - 1 /\ f = [k \in 0..m |-> Until(q, k + 1)]
    OBVIOUS
  <1>3. PICK D : D = {x \in Nat : x <= msecs + late}
    OBVIOUS
  <1>4. m \in Nat /\ m + 1 = n
    BY <1>1, <1>2
  <1>5. ASSUME NEW k \in 1..Len(q), Until(q, k) \in D
        PROVE  Left(q, k, msecs, late) = msecs + late - Until(q, k)
    <2>1. PICK sum, u : sum = msecs + late /\ u = Until(q, k)
      OBVIOUS
    <2>2. Plus(msecs, late) = sum /\ Plus(msecs, late) \in Times /\ ClockModulus \in Nat
      BY <2>1, RoundFacts
    <2>3. u \in Nat /\ u <= sum /\ sum \in Times /\ sum \in Nat
      BY <1>1, <1>3, <1>5, <2>1, <2>2
    <2>4. u \in Times
      BY <2>2, <2>3 DEF Times
    <2>5. Minus(sum, u) = sum - u
      BY <2>3, <2>4, RoundFacts
    <2>6. Left(q, k, msecs, late) = Minus(Plus(msecs, late), Until(q, k))
      BY DEF Left
    <2>7. Left(q, k, msecs, late) = sum - u
      BY <2>1, <2>2, <2>5, <2>6
    <2> QED BY <1>1, <2>1, <2>3, <2>7
  <1>6. f[0] \in D
    <2>1. 1 \in 1..Len(q) /\ 1 - 1 = 0 /\ 0 \in 0..m /\ 0 + 1 = 1
      BY <1>1, <1>4
    <2>2. Until(q, 1) = Until(q, 1 - 1) + q[1].time /\ Until(q, 0) = 0 /\ q[1].time \in Nat
      BY <1>1, <2>1, UntilSums
    <2>3. Until(q, 1) = q[1].time
      BY <2>1, <2>2
    <2>4. f[0] = Until(q, 1)
      BY <1>2, <2>1
    <2> QED BY <1>1, <1>3, <2>2, <2>3, <2>4
  <1>7. ASSUME NEW k \in 1..m, f[k - 1] \in D PROVE f[k] \in D
    <2>1. /\ k \in 0..m /\ k - 1 \in 0..m /\ (k - 1) + 1 = k /\ k \in 1..Len(q)
          /\ k + 1 \in 1..Len(q) /\ (k + 1) - 1 = k /\ k \in 1..(n - 1)
      BY <1>1, <1>4
    <2>2. f[k - 1] = Until(q, k) /\ f[k] = Until(q, k + 1)
      BY <1>2, <2>1
    <2>3. Left(q, k, msecs, late) = msecs + late - Until(q, k)
      BY <1>5, <1>7, <2>1, <2>2
    <2>4. q[k + 1].time <= msecs + late - Until(q, k)
      BY <2>1, <2>3
    <2>5. Until(q, k + 1) = Until(q, k) + q[k + 1].time /\ q[k + 1].time \in Nat
      <3>1. Until(q, k + 1) = Until(q, (k + 1) - 1) + q[k + 1].time
        BY <2>1, UntilSums
      <3>2. q[k + 1].time \in Nat
        BY <1>1, <2>1
      <3> QED BY <2>1, <3>1, <3>2
    <2>6. Until(q, k) \in Nat
      BY <1>3, <1>7, <2>2
    <2>7. Until(q, k + 1) \in Nat /\ Until(q, k + 1) <= msecs + late
      BY <1>1, <2>4, <2>5, <2>6
    <2> QED BY <1>3, <2>2, <2>7
  <1>8. f[m] \in D
    BY <1>4, <1>6, <1>7, HoldsAlong
  <1>9. f[m] = Until(q, n)
    <2>1. m \in 0..m
      BY <1>4
    <2> QED BY <1>2, <1>4, <2>1
  <1>10. Until(q, n) \in D
    BY <1>8, <1>9
  <1>11. Left(q, n, msecs, late) = msecs + late - Until(q, n)
    BY <1>5, <1>10
  <1> QED BY <1>3, <1>10, <1>11

LEMMA BehindTimed ==
    ASSUME NEW q, OnceListed(q), q # <<>>, NEW h \in Handlers, h \notin Listed(q),
           NEW msecs \in Times, NEW late \in Times, q[1].time <= msecs,
           msecs + late < ClockModulus
    PROVE  LET r == Behind(q, h, msecs, late)
           IN  NoEarlier(q, r) /\ r[1] = q[1] /\ AsAsked(q, r, h, late + msecs, late)
  <1>1. /\ q \in Seq(TimeoutEntry) /\ Len(q) \in Nat /\ Len(q) >= 1
        /\ \A k \in 1..Len(q) : q[k].time \in Times /\ q[k].time \in Nat
        /\ msecs \in Nat /\ late \in Nat
    <2>1. q \in Seq(TimeoutEntry)
      BY DEF OnceListed
    <2>2. msecs \in Nat /\ late \in Nat
      BY TimesFacts
    <2> QED BY <2>1, <2>2, ListFacts
  <1>2. PICK i, left : i = Place(q, msecs, late) /\ left = Left(q, i, msecs, late)
    OBVIOUS
  <1>3. /\ i \in 1..Len(q) /\ left \in Times /\ left \in Nat
        /\ i = Len(q) \/ q[i + 1].time > left
        /\ \A j \in 1..(i - 1) : q[j + 1].time <= Left(q, j, msecs, late)
    BY <1>1, <1>2, PlaceFacts, TimesFacts
  <1>4. Until(q, i) <= msecs + late /\ left = msecs + late - Until(q, i) /\ Until(q, i) \in Nat
    <2>1. Until(q, i) <= msecs + late /\ left = msecs + late - Until(q, i)
      BY <1>1, <1>2, <1>3, WalkReaches
    <2>2. i \in 0..Len(q)
      BY <1>3
    <2> QED BY <1>1, <2>1, <2>2, UntilSums
  <1>5. PICK t : t = IF i = Len(q) /\ left > msecs THEN Plus(msecs, q[1].time) ELSE left
    OBVIOUS
  <1>6. PICK e : e = [h |-> h, time |-> t]
    OBVIOUS
  <1>7. e \in TimeoutEntry /\ e.h = h /\ e.time = t
    <2>1. q[1].time \in Times
      BY <1>1
    <2>2. Plus(msecs, q[1].time) \in Times
      BY <2>1, RoundFacts
    <2>3. t \in Times
      BY <1>3, <1>5, <2>2
    <2> QED BY <1>6, <2>3 DEF TimeoutEntry
  <1>8. PICK r : r = Behind(q, h, msecs, late)
    OBVIOUS
  <1>9. r = Link(q, i, e)
    BY <1>2, <1>5, <1>6, <1>8 DEF Behind
  <1>10. i < Len(q) => e.time <= q[i + 1].time
    <2>1. SUFFICES ASSUME i < Len(q) PROVE e.time <= q[i + 1].time
      OBVIOUS
    <2>2. i + 1 \in 1..Len(q) /\ i # Len(q)
      BY <1>1, <1>3, <2>1
    <2>3. e.time = left /\ q[i + 1].time > left /\ q[i + 1].time \in Nat
      BY <1>1, <1>3, <1>5, <1>7, <2>2
    <2> QED BY <1>3, <2>3
  <1>11. /\ NoEarlier(q, r) /\ r[1] = q[1]
         /\ \A j \in 1..Len(r) : r[j].h = h => Until(r, j) = Until(q, i) + e.time
    BY <1>3, <1>7, <1>9, <1>10, LinkTimed
  <1>12. CASE i = Len(q) /\ left > msecs
    <2>1. ASSUME NEW j \in 1..Len(q) PROVE Until(q, j) < late
      <3>1. i \in 0..Len(q) /\ j \in 0..i /\ j \in 0..Len(q)
        BY <1>1, <1>12
      <3>2. Until(q, j) <= Until(q, i) /\ Until(q, j) \in Nat
        BY <1>1, <3>1, SumsGrow, UntilSums
      <3> QED BY <1>1, <1>4, <1>12, <3>2
    <2> QED BY <1>8, <1>11, <2>1 DEF AsAsked
  <1>13. CASE ~ (i = Len(q) /\ left > msecs)
    <2>1. e.time = left
      BY <1>5, <1>7, <1>13
    <2>2. Until(q, i) + e.time = late + msecs
      BY <1>1, <1>4, <2>1
    <2>3. \A j \in 1..Len(r) : r[j].h = h => Until(r, j) >= late + msecs
      BY <1>1, <1>11, <2>2
    <2> QED BY <1>8, <1>11, <2>3 DEF AsAsked
  <1> QED BY <1>12, <1>13

(* A time-out that is started ends no earlier than asked for, unless all    *)
(* the others are overdue, and brings none of them forward.                 *)
LEMMA StartTimed ==
    ASSUME NEW q, OnceListed(q), q # <<>>, NEW last \in Times, sys_now \in Times,
           NEW h \in Handlers, h \notin Listed(q), NEW msecs \in Times,
           NEW late, late = Minus(sys_now, last), msecs + late < ClockModulus,
           late <= q[1].time + MaxLate, sys_timeout(q, last, h, msecs)
    PROVE  /\ timeouts_last_time' = last
           /\ NoEarlier(q, next_timeout') /\ AsAsked(q, next_timeout', h, late + msecs, late)
           /\ late <= next_timeout'[1].time + MaxLate
  <1>1. late \in Times
    BY RoundFacts
  <1>2. /\ q \in Seq(TimeoutEntry) /\ Len(q) \in Nat /\ Len(q) >= 1 /\ q[1].time \in Nat
        /\ msecs \in Nat /\ late \in Nat /\ MaxLate \in Nat
    <2>1. q \in Seq(TimeoutEntry)
      BY DEF OnceListed
    <2>2. Len(q) \in Nat /\ Len(q) >= 1
      BY <2>1
    <2>3. 1 \in 1..Len(q)
      BY <2>2
    <2>4. q[1].time \in Nat
      BY <2>1, <2>3, ListFacts
    <2>5. msecs \in Nat /\ late \in Nat
      BY <1>1, TimesFacts
    <2> QED BY <2>1, <2>2, <2>4, <2>5, TimeoutsAssumption
  <1>3. /\ next_timeout' = IF q[1].time > msecs THEN AtHead(q, h, msecs, late)
                           ELSE Behind(q, h, msecs, late)
        /\ timeouts_last_time' = last
    BY DEF sys_timeout
  <1>4. CASE q[1].time > msecs
    <2>1. PICK r : r = AtHead(q, h, msecs, late)
      OBVIOUS
    <2>2. msecs < q[1].time
      BY <1>2, <1>4
    <2>3. /\ NoEarlier(q, r) /\ r[1].time >= late
          /\ \A j \in 1..Len(r) : r[j].h = h => Until(r, j) = late + msecs
      BY <1>1, <2>1, <2>2, AtHeadTimed
    <2>4. r[1].time \in Nat
      <3>1. OnceListed(r) /\ Listed(r) = Listed(q) \cup {h}
        BY <1>1, <2>1, AtHeadFacts
      <3>2. r \in Seq(TimeoutEntry) /\ r # <<>>
        <4>1. r # <<>>
          BY <2>1 DEF AtHead
        <4> QED BY <3>1, <4>1 DEF OnceListed
      <3>3. 1 \in 1..Len(r)
        BY <3>2
      <3> QED BY <3>2, <3>3, ListFacts
    <2>5. late <= r[1].time + MaxLate
      BY <1>2, <2>3, <2>4
    <2>6. AsAsked(q, r, h, late + msecs, late)
      BY <1>2, <2>3 DEF AsAsked
    <2> QED BY <1>3, <1>4, <2>1, <2>3, <2>5, <2>6
  <1>5. CASE ~ (q[1].time > msecs)
    <2>1. PICK r : r = Behind(q, h, msecs, late)
      OBVIOUS
    <2>2. q[1].time <= msecs
      BY <1>2, <1>5
    <2>3. NoEarlier(q, r) /\ r[1] = q[1] /\ AsAsked(q, r, h, late + msecs, late)
      BY <1>1, <2>1, <2>2, BehindTimed
    <2> QED BY <1>3, <1>5, <2>1, <2>3
  <1> QED BY <1>4, <1>5

(* The start of the list and what is behind a place that changed alike.     *)
LEMMA StopTimed ==
    ASSUME OnceListed(next_timeout), NEW i \in 1..Len(next_timeout), sys_untimeout(i),
           \A k \in 0..Len(next_timeout) : Until(next_timeout, k) < ClockModulus
    PROVE  LET q == next_timeout
               r == next_timeout'
           IN  /\ NoEarlier(q, r)
               /\ r # <<>> => r[1].time >= q[1].time
  <1>1. PICK q, r : q = next_timeout /\ r = next_timeout'
    OBVIOUS
  <1>2. /\ OnceListed(q) /\ q \in Seq(TimeoutEntry) /\ i \in 1..Len(q)
        /\ r \in Seq(TimeoutEntry) /\ Len(r) = Len(q) - 1
        /\ \A k \in 1..Len(r) : k < i => r[k] = q[k]
        /\ \A k \in 1..Len(r) : k >= i => r[k].h = q[k + 1].h
        /\ \A k \in 1..Len(r) : k > i => r[k].time = q[k + 1].time
        /\ i < Len(q) => r[i].time = Plus(q[i + 1].time, q[i].time)
        /\ \A k \in 0..Len(q) : Until(q, k) < ClockModulus
    BY <1>1, StopPlaces DEF OnceListed
  <1>3. /\ Len(q) \in Nat /\ Len(r) \in Nat /\ i \in Nat
        /\ \A k \in 1..Len(q) : q[k].time \in Times /\ q[k].time \in Nat
        /\ \A k \in 1..Len(r) : r[k].time \in Nat
    <2>1. /\ Len(q) \in Nat /\ Len(r) \in Nat
          /\ \A k \in 1..Len(q) : q[k].time \in Times /\ q[k].time \in Nat
          /\ \A k \in 1..Len(r) : r[k].time \in Nat
      BY <1>2, ListFacts
    <2> QED BY <1>2, <2>1
  <1>4. \A k \in 0..(i - 1) : Until(r, k) = Until(q, k)
    <2>1. i - 1 \in Nat /\ i - 1 <= Len(q) /\ i - 1 <= Len(r)
      BY <1>2, <1>3
    <2>2. \A k \in 1..(i - 1) : r[k] = q[k]
      BY <1>2, <1>3
    <2> QED BY <1>2, <2>1, <2>2, SameFront
  <1>5. ASSUME i < Len(q)
        PROVE  r[i].time = q[i + 1].time + q[i].time /\ Until(r, i) = Until(q, i + 1)
    <2>1. /\ i \in 1..Len(q) /\ i + 1 \in 1..Len(q) /\ i \in 1..Len(r) /\ i - 1 \in 0..Len(q)
          /\ i + 1 \in 0..Len(q) /\ (i + 1) - 1 = i /\ i - 1 \in 0..(i - 1)
      BY <1>2, <1>3, <1>5
    <2>2. PICK x, y, u : x = q[i].time /\ y = q[i + 1].time /\ u = Until(q, i - 1)
      OBVIOUS
    <2>3. x \in Times /\ y \in Times /\ x \in Nat /\ y \in Nat /\ u \in Nat
      BY <1>2, <1>3, <2>1, <2>2, UntilSums
    <2>4. Until(q, i) = u + x /\ Until(q, i + 1) = Until(q, i) + y
      BY <1>2, <2>1, <2>2, UntilSums
    <2>5. Until(q, i + 1) < ClockModulus /\ Until(q, i + 1) = u + x + y
      BY <1>2, <2>1, <2>3, <2>4
    <2>6. Plus(y, x) = y + x
      <3>1. Plus(y, x) = IF y + x < ClockModulus THEN y + x ELSE y + x - ClockModulus
        BY <2>3, RoundFacts
      <3>2. ClockModulus \in Nat
        BY TimeoutsAssumption
      <3>3. y + x < ClockModulus
        BY <2>3, <2>5, <3>2
      <3> QED BY <3>1, <3>3
    <2>7. r[i].time = y + x
      BY <1>2, <1>5, <2>2, <2>6
    <2>8. Until(r, i) = Until(r, i - 1) + r[i].time /\ Until(r, i - 1) = u
      BY <1>2, <1>4, <2>1, <2>2, UntilSums
    <2>9. Until(r, i) = Until(q, i + 1)
      BY <2>3, <2>5, <2>7, <2>8
    <2> QED BY <2>2, <2>7, <2>9
  <1>6. ASSUME NEW k \in 1..Len(r), k >= i PROVE Until(r, k) = Until(q, k + 1)
    <2>1. i < Len(q)
      BY <1>2, <1>3, <1>6
    <2>2. PICK n, a, b : n = k - i /\ a = i + 1 /\ b = i
      OBVIOUS
    <2>3. /\ n \in Nat /\ a \in 0..Len(q) /\ b \in 0..Len(r) /\ a + n <= Len(q) /\ b + n <= Len(r)
          /\ a + n = k + 1 /\ b + n = k
      BY <1>2, <1>3, <1>6, <2>1, <2>2
    <2>4. ASSUME NEW m \in 1..n PROVE r[b + m].time = q[a + m].time
      <3>1. b + m \in 1..Len(r) /\ b + m > i /\ (b + m) + 1 = a + m
        BY <1>3, <2>2, <2>3
      <3> QED BY <1>2, <3>1
    <2>5. Until(r, b + n) - Until(q, a + n) = Until(r, b) - Until(q, a)
      BY <1>2, <2>3, <2>4, SameBehind
    <2>6. Until(r, b) = Until(q, a)
      BY <1>5, <2>1, <2>2
    <2>7. Until(r, k) \in Int /\ Until(q, k + 1) \in Int /\ Until(q, a) \in Int
      <3>1. k \in 0..Len(r) /\ k + 1 \in 0..Len(q)
        BY <1>2, <1>3
      <3> QED BY <1>2, <2>3, <3>1, UntilSums
    <2> QED BY <2>3, <2>5, <2>6, <2>7
  <1>7. NoEarlier(q, r)
    <2>1. ASSUME NEW k \in 1..Len(r), k < i PROVE r[k].h = q[k].h /\ Until(r, k) >= Until(q, k)
      <3>1. k \in 0..(i - 1) /\ k \in 0..Len(q)
        BY <1>2, <1>3, <2>1
      <3>2. Until(r, k) = Until(q, k) /\ Until(q, k) \in Int /\ r[k] = q[k]
        BY <1>2, <1>4, <2>1, <3>1, UntilSums
      <3> QED BY <3>2
    <2>2. ASSUME NEW k \in 1..Len(r), k >= i
          PROVE  r[k].h = q[k + 1].h /\ Until(r, k) >= Until(q, k + 1)
      <3>1. k + 1 \in 0..Len(q)
        BY <1>2, <1>3
      <3>2. Until(r, k) = Until(q, k + 1) /\ Until(q, k + 1) \in Int
        BY <1>2, <1>6, <2>2, <3>1, UntilSums
      <3> QED BY <1>2, <2>2, <3>2
    <2> QED BY <1>2, <2>1, <2>2, OneLessTimed
  <1>8. ASSUME r # <<>> PROVE r[1].time >= q[1].time
    <2>1. Len(r) >= 1 /\ 1 \in 1..Len(r) /\ 1 \in 1..Len(q) /\ 2 \in 1..Len(q)
      <3>1. Len(r) # 0
        BY <1>2, <1>8
      <3> QED BY <1>2, <1>3, <3>1
    <2>2. CASE i = 1
      <3>1. r[1].time = q[2].time + q[1].time
        BY <1>3, <1>5, <2>1, <2>2
      <3> QED BY <1>3, <2>1, <3>1
    <2>3. CASE i # 1
      <3>1. r[1] = q[1]
        BY <1>2, <1>3, <2>1, <2>3
      <3> QED BY <1>3, <2>1, <3>1
    <2> QED BY <2>2, <2>3
  <1> QED BY <1>1, <1>7, <1>8

(* Once the first entry is gone, the others are counted from its time.      *)
LEMMA PopTimed ==
    ASSUME NEW q \in Seq(TimeoutEntry), q # <<>>, NEW r, r = Tail(q)
    PROVE  /\ r \in Seq(TimeoutEntry) /\ Len(r) = Len(q) - 1
           /\ \A k \in 1..Len(r) : /\ r[k] = q[k + 1] /\ k + 1 \in 1..Len(q)
                                   /\ Until(r, k) = Until(q, k + 1) - q[1].time
  <1>1. /\ r \in Seq(TimeoutEntry) /\ Len(r) = Len(q) - 1 /\ Len(q) \in Nat /\ Len(q) >= 1
        /\ \A k \in 1..Len(r) : r[k] = q[k + 1]
    OBVIOUS
  <1>2. 1 \in 1..Len(q) /\ q[1].time \in Nat
    <2>1. 1 \in 1..Len(q)
      BY <1>1
    <2> QED BY <2>1, ListFacts
  <1>3. Until(q, 1) = q[1].time /\ Until(r, 0) = 0
    <2>1. Until(q, 1) = Until(q, 1 - 1) + q[1].time /\ Until(q, 0) = 0 /\ Until(r, 0) = 0
      BY <1>1, <1>2, UntilSums
    <2>2. 1 - 1 = 0
      OBVIOUS
    <2> QED BY <1>2, <2>1, <2>2
  <1>4. ASSUME NEW k \in 1..Len(r) PROVE Until(r, k) = Until(q, k + 1) - q[1].time
    <2>1. PICK a, b : a = 1 /\ b = 0
      OBVIOUS
    <2>2. /\ k \in Nat /\ a \in 0..Len(q) /\ b \in 0..Len(r) /\ a + k <= Len(q) /\ b + k <= Len(r)
          /\ a + k = k + 1 /\ b + k = k
      BY <1>1, <2>1
    <2>3. ASSUME NEW m \in 1..k PROVE r[b + m].time = q[a + m].time
      <3>1. b + m = m /\ a + m = m + 1 /\ m \in 1..Len(r)
        BY <1>1, <2>1
      <3> QED BY <1>1, <3>1
    <2>4. Until(r, b + k) - Until(q, a + k) = Until(r, b) - Until(q, a)
      BY <1>1, <2>2, <2>3, SameBehind
    <2>5. Until(r, k) \in Int /\ Until(q, k + 1) \in Int
      <3>1. k \in 0..Len(r) /\ k + 1 \in 0..Len(q)
        BY <1>1
      <3>2. Until(r, k) \in Nat
        BY <1>1, <3>1, UntilSums
      <3>3. Until(q, k + 1) \in Nat
        BY <3>1, UntilSums
      <3> QED BY <3>2, <3>3
    <2> QED BY <1>2, <1>3, <2>1, <2>2, <2>4, <2>5
  <1> QED BY <1>1, <1>4

LEMMA FirstTime ==
    ASSUME NEW q \in Seq(TimeoutEntry), q # <<>>
    PROVE  /\ 1 \in 1..Len(q) /\ q[1].time \in Times /\ q[1].time \in Nat
           /\ Until(q, 1) = q[1].time
  <1>1. 1 \in 1..Len(q)
    OBVIOUS
  <1>2. q[1].time \in Times /\ q[1].time \in Nat
    BY <1>1, ListFacts
  <1>3. Until(q, 1) = Until(q, 1 - 1) + q[1].time /\ Until(q, 0) = 0
    BY <1>1, UntilSums
  <1>4. 1 - 1 = 0
    OBVIOUS
  <1> QED BY <1>1, <1>2, <1>3, <1>4

(* What TimeIInv and TimeoutsIInv say together.                             *)
LEMMA TimesHold ==
    ASSUME TimeoutsIInv, TimeIInv, SumsFit
    PROVE  /\ OnceListed(next_timeout) /\ next_timeout \in Seq(TimeoutEntry)
           /\ timeouts_last_time \in Times /\ sys_now \in Times
           /\ Late \in Nat /\ Late \in Times /\ MaxLate \in Nat /\ ClockModulus \in Nat
           /\ next_timeout # <<>> => Late <= next_timeout[1].time + MaxLate
           /\ \A m \in Delays : m \in Times /\ m \in Nat
           /\ \A m \in Delays : next_timeout # <<>> => m + Late < ClockModulus
           /\ "tcp" \in Kinds /\ Interval["tcp"] \in Delays
           /\ \A k \in 0..Len(next_timeout) : Until(next_timeout, k) < ClockModulus
  <1>1. /\ OnceListed(next_timeout) /\ next_timeout \in Seq(TimeoutEntry)
        /\ timeouts_last_time \in Times /\ sys_now \in Times
    BY DEF TimeoutsIInv, OnceListed
  <1>2. Late \in Times /\ Late \in Nat /\ MaxLate \in Nat /\ ClockModulus \in Nat
    <2>1. Minus(sys_now, timeouts_last_time) \in Times
      BY <1>1, RoundFacts
    <2> QED BY <2>1, TimesFacts, TimeoutsAssumption DEF Late
  <1>3. next_timeout # <<>> => Late <= next_timeout[1].time + MaxLate
    BY DEF TimeIInv
  <1>4. "tcp" \in Kinds /\ Interval["tcp"] \in Delays
    BY DEF Kinds, Delays
  <1>5. ASSUME NEW m \in Delays PROVE m \in Times /\ m \in Nat
    <2>1. m \in Msecs \/ \E h \in Kinds : m = Interval[h]
      BY DEF Delays
    <2>2. CASE m \in Msecs
      BY <2>2, TimesFacts, TimeoutsAssumption
    <2>3. CASE \E h \in Kinds : m = Interval[h]
      <3>1. PICK h \in Kinds : m = Interval[h]
        BY <2>3
      <3> QED BY <3>1, KindsFacts, TimesFacts
    <2> QED BY <2>1, <2>2, <2>3
  <1>6. ASSUME NEW m \in Delays, next_timeout # <<>> PROVE m + Late < ClockModulus
    <2>1. /\ next_timeout[1].time \in Nat /\ 1 \in 0..Len(next_timeout)
          /\ Until(next_timeout, 1) = next_timeout[1].time
      BY <1>1, <1>6, FirstTime
    <2>2. Until(next_timeout, 1) + MaxLate + m < ClockModulus
      BY <2>1 DEF SumsFit
    <2> QED BY <1>2, <1>3, <1>5, <1>6, <2>1, <2>2
  <1>7. ASSUME NEW k \in 0..Len(next_timeout) PROVE Until(next_timeout, k) < ClockModulus
    <2>1. PICK m : m = Interval["tcp"]
      OBVIOUS
    <2>2. Until(next_timeout, k) + MaxLate + m < ClockModulus
      BY <1>4, <2>1 DEF SumsFit
    <2>3. Until(next_timeout, k) \in Nat /\ m \in Nat
      BY <1>1, <1>4, <1>5, <2>1, UntilSums
    <2> QED BY <1>2, <2>2, <2>3
  <1> QED BY <1>1, <1>2, <1>3, <1>4, <1>5, <1>6, <1>7

(* No entry moves forward and a new one is as late as asked for.            *)
LEMMA KeepsWhen ==
    ASSUME Late \in Int, Late' \in Int,
           \A i \in 1..Len(next_timeout), j \in 1..Len(next_timeout') :
               next_timeout'[j].h = next_timeout[i].h =>
                   Until(next_timeout', j) - Late' >= Until(next_timeout, i) - Late,
           \A j \in 1..Len(next_timeout') :
               \/ next_timeout'[j].h \in Listed(next_timeout)
               \/ /\ next_timeout'[j].h \in OneShots
                  /\ \E m \in Msecs : Until(next_timeout', j) - Late' >= m
               \/ /\ next_timeout'[j].h \notin OneShots
                  /\ Until(next_timeout', j) - Late' >= Interval[next_timeout'[j].h]
               \/ \A i \in 1..Len(next_timeout) : Until(next_timeout, i) - Late < 0
    PROVE  KeepsTime
  <1>1. SUFFICES ASSUME NEW j \in 1..Len(next_timeout'), NEW h, h = next_timeout'[j].h,
                        NEW stays, stays = {i \in 1..Len(next_timeout) : next_timeout[i].h = h}
                 PROVE  IF stays # {}
                        THEN \A i \in stays : Remaining(j)' >= Remaining(i)
                        ELSE \/ IF h \in OneShots THEN \E m \in Msecs : Remaining(j)' >= m
                                ELSE Remaining(j)' >= Interval[h]
                             \/ Overdue
    BY Zenon DEF KeepsTime
  <1>2. Remaining(j)' = Until(next_timeout', j) - Late'
    BY DEF Remaining
  <1>3. \A i : Remaining(i) = Until(next_timeout, i) - Late
    BY DEF Remaining
  <1>4. CASE stays # {}
    <2>1. ASSUME NEW i \in stays PROVE Remaining(j)' >= Remaining(i)
      <3>1. i \in 1..Len(next_timeout) /\ next_timeout[i].h = h
        BY <1>1
      <3> QED BY <1>1, <1>2, <1>3, <3>1
    <2> QED BY <1>4, <2>1
  <1>5. CASE stays = {}
    <2>1. h \notin Listed(next_timeout)
      BY <1>1, <1>5 DEF Listed
    <2>2. CASE h \in OneShots /\ \E m \in Msecs : Until(next_timeout', j) - Late' >= m
      BY <1>2, <1>5, <2>2
    <2>3. CASE h \notin OneShots /\ Until(next_timeout', j) - Late' >= Interval[h]
      BY <1>2, <1>5, <2>3
    <2>4. CASE \A i \in 1..Len(next_timeout) : Until(next_timeout, i) - Late < 0
      <3>1. Overdue
        BY <1>3, <2>4 DEF Overdue
      <3> QED BY <1>5, <3>1
    <2> QED BY <1>1, <2>1, <2>2, <2>3, <2>4
  <1> QED BY <1>4, <1>5

(* What a call or a handler does to the list.                               *)
CallsInTime ==
    /\ KeepsTime
    /\ next_timeout' # <<>> => Late' <= next_timeout'[1].time + MaxLate
    /\ IF next_timeout = <<>> THEN Len(next_timeout') <= 1 ELSE Late' = Late

LEMMA SameKeepsTime ==
    ASSUME TimeoutsIInv, TimeIInv, SumsFit,
           UNCHANGED <<next_timeout, timeouts_last_time, sys_now>>
    PROVE  CallsInTime /\ Late' = Late
  <1>1. Late' = Late /\ Late \in Int /\ next_timeout' = next_timeout
    BY TimesHold DEF Late
  <1>2. PICK q : q = next_timeout
    OBVIOUS
  <1>3. q \in Seq(TimeoutEntry) /\ OneEach(q) /\ Len(q) \in Nat
    BY <1>2, TimesHold DEF OnceListed
  <1>4. ASSUME NEW i \in 1..Len(q), NEW j \in 1..Len(q), q[j].h = q[i].h
        PROVE  Until(q, j) - Late >= Until(q, i) - Late
    <2>1. i = j
      BY <1>3, <1>4 DEF OneEach
    <2>2. Until(q, i) \in Int
      <3>1. i \in 0..Len(q)
        BY <1>3
      <3> QED BY <1>3, <3>1, UntilIsNumber
    <2> QED BY <1>1, <2>1, <2>2
  <1>5. \A j \in 1..Len(q) : q[j].h \in Listed(q)
    BY DEF Listed
  <1>6. KeepsTime
    BY <1>1, <1>2, <1>4, <1>5, KeepsWhen
  <1>7. next_timeout = <<>> => Len(next_timeout) <= 1
    OBVIOUS
  <1>8. next_timeout # <<>> => Late <= next_timeout[1].time + MaxLate
    BY TimesHold
  <1> QED BY <1>1, <1>6, <1>7, <1>8 DEF CallsInTime

(* A time-out that is started.                                              *)
LEMMA StartKeepsTime ==
    ASSUME TimeoutsIInv, TimeIInv, SumsFit, sys_now' = sys_now,
           NEW h \in Handlers, h \notin Listed(next_timeout), NEW msecs \in Delays,
           IF h \in OneShots THEN msecs \in Msecs ELSE msecs = Interval[h],
           sys_timeout(next_timeout, timeouts_last_time, h, msecs), next_timeout # <<>>
    PROVE  CallsInTime
  <1>1. PICK q, last, late, r :
            /\ q = next_timeout /\ last = timeouts_last_time /\ late = Late /\ r = next_timeout'
    OBVIOUS
  <1>2. /\ q # <<>> /\ OnceListed(q) /\ q \in Seq(TimeoutEntry) /\ Len(q) \in Nat
        /\ last \in Times /\ sys_now \in Times /\ late \in Int /\ late = Minus(sys_now, last)
        /\ late <= q[1].time + MaxLate /\ msecs \in Times /\ msecs \in Nat
        /\ msecs + late < ClockModulus /\ h \notin Listed(q) /\ sys_timeout(q, last, h, msecs)
    <2>1. q \in Seq(TimeoutEntry) => Len(q) \in Nat
      OBVIOUS
    <2> QED BY <1>1, <2>1, TimesHold DEF Late
  <1>3. /\ timeouts_last_time' = last /\ NoEarlier(q, r) /\ AsAsked(q, r, h, late + msecs, late)
        /\ late <= r[1].time + MaxLate
    <2>1. /\ timeouts_last_time' = last
          /\ NoEarlier(q, next_timeout') /\ AsAsked(q, next_timeout', h, late + msecs, late)
          /\ late <= next_timeout'[1].time + MaxLate
      BY <1>2, StartTimed
    <2> QED BY <1>1, <2>1
  <1>4. OnceListed(r) /\ Listed(r) = Listed(q) \cup {h} /\ r \in Seq(TimeoutEntry) /\ Len(r) \in Nat
    <2>1. OnceListed(r) /\ Listed(r) = Listed(q) \cup {h}
      BY <1>1, <1>2, StartFacts
    <2>2. r \in Seq(TimeoutEntry)
      BY <2>1 DEF OnceListed
    <2> QED BY <2>1, <2>2
  <1>5. Late' = late
    BY <1>1, <1>3 DEF Late
  <1>6. /\ \A i \in 1..Len(q) : Until(q, i) \in Int
        /\ \A j \in 1..Len(r) : Until(r, j) \in Int
    <2>1. ASSUME NEW s \in Seq(TimeoutEntry), NEW k \in 1..Len(s) PROVE Until(s, k) \in Int
      <3>1. k \in 0..Len(s)
        OBVIOUS
      <3> QED BY <3>1, UntilIsNumber
    <2> QED BY <1>2, <1>4, <2>1
  <1>7. ASSUME NEW i \in 1..Len(q), NEW j \in 1..Len(r), r[j].h = q[i].h
        PROVE  Until(r, j) - late >= Until(q, i) - late
    <2>1. Until(r, j) >= Until(q, i)
      BY <1>3, <1>7 DEF NoEarlier
    <2> QED BY <1>2, <1>6, <2>1
  <1>8. ASSUME NEW j \in 1..Len(r), r[j].h \notin Listed(q)
        PROVE  \/ r[j].h = h /\ Until(r, j) - late >= msecs
               \/ \A i \in 1..Len(q) : Until(q, i) - late < 0
    <2>1. r[j].h = h
      <3>1. r[j].h \in Listed(r)
        BY DEF Listed
      <3> QED BY <1>4, <1>8, <3>1
    <2>2. Until(r, j) >= late + msecs \/ \A i \in 1..Len(q) : Until(q, i) < late
      BY <1>3, <2>1 DEF AsAsked
    <2> QED BY <1>2, <1>6, <2>1, <2>2
  <1>9. ASSUME NEW j \in 1..Len(r)
        PROVE  \/ r[j].h \in Listed(q)
               \/ r[j].h \in OneShots /\ \E m \in Msecs : Until(r, j) - late >= m
               \/ r[j].h \notin OneShots /\ Until(r, j) - late >= Interval[r[j].h]
               \/ \A i \in 1..Len(q) : Until(q, i) - late < 0
    BY <1>8
  <1>10. KeepsTime
    BY <1>1, <1>2, <1>5, <1>7, <1>9, KeepsWhen
  <1> QED BY <1>1, <1>3, <1>5, <1>10 DEF CallsInTime

(* A time-out that is started in an empty list.                             *)
LEMMA FirstKeepsTime ==
    ASSUME TimeoutsIInv, TimeIInv, SumsFit, sys_now' = sys_now,
           NEW h \in Handlers, NEW msecs \in Delays,
           IF h \in OneShots THEN msecs \in Msecs ELSE msecs = Interval[h],
           sys_timeout(next_timeout, timeouts_last_time, h, msecs), next_timeout = <<>>
    PROVE  CallsInTime
  <1>1. PICK e, r : e = [h |-> h, time |-> msecs] /\ r = <<e>>
    OBVIOUS
  <1>2. next_timeout' = r /\ timeouts_last_time' = sys_now
    BY <1>1 DEF sys_timeout
  <1>3. msecs \in Times /\ msecs \in Nat /\ MaxLate \in Nat /\ sys_now \in Times /\ Late \in Int
    BY TimesHold
  <1>4. e \in TimeoutEntry /\ e.h = h /\ e.time = msecs
    BY <1>1, <1>3 DEF TimeoutEntry
  <1>5. r \in Seq(TimeoutEntry) /\ Len(r) = 1 /\ r[1] = e /\ r # <<>>
    BY <1>1, <1>4
  <1>6. Until(r, 1) = msecs
    BY <1>4, <1>5, FirstTime
  <1>7. Late' = 0
    <2>1. Minus(sys_now, sys_now) = 0
      BY <1>3, RoundFacts
    <2> QED BY <1>2, <2>1 DEF Late
  <1>8. \A i \in 1..Len(next_timeout) : FALSE
    <2>1. Len(<<>>) = 0 /\ 1..0 = {}
      OBVIOUS
    <2> QED BY <2>1
  <1>9. ASSUME NEW j \in 1..Len(r)
        PROVE  \/ r[j].h \in OneShots /\ \E m \in Msecs : Until(r, j) - 0 >= m
               \/ r[j].h \notin OneShots /\ Until(r, j) - 0 >= Interval[r[j].h]
    <2>1. j = 1 /\ r[j].h = h /\ Until(r, j) - 0 = msecs /\ msecs >= msecs
      BY <1>3, <1>4, <1>5, <1>6
    <2> QED BY <2>1
  <1>10. KeepsTime
    BY <1>2, <1>3, <1>7, <1>8, <1>9, KeepsWhen
  <1> QED BY <1>2, <1>3, <1>4, <1>5, <1>7, <1>10 DEF CallsInTime

(* A time-out that is stopped.                                              *)
LEMMA StopKeepsTime ==
    ASSUME TimeoutsIInv, TimeIInv, SumsFit, sys_now' = sys_now,
           NEW i \in 1..Len(next_timeout), sys_untimeout(i),
           timeouts_last_time' = timeouts_last_time
    PROVE  CallsInTime
  <1>1. PICK q, late, r : q = next_timeout /\ late = Late /\ r = next_timeout'
    OBVIOUS
  <1>2. /\ OnceListed(q) /\ q \in Seq(TimeoutEntry) /\ q # <<>> /\ late \in Int /\ late \in Nat
        /\ MaxLate \in Nat /\ late <= q[1].time + MaxLate
        /\ \A k \in 0..Len(q) : Until(q, k) < ClockModulus
    <2>1. q # <<>>
      <3>1. Len(<<>>) = 0 /\ 1..0 = {}
        OBVIOUS
      <3> QED BY <1>1, <3>1
    <2> QED BY <1>1, <2>1, TimesHold
  <1>3. NoEarlier(q, r) /\ (r # <<>> => r[1].time >= q[1].time)
    BY <1>1, <1>2, StopTimed
  <1>4. OnceListed(r) /\ Listed(r) \subseteq Listed(q) /\ r \in Seq(TimeoutEntry)
    BY <1>1, <1>2, StopFacts DEF OnceListed
  <1>5. Late' = late
    BY <1>1 DEF Late
  <1>6. ASSUME r # <<>> PROVE late <= r[1].time + MaxLate
    <2>1. q[1].time \in Nat
      BY <1>2, FirstTime
    <2>2. r[1].time \in Nat
      BY <1>4, <1>6, FirstTime
    <2> QED BY <1>2, <1>3, <1>6, <2>1, <2>2
  <1>7. ASSUME NEW k \in 1..Len(q), NEW j \in 1..Len(r), r[j].h = q[k].h
        PROVE  Until(r, j) - late >= Until(q, k) - late
    <2>1. Until(r, j) >= Until(q, k)
      BY <1>3, <1>7 DEF NoEarlier
    <2>2. k \in 0..Len(q) /\ j \in 0..Len(r)
      BY <1>2, <1>4
    <2>3. Until(r, j) \in Int
      BY <1>4, <2>2, UntilIsNumber
    <2>4. Until(q, k) \in Int
      BY <1>2, <2>2, UntilIsNumber
    <2> QED BY <1>2, <2>1, <2>3, <2>4
  <1>8. \A j \in 1..Len(r) : r[j].h \in Listed(q)
    BY <1>4 DEF Listed
  <1>9. KeepsTime
    BY <1>1, <1>2, <1>5, <1>7, <1>8, KeepsWhen
  <1> QED BY <1>1, <1>2, <1>5, <1>6, <1>9 DEF CallsInTime

(* A time-out that ends.                                                    *)
LEMMA PopKeepsTime ==
    ASSUME TimeoutsIInv, TimeIInv, SumsFit, sys_now' = sys_now,
           next_timeout # <<>>, next_timeout[1].time <= Late, next_timeout' = Tail(next_timeout),
           timeouts_last_time' = Plus(timeouts_last_time, next_timeout[1].time)
    PROVE  KeepsTime /\ Late' = Late - next_timeout[1].time
  <1>1. PICK q, late, r, t : q = next_timeout /\ late = Late /\ r = next_timeout' /\ t = q[1].time
    OBVIOUS
  <1>2. /\ OnceListed(q) /\ q \in Seq(TimeoutEntry) /\ q # <<>> /\ late \in Nat /\ late \in Int
        /\ timeouts_last_time \in Times /\ sys_now \in Times
    BY <1>1, TimesHold
  <1>3. t \in Times /\ t \in Nat /\ t <= late
    BY <1>1, <1>2, FirstTime
  <1>4. Late' = late - t
    <2>1. Late' = Minus(sys_now, Plus(timeouts_last_time, t)) /\ late = Minus(sys_now, timeouts_last_time)
      BY <1>1 DEF Late
    <2> QED BY <1>2, <1>3, <2>1, LatePops
  <1>5. /\ r \in Seq(TimeoutEntry) /\ Len(r) = Len(q) - 1
        /\ \A k \in 1..Len(r) : /\ r[k] = q[k + 1] /\ k + 1 \in 1..Len(q)
                                /\ Until(r, k) = Until(q, k + 1) - t
    <2>1. r = Tail(q)
      BY <1>1
    <2> QED BY <1>1, <1>2, <2>1, PopTimed
  <1>6. ASSUME NEW i \in 1..Len(q), NEW j \in 1..Len(r), r[j].h = q[i].h
        PROVE  Until(r, j) - (late - t) >= Until(q, i) - late
    <2>1. q[j + 1].h = q[i].h /\ j + 1 \in 1..Len(q) /\ Until(r, j) = Until(q, j + 1) - t
      BY <1>5, <1>6
    <2>2. i = j + 1
      BY <1>2, <2>1 DEF OnceListed, OneEach
    <2>3. Until(q, i) \in Int
      <3>1. i \in 0..Len(q)
        BY <1>2
      <3> QED BY <1>2, <3>1, UntilIsNumber
    <2> QED BY <1>2, <1>3, <2>1, <2>2, <2>3
  <1>7. \A j \in 1..Len(r) : r[j].h \in Listed(q)
    BY <1>5 DEF Listed
  <1>8. Late' \in Int
    BY <1>2, <1>3, <1>4
  <1>9. KeepsTime
    BY <1>1, <1>2, <1>4, <1>6, <1>7, <1>8, KeepsWhen
  <1> QED BY <1>1, <1>4, <1>9

LEMMA StartsInTime ==
    ASSUME TimeoutsIInv, TimeIInv, SumsFit, sys_now' = sys_now,
           NEW h \in Handlers, h \notin Listed(next_timeout), NEW msecs \in Delays,
           IF h \in OneShots THEN msecs \in Msecs ELSE msecs = Interval[h],
           sys_timeout(next_timeout, timeouts_last_time, h, msecs)
    PROVE  CallsInTime
  BY FirstKeepsTime, StartKeepsTime

LEMMA CallsKeepTime ==
    ASSUME TimeoutsIInv, TimeIInv, SumsFit,
           ThreadCalls, sys_now' = sys_now, \A h \in Kinds : ~ HandlerOf(h)
    PROVE  CallsInTime
  <1>1. /\ \A h \in Handlers : Scheduled(h) <=> h \in Listed(next_timeout)
        /\ \A h \in Kinds : (h \in cyclic_timers \/ tcpip_tcp_timer_active)
                                <=> h \in Listed(next_timeout)
    BY DEF Scheduled, Listed, TimeoutsIInv, Kinds
  <1>2. ASSUME NEW h \in OneShots, NEW msecs \in Msecs, ~ Scheduled(h), Starts(h, msecs)
        PROVE  CallsInTime
    <2>1. h \in Handlers /\ h \notin Listed(next_timeout) /\ msecs \in Delays
      BY <1>1, <1>2, KindsFacts DEF Delays
    <2>2. sys_timeout(next_timeout, timeouts_last_time, h, msecs)
      BY <1>2 DEF Starts
    <2>3. IF h \in OneShots THEN msecs \in Msecs ELSE msecs = Interval[h]
      BY <1>2
    <2> QED BY <2>1, <2>2, <2>3, StartsInTime
  <1>3. ASSUME NEW h \in OneShots, Stops(h)
        PROVE  CallsInTime
    <2>1. PICK i \in 1..Len(next_timeout) : next_timeout[i].h = h /\ sys_untimeout(i)
      BY <1>3 DEF Stops
    <2>2. timeouts_last_time' = timeouts_last_time
      BY <1>3 DEF Stops
    <2> QED BY <2>1, <2>2, StopKeepsTime
  <1>4. ASSUME tcp_timer_needed
        PROVE  CallsInTime
    <2>1. CASE tcpip_tcp_timer_active
      <3>1. UNCHANGED <<next_timeout, timeouts_last_time, sys_now>>
        BY <1>4, <2>1 DEF tcp_timer_needed
      <3> QED BY <3>1, SameKeepsTime
    <2>2. CASE ~ tcpip_tcp_timer_active
      <3>1. sys_timeout(next_timeout, timeouts_last_time, "tcp", Interval["tcp"])
        BY <1>4, <2>2 DEF tcp_timer_needed
      <3>2. "tcp" \in Kinds /\ "tcp" \in Handlers /\ "tcp" \notin OneShots
        BY KindsFacts DEF Kinds, Handlers
      <3>3. "tcp" \notin Listed(next_timeout)
        BY <1>1, <2>2, <3>2, KindsFacts
      <3>4. Interval["tcp"] \in Delays
        BY TimesHold
      <3> QED BY <3>1, <3>2, <3>3, <3>4, StartsInTime
    <2> QED BY <2>1, <2>2
  <1>5. ASSUME UNCHANGED <<next_timeout, timeouts_last_time>>
        PROVE  CallsInTime
    BY <1>5, SameKeepsTime
  <1> QED BY <1>2, <1>3, <1>4, <1>5 DEF ThreadCalls

LEMMA HandlersKeepTime ==
    ASSUME TimeoutsIInv, TimeIInv, SumsFit, HandlerRuns
    PROVE  CallsInTime
  <1>1. /\ thread.h \in Handlers /\ thread.h \notin Listed(next_timeout)
        /\ sys_now' = sys_now
    BY DEF TimeoutsIInv, HandlerRuns
  <1>2. CASE thread.h = "tcp" /\ tcpip_tcp_timer
    <2>1. \/ UNCHANGED <<next_timeout, timeouts_last_time>>
          \/ sys_timeout(next_timeout, timeouts_last_time, "tcp", Interval["tcp"])
      BY <1>2 DEF tcpip_tcp_timer
    <2>2. CASE UNCHANGED <<next_timeout, timeouts_last_time>>
      BY <1>1, <2>2, SameKeepsTime
    <2>3. CASE sys_timeout(next_timeout, timeouts_last_time, "tcp", Interval["tcp"])
      <3>1. "tcp" \in Handlers /\ "tcp" \notin OneShots /\ "tcp" \notin Listed(next_timeout)
        BY <1>1, <1>2, KindsFacts DEF Kinds
      <3>2. Interval["tcp"] \in Delays
        BY TimesHold
      <3> QED BY <1>1, <2>3, <3>1, <3>2, StartsInTime
    <2> QED BY <2>1, <2>2, <2>3
  <1>3. CASE thread.h \in cyclic_timers /\ cyclic_timer(thread.h)
    <2>1. PICK h : h = thread.h
      OBVIOUS
    <2>2. /\ sys_timeout(next_timeout, timeouts_last_time, h, Interval[h])
          /\ h \in Handlers /\ h \notin Listed(next_timeout) /\ h \in Kinds
      BY <1>1, <1>3, <2>1 DEF cyclic_timer, Kinds
    <2>3. h \notin OneShots /\ Interval[h] \in Delays
      BY <2>2, KindsFacts DEF Delays
    <2> QED BY <1>1, <2>2, <2>3, StartsInTime
  <1>4. CASE thread.h \in OneShots /\ ThreadCalls
    <2>1. \A h \in Kinds : ~ HandlerOf(h)
      BY <1>4, KindsFacts DEF HandlerOf
    <2> QED BY <1>1, <1>4, <2>1, CallsKeepTime
  <1> QED BY <1>2, <1>3, <1>4 DEF HandlerRuns

-----------------------------------------------------------------------------
LEMMA TimesStart == ASSUME TimeoutsInit PROVE TimeIInv
  <1>1. next_timeout \in Seq(TimeoutEntry)
    BY TimeoutsStart DEF TimeoutsIInv, OnceListed
  <1>2. Late = 0
    <2>1. Minus(0, 0) = 0
      BY RoundFacts, TimesFacts
    <2> QED BY <2>1 DEF Late, TimeoutsInit
  <1>3. ASSUME next_timeout # <<>> PROVE Late <= next_timeout[1].time + MaxLate
    <2>1. next_timeout[1].time \in Nat /\ MaxLate \in Nat
      BY <1>1, <1>3, FirstTime, TimeoutsAssumption
    <2> QED BY <1>2, <2>1
  <1>4. thread.at = "again"
    BY DEF TimeoutsInit, Again
  <1> QED BY <1>3, <1>4 DEF TimeIInv

LEMMA ClockKeepsTime ==
    ASSUME TimeoutsIInv, TimeIInv, SumsFit, ClockAdvances
    PROVE  TimeIInv' /\ KeepsTime
  <1>1. /\ sys_now' = Plus(sys_now, 1) /\ Late \in Nat
        /\ UNCHANGED <<next_timeout, timeouts_last_time, thread>>
        /\ timeouts_last_time \in Times /\ sys_now \in Times
    BY TimesHold DEF ClockAdvances
  <1>2. CASE next_timeout = <<>>
    <2>1. 1..Len(next_timeout) = {} /\ Len(next_timeout) <= 1
      <3>1. Len(<<>>) = 0 /\ 1..0 = {}
        OBVIOUS
      <3> QED BY <1>2, <3>1
    <2>2. KeepsTime
      BY <1>1, <2>1 DEF KeepsTime
    <2> QED BY <1>1, <1>2, <2>1, <2>2 DEF TimeIInv
  <1>3. CASE next_timeout # <<>>
    <2>1. /\ Late < next_timeout[1].time + MaxLate /\ next_timeout[1].time \in Nat
          /\ Until(next_timeout, 1) = next_timeout[1].time /\ 1 \in 0..Len(next_timeout)
      BY <1>3, TimesHold, FirstTime DEF ClockAdvances
    <2>2. PICK m : m = Interval["tcp"]
      OBVIOUS
    <2>3. m \in Delays /\ m \in Nat /\ MaxLate \in Nat /\ ClockModulus \in Nat
      BY <2>2, TimesHold
    <2>4. Until(next_timeout, 1) + MaxLate + m < ClockModulus
      BY <2>1, <2>3 DEF SumsFit
    <2>5. Late + 1 < ClockModulus
      BY <1>1, <2>1, <2>3, <2>4
    <2>6. Late' = Late + 1
      <3>1. Minus(Plus(sys_now, 1), timeouts_last_time) = Minus(sys_now, timeouts_last_time) + 1
        BY <1>1, <2>5, LateGrows DEF Late
      <3> QED BY <1>1, <3>1 DEF Late
    <2>7. sys_now' # sys_now
      <3>1. sys_now' = sys_now => Late' = Late
        BY <1>1 DEF Late
      <3> QED BY <1>1, <2>6, <3>1
    <2>8. KeepsTime
      BY <2>7 DEF KeepsTime
    <2>9. Late' <= next_timeout[1].time + MaxLate
      BY <1>1, <2>1, <2>3, <2>6
    <2>10. \A diff \in Nat : diff <= Late => diff <= Late'
      BY <1>1, <2>6
    <2> QED BY <1>1, <1>3, <2>8, <2>9, <2>10 DEF TimeIInv
  <1> QED BY <1>2, <1>3

LEMMA WaitsKeepTime ==
    ASSUME TimeoutsIInv, TimeIInv, SumsFit, FetchBegins \/ FetchTimesOut
    PROVE  TimeIInv' /\ KeepsTime
  <1>1. UNCHANGED <<next_timeout, timeouts_last_time, sys_now>>
    BY DEF FetchBegins, FetchTimesOut
  <1>2. KeepsTime /\ Late' = Late /\ next_timeout # <<>>
    BY <1>1, SameKeepsTime DEF CallsInTime, FetchBegins, FetchTimesOut, TimeIInv
  <1>3. PICK t, late, last : t = next_timeout[1].time /\ late = Late /\ last = timeouts_last_time
    OBVIOUS
  <1>4. /\ t \in Times /\ t \in Nat /\ late \in Nat /\ late <= t + MaxLate
        /\ last \in Times /\ sys_now \in Times /\ late = Minus(sys_now, last)
    BY <1>2, <1>3, TimesHold, FirstTime DEF Late
  <1>5. \/ thread' = Checking(late)
        \/ late <= t /\ thread' = SleepUntil(Plus(sys_now, t - late))
    <2>1. CASE FetchTimesOut
      BY <1>3, <2>1 DEF FetchTimesOut
    <2>2. CASE FetchBegins
      <3>1. thread' = IF sys_timeouts_sleeptime = 0 THEN Checking(late)
                      ELSE SleepUntil(Plus(sys_now, sys_timeouts_sleeptime))
        BY <1>3, <2>2 DEF FetchBegins
      <3>2. sys_timeouts_sleeptime = IF late > t THEN 0 ELSE t - late
        BY <1>3 DEF sys_timeouts_sleeptime
      <3> QED BY <1>4, <3>1, <3>2
    <2> QED BY <2>1, <2>2
  <1>6. CASE thread' = Checking(late)
    <2>1. thread'.at = "check" /\ thread'.diff = late
      BY <1>6 DEF Checking
    <2>2. late <= late
      BY <1>4
    <2> QED BY <1>1, <1>2, <1>3, <1>4, <2>1, <2>2 DEF TimeIInv
  <1>7. CASE late <= t /\ thread' = SleepUntil(Plus(sys_now, t - late))
    <2>1. thread'.at = "sleep" /\ thread'.wake = Plus(sys_now, t - late)
      BY <1>7 DEF SleepUntil
    <2>2. Plus(sys_now, t - late) = Plus(last, t)
      BY <1>4, <1>7, WakeSeen
    <2> QED BY <1>1, <1>2, <1>3, <1>4, <2>1, <2>2 DEF TimeIInv
  <1> QED BY <1>5, <1>6, <1>7

LEMMA PopsKeepTime ==
    ASSUME TimeoutsIInv, TimeIInv, SumsFit, CheckPops
    PROVE  TimeIInv' /\ KeepsTime
  <1>1. /\ thread.at = "check" /\ thread.diff \in Nat /\ sys_now' = sys_now
        /\ thread.diff <= Late \/ Len(next_timeout) <= 1
        /\ Late \in Nat /\ MaxLate \in Nat
        /\ next_timeout # <<>> => Late <= next_timeout[1].time + MaxLate
    BY TimesHold DEF CheckPops, TimeIInv
  <1>2. CASE ~ (next_timeout # <<>> /\ next_timeout[1].time <= thread.diff)
    <2>1. UNCHANGED <<next_timeout, timeouts_last_time, sys_now>> /\ thread' = Again
      BY <1>1, <1>2 DEF CheckPops
    <2>2. KeepsTime /\ Late' = Late /\ thread'.at = "again"
      BY <2>1, SameKeepsTime DEF Again, CallsInTime
    <2> QED BY <1>1, <2>1, <2>2 DEF TimeIInv
  <1>3. ASSUME next_timeout # <<>>, next_timeout[1].time <= thread.diff
        PROVE  TimeIInv' /\ KeepsTime
    <2>1. PICK t, diff : t = next_timeout[1].time /\ diff = thread.diff
      OBVIOUS
    <2>2. /\ timeouts_last_time' = Plus(timeouts_last_time, t) /\ next_timeout' = Tail(next_timeout)
          /\ thread' = InHandler(next_timeout[1].h, diff - t)
      BY <1>3, <2>1 DEF CheckPops
    <2>3. thread'.at = "handler" /\ thread'.diff = diff - t
      BY <2>2 DEF InHandler
    <2>4. /\ t \in Nat /\ t \in Times /\ diff \in Nat /\ t <= diff
          /\ next_timeout \in Seq(TimeoutEntry) /\ timeouts_last_time \in Times
      BY <1>1, <1>3, <2>1, TimesHold, FirstTime
    <2>5. diff - t \in Nat
      BY <2>4
    <2>6. /\ next_timeout' \in Seq(TimeoutEntry) /\ Len(next_timeout') = Len(next_timeout) - 1
          /\ Len(next_timeout) \in Nat
      BY <1>3, <2>2, <2>4, PopTimed
    <2>7. CASE Len(next_timeout) <= 1
      <3>1. Len(next_timeout') = 0
        <4>1. Len(next_timeout') \in Nat
          BY <2>6
        <4> QED BY <2>6, <2>7, <4>1
      <3>2. next_timeout' = <<>> /\ 1..Len(next_timeout') = {}
        <4>1. PICK r : r = next_timeout'
          OBVIOUS
        <4>2. r \in Seq(TimeoutEntry) /\ Len(r) = 0
          BY <2>6, <3>1, <4>1
        <4>3. r = <<>> /\ 1..0 = {}
          BY <4>2
        <4> QED BY <4>1, <4>2, <4>3
      <3>3. KeepsTime
        BY <3>2 DEF KeepsTime
      <3> QED BY <2>3, <2>5, <3>2, <3>3 DEF TimeIInv
    <2>8. CASE diff <= Late
      <3>1. KeepsTime /\ Late' = Late - t
        <4>1. t <= Late
          BY <1>1, <2>4, <2>8
        <4> QED BY <1>1, <1>3, <2>1, <2>2, <4>1, PopKeepsTime
      <3>2. ASSUME next_timeout' # <<>> PROVE Late' <= next_timeout'[1].time + MaxLate
        <4>1. PICK first : first = next_timeout'[1].time
          OBVIOUS
        <4>2. first \in Nat
          BY <2>6, <3>2, <4>1, FirstTime
        <4>3. Late <= t + MaxLate
          BY <1>1, <1>3, <2>1
        <4> QED BY <1>1, <2>4, <3>1, <4>1, <4>2, <4>3
      <3>3. diff - t <= Late'
        BY <1>1, <2>4, <2>8, <3>1
      <3> QED BY <2>3, <2>5, <3>1, <3>2, <3>3 DEF TimeIInv
    <2> QED BY <1>1, <2>1, <2>7, <2>8
  <1> QED BY <1>2, <1>3

LEMMA RunsKeepTime ==
    ASSUME TimeoutsIInv, TimeIInv, SumsFit, FetchGetsMessage \/ HandlerRuns
    PROVE  TimeIInv' /\ KeepsTime
  <1>1. CASE FetchGetsMessage
    <2>1. /\ ThreadCalls /\ sys_now' = sys_now /\ thread'.at = "again"
          /\ \A h \in Kinds : ~ HandlerOf(h)
      BY <1>1 DEF FetchGetsMessage, HandlerOf, Again
    <2>2. CallsInTime
      BY <2>1, CallsKeepTime
    <2> QED BY <2>1, <2>2 DEF TimeIInv, CallsInTime
  <1>2. CASE HandlerRuns
    <2>1. thread.at = "handler" /\ thread' = Checking(thread.diff)
      BY <1>2 DEF HandlerRuns
    <2>2. thread'.at = "check" /\ thread'.diff = thread.diff
      BY <2>1 DEF Checking
    <2>3. CallsInTime
      BY <1>2, HandlersKeepTime
    <2>4. thread.diff \in Nat /\ (thread.diff <= Late \/ next_timeout = <<>>)
      BY <2>1 DEF TimeIInv
    <2>5. thread'.diff <= Late' \/ Len(next_timeout') <= 1
      BY <2>2, <2>3, <2>4 DEF CallsInTime
    <2> QED BY <2>2, <2>3, <2>4, <2>5 DEF TimeIInv, CallsInTime
  <1> QED BY <1>1, <1>2

LEMMA TimesStep ==
    TimeoutsIInv /\ TimeIInv /\ SumsFit /\ [TimeoutsNext]_timeoutVars
        => TimeIInv' /\ [KeepsTime]_timeoutVars
  <1> SUFFICES ASSUME TimeoutsIInv, TimeIInv, SumsFit, [TimeoutsNext]_timeoutVars
               PROVE  TimeIInv' /\ [KeepsTime]_timeoutVars
    OBVIOUS
  <1>1. CASE UNCHANGED timeoutVars
    <2>1. UNCHANGED <<next_timeout, timeouts_last_time, sys_now, thread>>
      BY <1>1 DEF timeoutVars
    <2>2. TimeIInv'
      BY <2>1 DEF TimeIInv, Late
    <2> QED BY <1>1, <2>2
  <1>2. CASE TimeoutsNext
    BY <1>2, ClockKeepsTime, WaitsKeepTime, PopsKeepTime, RunsKeepTime DEF TimeoutsNext
  <1> QED BY <1>1, <1>2

(* The thread sleeps until the first time-out ends.                         *)
LEMMA TimesWake == TimeoutsIInv /\ TimeIInv /\ SumsFit => WakesInTime
  <1> SUFFICES ASSUME TimeoutsIInv, TimeIInv, SumsFit, thread.at = "sleep"
               PROVE  Minus(thread.wake, sys_now) <= Remaining(1) \/ Remaining(1) <= 0
    BY DEF WakesInTime
  <1>1. PICK t, late, last : t = next_timeout[1].time /\ late = Late /\ last = timeouts_last_time
    OBVIOUS
  <1>2. thread.wake = Plus(last, t) /\ next_timeout # <<>>
    BY <1>1 DEF TimeIInv
  <1>3. /\ t \in Times /\ t \in Nat /\ late \in Nat /\ late = Minus(sys_now, last)
        /\ last \in Times /\ sys_now \in Times /\ Until(next_timeout, 1) = t
    BY <1>1, <1>2, TimesHold, FirstTime DEF Late
  <1>4. Remaining(1) = t - late
    BY <1>1, <1>3 DEF Remaining
  <1>5. CASE late <= t
    <2>1. Minus(Plus(last, t), sys_now) = t - late
      BY <1>3, <1>5, WakeSeen
    <2> QED BY <1>2, <1>3, <1>4, <2>1
  <1>6. CASE ~ (late <= t)
    BY <1>3, <1>4, <1>6
  <1> QED BY <1>5, <1>6

(* While the times in the list and a delay asked for now sum up to less     *)
(* than a round of the clock (49 days), no call and no handler brings a     *)
(* time-out forward, one that is started ends no earlier than asked for     *)
(* unless all the others are overdue, and the thread never sleeps past the  *)
(* first, wherever the clock wraps around (timeouts.c:204-299,              *)
(* timeouts.c:313-424).                                                     *)
THEOREM TimesAlwaysKept == TimeoutsSpec /\ []SumsFit => TimeoutsKeepTime
  <1>1. TimeoutsInit => TimeoutsIInv /\ TimeIInv
    BY TimeoutsStart, TimesStart
  <1>2. TimeoutsIInv /\ [TimeoutsNext]_timeoutVars => TimeoutsIInv'
    BY TimeoutsKeep
  <1>3. [KeepsTime]_timeoutVars /\ WakesInTime' => [KeepsTime /\ WakesInTime']_timeoutVars
    OBVIOUS
  <1> QED BY <1>1, <1>2, <1>3, TimesStep, TimesWake, PTL DEF TimeoutsSpec, TimeoutsKeepTime
-----------------------------------------------------------------------------
(* DNS.                                                                     *)

DnsAsking == [state : {"ASKING"}, name : Names, seqno : 0..(SeqModulus - 1),
              pcb_idx : SourcePorts, server_idx : 1..DNS_MAX_SERVERS, tmr : Nat \ {0},
              retries : 0..DNS_MAX_RETRIES, age : Nat]
DnsDone == [state : {"DONE"}, name : Names, seqno : 0..(SeqModulus - 1), ttl : Nat \ {0}]
DnsIdle == {UNUSED} \cup DnsDone

DnsClients == [table : [Queries -> DnsAsking \cup DnsIdle],
               requests : [Requests -> {NoRequest} \cup [found : Callers, idx : Queries]],
               pcbs : SUBSET SourcePorts,
               waiting : [Callers -> Names \cup {Nothing}]]

(* The calls of dns_tmr that n - 1 retries of one server take. *)
Rounds(n) == (n * (n - 1)) \div 2

(* A query is as old as the servers and the retries it has used up. *)
OnTime(e) ==
    /\ e.retries < DNS_MAX_RETRIES
    /\ e.age + e.tmr = (e.server_idx - 1) * Patience + 1 + Rounds(e.retries + 1)

(* Who waits has a request; a request is of a query that runs, for the name *)
(* its caller waits for, and of no caller that has another.                 *)
Remembered(d) ==
    \A c \in Callers : d.waiting[c] # Nothing =>
        \E r \in Requests : d.requests[r] # NoRequest /\ d.requests[r].found = c

Pursued(d) ==
    \A r \in Requests : d.requests[r] # NoRequest =>
        /\ d.requests[r].idx \in AskingOf(d.table)
        /\ d.waiting[d.requests[r].found] = d.table[d.requests[r].idx].name
        /\ \A s \in Requests :
              d.requests[s] # NoRequest /\ d.requests[s].found = d.requests[r].found => s = r

(* A query has somebody to tell, and its port is open; no other port is.    *)
Wanted(d) == \A i \in AskingOf(d.table) : RequestsOf(d, i) # {}

Ports(d) == d.pcbs = {d.table[i].pcb_idx : i \in AskingOf(d.table)}

SoundClients ==
    {d \in DnsClients :
        /\ Remembered(d) /\ Pursued(d) /\ Wanted(d) /\ Ports(d)
        /\ \A i \in AskingOf(d.table) : OnTime(d.table[i])}

DnsIInv ==
    /\ DnsClient \in SoundClients
    /\ dns_last_pcb_idx \in SourcePorts
    /\ dns_servers \in [1..DNS_MAX_SERVERS -> BOOLEAN]
    /\ dns_seqno \in 0..(SeqModulus - 1)

LEMMA RoundsFacts ==
    /\ Rounds(1) = 0 /\ Patience = 1 + Rounds(DNS_MAX_RETRIES)
    /\ Patience \in Nat \ {0}
    /\ \A n \in Nat : Rounds(n) \in Int /\ Rounds(n + 1) = Rounds(n) + n
    /\ \A n \in 1..DNS_MAX_RETRIES : Rounds(n) >= 0 /\ Rounds(n) <= Rounds(DNS_MAX_RETRIES)
  <1> DEFINE M == DNS_MAX_RETRIES
  <1>1. M \in Nat \ {0}
    BY DnsAssumption
  <1>2. \A a, b \in Int : a <= b => a \div 2 <= b \div 2
    OBVIOUS
  <1>3. \A a, b \in Int : (a + 2 * b) \div 2 = (a \div 2) + b
    OBVIOUS
  <1>4. ASSUME NEW n \in Nat
        PROVE  Rounds(n) \in Int /\ Rounds(n + 1) = Rounds(n) + n
    <2>1. n * (n - 1) \in Int
      OBVIOUS
    <2>2. (n + 1) * ((n + 1) - 1) = (n * (n - 1)) + 2 * n
      OBVIOUS
    <2>3. ((n * (n - 1)) + 2 * n) \div 2 = ((n * (n - 1)) \div 2) + n
      BY <1>3, <2>1
    <2> QED BY <2>1, <2>2, <2>3 DEF Rounds
  <1>5. ASSUME NEW n \in 1..M
        PROVE  Rounds(n) >= 0 /\ Rounds(n) <= Rounds(M)
    <2>1. n - 1 \in Nat /\ M - 1 \in Nat /\ n \in Nat /\ n <= M
      BY <1>1
    <2>2. n * (n - 1) \in Int /\ M * (M - 1) \in Int /\ n * (n - 1) >= 0
      BY <1>1, <2>1
    <2>3. n * (n - 1) <= M * (M - 1)
      <3>1. n * (n - 1) <= n * (M - 1)
        BY <1>1, <2>1
      <3>2. n * (M - 1) <= M * (M - 1)
        BY <1>1, <2>1
      <3> QED BY <1>1, <2>1, <3>1, <3>2
    <2>4. (n * (n - 1)) \div 2 <= (M * (M - 1)) \div 2
      BY <1>2, <2>2, <2>3
    <2>5. (n * (n - 1)) \div 2 >= 0
      BY <2>2
    <2> QED BY <2>4, <2>5 DEF Rounds
  <1>6. Rounds(1) = 0
    BY DEF Rounds
  <1>7. Patience = 1 + Rounds(M)
    BY DEF Patience, Rounds
  <1>8. Rounds(M) \in Int /\ Rounds(M) >= 0
    BY <1>1, <1>4, <1>5
  <1> QED BY <1>4, <1>5, <1>6, <1>7, <1>8

LEMMA DnsFacts ==
    ASSUME NEW d \in SoundClients
    PROVE  /\ d \in DnsClients
           /\ d.table \in [Queries -> DnsAsking \cup DnsIdle]
           /\ d.requests \in [Requests -> {NoRequest} \cup [found : Callers, idx : Queries]]
           /\ d.pcbs \subseteq SourcePorts
           /\ d.waiting \in [Callers -> Names \cup {Nothing}]
           /\ Remembered(d) /\ Pursued(d) /\ Wanted(d) /\ Ports(d)
           /\ \A i \in AskingOf(d.table) : OnTime(d.table[i])
  BY DEF SoundClients, DnsClients

LEMMA QueryFacts ==
    /\ \A e \in DnsAsking : e.state = "ASKING"
    /\ \A e \in DnsIdle : e.state # "ASKING" /\ e.state \in {"UNUSED", "DONE"}
    /\ \A e \in DnsAsking \cup DnsIdle : /\ e.state = "ASKING" => e \in DnsAsking
                                         /\ e.state = "DONE" => e \in DnsDone
                                         /\ e.state = "UNUSED" => e = UNUSED
  BY DEF DnsAsking, DnsIdle, DnsDone, UNUSED

LEMMA RequestFacts ==
    ASSUME NEW d \in SoundClients, NEW r \in Requests, d.requests[r] # NoRequest
    PROVE  d.requests[r].found \in Callers /\ d.requests[r].idx \in Queries
  BY DnsFacts

(* The queries are given up, answered or asked again, one at a time. *)
LEMMA SameQuery ==
    ASSUME NEW d \in SoundClients, NEW i \in Queries, NEW e,
           \/ /\ i \in AskingOf(d.table) /\ e \in DnsAsking /\ OnTime(e)
              /\ e.name = d.table[i].name /\ e.pcb_idx = d.table[i].pcb_idx
           \/ i \notin AskingOf(d.table) /\ e \in DnsIdle
    PROVE  [d EXCEPT !.table[i] = e] \in SoundClients
  <1> DEFINE t == [d.table EXCEPT ![i] = e]
             f == [d EXCEPT !.table[i] = e]
  <1>1. d \in DnsClients
    BY DnsFacts
  <1>2. d.table \in [Queries -> DnsAsking \cup DnsIdle]
    BY DnsFacts
  <1>3. /\ f.table = t /\ f.requests = d.requests /\ f.pcbs = d.pcbs /\ f.waiting = d.waiting
    BY <1>1 DEF DnsClients
  <1>4. t \in [Queries -> DnsAsking \cup DnsIdle]
    BY <1>2 DEF DnsIdle
  <1>5. f \in DnsClients
    BY <1>1, <1>4 DEF DnsClients
  <1> HIDE DEF f
  <1>6. AskingOf(t) = AskingOf(d.table)
    BY <1>2, QueryFacts DEF AskingOf
  <1>7. \A j \in AskingOf(t) : t[j].name = d.table[j].name /\ t[j].pcb_idx = d.table[j].pcb_idx
    BY <1>2, <1>6 DEF AskingOf
  <1>8. \A j \in AskingOf(t) : OnTime(t[j])
    BY <1>2, <1>6, DnsFacts DEF AskingOf
  <1> HIDE DEF t
  <1>9. Remembered(f)
    BY <1>3, DnsFacts DEF Remembered
  <1>10. Pursued(f)
    BY <1>3, <1>6, <1>7, DnsFacts DEF Pursued
  <1>11. Wanted(f)
    <2>1. \A j \in Queries : RequestsOf(f, j) = RequestsOf(d, j)
      BY <1>3 DEF RequestsOf
    <2>2. AskingOf(t) \subseteq Queries
      BY DEF AskingOf
    <2> QED BY <1>3, <1>6, <2>1, <2>2, DnsFacts DEF Wanted
  <1>12. Ports(f)
    BY <1>3, <1>6, <1>7, DnsFacts DEF Ports
  <1> QED BY <1>3, <1>5, <1>8, <1>9, <1>10, <1>11, <1>12 DEF f, SoundClients

LEMMA CallFound ==
    ASSUME OneRequestEach, NEW d \in SoundClients, NEW i \in AskingOf(d.table), NEW e \in DnsIdle
    PROVE  dns_call_found(d, i, e) \in SoundClients
  <1> DEFINE mine == RequestsOf(d, i)
             told == {d.requests[r].found : r \in mine}
             t == [d.table EXCEPT ![i] = e]
             q == [r \in Requests |-> IF r \in mine THEN NoRequest ELSE d.requests[r]]
             p == IF \E j \in (AskingOf(d.table) \cap Requests) \ {i} :
                        d.table[j].pcb_idx = d.table[i].pcb_idx
                  THEN d.pcbs ELSE d.pcbs \ {d.table[i].pcb_idx}
             w == [c \in Callers |-> IF c \in told THEN Nothing ELSE d.waiting[c]]
             f == [table |-> t, requests |-> q, pcbs |-> p, waiting |-> w]
  <1>1. /\ d.table \in [Queries -> DnsAsking \cup DnsIdle]
        /\ d.requests \in [Requests -> {NoRequest} \cup [found : Callers, idx : Queries]]
        /\ d.pcbs \subseteq SourcePorts
        /\ d.waiting \in [Callers -> Names \cup {Nothing}]
    BY DnsFacts
  <1>2. dns_call_found(d, i, e) = f
    BY DEF dns_call_found
  <1>3. /\ f.table = t /\ f.requests = q /\ f.pcbs = p /\ f.waiting = w
    OBVIOUS
  <1>4. f \in DnsClients
    <2>1. t \in [Queries -> DnsAsking \cup DnsIdle]
      BY <1>1 DEF AskingOf
    <2>2. q \in [Requests -> {NoRequest} \cup [found : Callers, idx : Queries]]
      BY <1>1
    <2>3. p \subseteq SourcePorts
      BY <1>1
    <2>4. w \in [Callers -> Names \cup {Nothing}]
      BY <1>1
    <2> HIDE DEF t, q, p, w
    <2> QED BY <2>1, <2>2, <2>3, <2>4 DEF DnsClients
  <1>5. AskingOf(t) = AskingOf(d.table) \ {i} /\ \A j \in AskingOf(t) : t[j] = d.table[j]
    BY <1>1, QueryFacts DEF AskingOf
  <1>6. \A r \in Requests :
           /\ q[r] # NoRequest => /\ q[r] = d.requests[r] /\ d.requests[r] # NoRequest
                                  /\ d.requests[r].idx # i
           /\ d.requests[r] # NoRequest /\ d.requests[r].idx # i => q[r] = d.requests[r]
    BY DEF RequestsOf
  <1>7. \A r \in Requests : q[r] # NoRequest => q[r].found \notin told
    <2>1. SUFFICES ASSUME NEW r \in Requests, q[r] # NoRequest, NEW s \in mine,
                          d.requests[s].found = q[r].found
                   PROVE  FALSE
      OBVIOUS
    <2>2. s \in Requests /\ d.requests[s] # NoRequest /\ d.requests[s].idx = i
      BY <2>1 DEF RequestsOf
    <2>3. q[r] = d.requests[r] /\ d.requests[r] # NoRequest /\ d.requests[r].idx # i
      BY <1>6, <2>1
    <2>4. s = r
      BY <2>1, <2>2, <2>3, DnsFacts DEF Pursued
    <2> QED BY <2>2, <2>3, <2>4
  <1>8. Remembered(f)
    <2>1. SUFFICES ASSUME NEW c \in Callers, w[c] # Nothing
                   PROVE  \E r \in Requests : q[r] # NoRequest /\ q[r].found = c
      BY <1>3 DEF Remembered
    <2>2. c \notin told /\ d.waiting[c] # Nothing
      BY <2>1
    <2>3. PICK r \in Requests : d.requests[r] # NoRequest /\ d.requests[r].found = c
      BY <2>2, DnsFacts DEF Remembered
    <2>4. r \notin mine
      BY <2>2, <2>3
    <2>5. q[r] = d.requests[r]
      BY <2>4
    <2> QED BY <2>3, <2>5
  <1>9. Pursued(f)
    <2>1. SUFFICES ASSUME NEW r \in Requests, q[r] # NoRequest
                   PROVE  /\ q[r].idx \in AskingOf(t)
                          /\ w[q[r].found] = t[q[r].idx].name
                          /\ \A s \in Requests :
                                q[s] # NoRequest /\ q[s].found = q[r].found => s = r
      BY <1>3 DEF Pursued
    <2>2. q[r] = d.requests[r] /\ d.requests[r] # NoRequest /\ d.requests[r].idx # i
      BY <1>6, <2>1
    <2>3. /\ d.requests[r].idx \in AskingOf(d.table)
          /\ d.waiting[d.requests[r].found] = d.table[d.requests[r].idx].name
          /\ \A s \in Requests :
                d.requests[s] # NoRequest /\ d.requests[s].found = d.requests[r].found => s = r
      BY <2>2, DnsFacts DEF Pursued
    <2>4. q[r].idx \in AskingOf(t) /\ t[q[r].idx] = d.table[q[r].idx]
      BY <1>5, <2>2, <2>3
    <2>5. q[r].found \in Callers /\ q[r].found \notin told
      BY <1>7, <2>1, <2>2, RequestFacts
    <2>6. w[q[r].found] = d.waiting[q[r].found]
      BY <2>5
    <2>7. \A s \in Requests : q[s] # NoRequest /\ q[s].found = q[r].found => s = r
      BY <1>6, <2>2, <2>3
    <2> QED BY <2>2, <2>3, <2>4, <2>6, <2>7
  <1>10. Wanted(f)
    <2>1. SUFFICES ASSUME NEW j \in AskingOf(t)
                   PROVE  \E r \in Requests : q[r] # NoRequest /\ q[r].idx = j
      BY <1>3 DEF Wanted, RequestsOf
    <2>2. j \in AskingOf(d.table) /\ j # i
      BY <1>5
    <2>3. PICK r \in Requests : d.requests[r] # NoRequest /\ d.requests[r].idx = j
      BY <2>2, DnsFacts DEF Wanted, RequestsOf
    <2> QED BY <1>6, <2>2, <2>3
  <1>11. Ports(f)
    <2>1. d.pcbs = {d.table[j].pcb_idx : j \in AskingOf(d.table)}
      BY DnsFacts DEF Ports
    <2>2. {t[j].pcb_idx : j \in AskingOf(t)} = {d.table[j].pcb_idx : j \in AskingOf(d.table) \ {i}}
      BY <1>5
    <2>3. AskingOf(d.table) \cap Requests = AskingOf(d.table)
      BY DEF OneRequestEach, AskingOf, Queries, Requests
    <2>4. p = {d.table[j].pcb_idx : j \in AskingOf(d.table) \ {i}}
      BY <2>1, <2>3
    <2> QED BY <1>3, <2>2, <2>4 DEF Ports
  <1>12. \A j \in AskingOf(t) : OnTime(t[j])
    BY <1>5, DnsFacts
  <1> HIDE DEF f
  <1> QED BY <1>2, <1>3, <1>4, <1>8, <1>9, <1>10, <1>11, <1>12 DEF SoundClients

(* A query is retried, then asked of another server, then given up. *)
LEMMA SendKeeps ==
    ASSUME OneRequestEach, NEW d \in SoundClients, NEW i \in AskingOf(d.table), NEW e \in DnsAsking, OnTime(e),
           e.name = d.table[i].name, e.pcb_idx = d.table[i].pcb_idx
    PROVE  dns_send(d, i, e) \in SoundClients
  <1>1. i \in Queries
    BY DEF AskingOf
  <1>2. [d EXCEPT !.table[i] = e] \in SoundClients
    BY <1>1, SameQuery
  <1>3. dns_call_found(d, i, UNUSED) \in SoundClients
    BY CallFound DEF DnsIdle
  <1> QED BY <1>2, <1>3 DEF dns_send

LEMMA AskingFacts ==
    ASSUME NEW e \in DnsAsking
    PROVE  /\ e.tmr \in Nat \ {0} /\ e.age \in Nat
           /\ e.retries \in 0..DNS_MAX_RETRIES
           /\ e.server_idx \in 1..DNS_MAX_SERVERS
           /\ DNS_MAX_RETRIES \in Nat \ {0} /\ DNS_MAX_SERVERS \in Nat
  BY DnsAssumption DEF DnsAsking

(* How the three changes of a query that runs keep it on time. *)
LEMMA Ticked ==
    ASSUME NEW e \in DnsAsking, OnTime(e), e.tmr > 1
    PROVE  LET f == [e EXCEPT !.tmr = @ - 1, !.age = @ + 1]
           IN  f \in DnsAsking /\ OnTime(f) /\ f.name = e.name /\ f.pcb_idx = e.pcb_idx
  <1> DEFINE f == [e EXCEPT !.tmr = @ - 1, !.age = @ + 1]
  <1>1. e.tmr - 1 \in Nat \ {0} /\ e.age + 1 \in Nat
    BY AskingFacts
  <1>2. f \in DnsAsking
    BY <1>1 DEF DnsAsking
  <1>3. /\ f.tmr = e.tmr - 1 /\ f.age = e.age + 1 /\ f.server_idx = e.server_idx
        /\ f.retries = e.retries /\ f.name = e.name /\ f.pcb_idx = e.pcb_idx
    BY DEF DnsAsking
  <1> HIDE DEF f
  <1>4. f.age + f.tmr = e.age + e.tmr
    BY <1>3, AskingFacts
  <1>5. OnTime(f)
    BY <1>3, <1>4 DEF OnTime
  <1> QED BY <1>2, <1>3, <1>5 DEF f

LEMMA Retried ==
    ASSUME NEW b \in DnsAsking, OnTime(b), b.tmr = 1
    PROVE  LET e == [b EXCEPT !.retries = @ + 1, !.age = @ + 1]
           IN  /\ e \in DnsAsking /\ e.retries \in Nat \ {0}
               /\ e.name = b.name /\ e.pcb_idx = b.pcb_idx
               /\ e.age = (e.server_idx - 1) * Patience + 1 + Rounds(e.retries)
  <1> DEFINE e == [b EXCEPT !.retries = @ + 1, !.age = @ + 1]
  <1>1. /\ b.retries < DNS_MAX_RETRIES /\ b.retries \in 0..DNS_MAX_RETRIES /\ b.age \in Nat
        /\ DNS_MAX_RETRIES \in Nat
    BY AskingFacts DEF OnTime
  <1>2. b.retries + 1 \in 0..DNS_MAX_RETRIES /\ b.age + 1 \in Nat
    BY <1>1
  <1>3. e \in DnsAsking
    BY <1>2 DEF DnsAsking
  <1>4. /\ e.age = b.age + 1 /\ e.retries = b.retries + 1 /\ e.server_idx = b.server_idx
        /\ e.name = b.name /\ e.pcb_idx = b.pcb_idx
    BY DEF DnsAsking
  <1> HIDE DEF e
  <1>5. b.age + 1 = (b.server_idx - 1) * Patience + 1 + Rounds(b.retries + 1)
    BY DEF OnTime
  <1>6. e.retries \in Nat \ {0}
    BY <1>1, <1>4
  <1> QED BY <1>3, <1>4, <1>5, <1>6 DEF e

LEMMA AskedAgain ==
    ASSUME NEW e \in DnsAsking, e.retries \in Nat \ {0}, e.retries # DNS_MAX_RETRIES,
           e.age = (e.server_idx - 1) * Patience + 1 + Rounds(e.retries)
    PROVE  LET f == [e EXCEPT !.tmr = e.retries]
           IN  f \in DnsAsking /\ OnTime(f) /\ f.name = e.name /\ f.pcb_idx = e.pcb_idx
  <1> DEFINE f == [e EXCEPT !.tmr = e.retries]
  <1>1. f \in DnsAsking
    BY DEF DnsAsking
  <1>2. /\ f.age = e.age /\ f.tmr = e.retries /\ f.retries = e.retries
        /\ f.server_idx = e.server_idx /\ f.name = e.name /\ f.pcb_idx = e.pcb_idx
    BY DEF DnsAsking
  <1> HIDE DEF f
  <1>3. e.retries < DNS_MAX_RETRIES
    BY AskingFacts
  <1>4. Rounds(e.retries) \in Int /\ Rounds(e.retries + 1) = Rounds(e.retries) + e.retries
    BY RoundsFacts
  <1>5. (e.server_idx - 1) * Patience \in Int
    BY AskingFacts, RoundsFacts
  <1>6. e.age + e.retries = (e.server_idx - 1) * Patience + 1 + Rounds(e.retries + 1)
    BY <1>4, <1>5
  <1>7. OnTime(f)
    BY <1>2, <1>3, <1>6 DEF OnTime
  <1> QED BY <1>1, <1>2, <1>7 DEF f

LEMMA AskedElsewhere ==
    ASSUME NEW e \in DnsAsking, e.retries = DNS_MAX_RETRIES, e.server_idx < DNS_MAX_SERVERS,
           e.age = (e.server_idx - 1) * Patience + 1 + Rounds(e.retries)
    PROVE  LET f == NextServer(e)
           IN  f \in DnsAsking /\ OnTime(f) /\ f.name = e.name /\ f.pcb_idx = e.pcb_idx
  <1> DEFINE f1 == [e EXCEPT !.server_idx = @ + 1]
             f2 == [f1 EXCEPT !.tmr = 1]
             f == NextServer(e)
  <1>1. f \in DnsAsking
    <2>1. e.server_idx + 1 \in 1..DNS_MAX_SERVERS /\ 0 \in 0..DNS_MAX_RETRIES
      BY AskingFacts
    <2>2. f1 \in DnsAsking
      BY <2>1 DEF DnsAsking
    <2> HIDE DEF f1
    <2>3. f2 \in DnsAsking
      BY <2>2 DEF DnsAsking
    <2> HIDE DEF f2
    <2>4. [f2 EXCEPT !.retries = 0] \in DnsAsking
      BY <2>1, <2>3 DEF DnsAsking
    <2>5. f = [f2 EXCEPT !.retries = 0]
      BY DEF f1, f2, NextServer
    <2> QED BY <2>4, <2>5
  <1>2. /\ f.tmr = 1 /\ f.age = e.age /\ f.server_idx = e.server_idx + 1
        /\ f.retries = 0 /\ f.name = e.name /\ f.pcb_idx = e.pcb_idx
    BY DEF DnsAsking, NextServer
  <1> HIDE DEF f
  <1>3. OnTime(f)
    <2>1. /\ e.server_idx \in Nat /\ DNS_MAX_RETRIES \in Nat \ {0}
      BY AskingFacts
    <2>2. Patience = 1 + Rounds(e.retries) /\ Patience \in Int /\ Rounds(1) = 0
      BY RoundsFacts
    <2>3. /\ ((e.server_idx + 1) - 1) * Patience = (e.server_idx - 1) * Patience + Patience
          /\ (e.server_idx - 1) * Patience \in Int
      BY <2>1, <2>2
    <2>4. Rounds(e.retries) \in Int
      BY <2>1, RoundsFacts
    <2>5. e.age + 1 = ((e.server_idx + 1) - 1) * Patience + 1 + Rounds(1)
      BY <2>2, <2>3, <2>4
    <2>6. f.retries + 1 = 1 /\ f.retries < DNS_MAX_RETRIES
      BY <1>2, <2>1
    <2> QED BY <1>2, <2>5, <2>6 DEF OnTime
  <1> QED BY <1>1, <1>2, <1>3 DEF f

LEMMA RetryKeeps ==
    ASSUME OneRequestEach, NEW d \in SoundClients, NEW i \in AskingOf(d.table), d.table[i].tmr = 1
    PROVE  dns_retry(d, i, [d.table[i] EXCEPT !.retries = @ + 1, !.age = @ + 1]) \in SoundClients
  <1>1. d.table[i] \in DnsAsking /\ OnTime(d.table[i])
    BY DnsFacts, QueryFacts DEF AskingOf
  <1>2. PICK b \in DnsAsking : b = d.table[i] /\ OnTime(b) /\ b.tmr = 1
    BY <1>1
  <1>3. PICK e \in DnsAsking :
           /\ e = [b EXCEPT !.retries = @ + 1, !.age = @ + 1] /\ e.retries \in Nat \ {0}
           /\ e.name = d.table[i].name /\ e.pcb_idx = d.table[i].pcb_idx
           /\ e.age = (e.server_idx - 1) * Patience + 1 + Rounds(e.retries)
    BY <1>2, Retried
  <1>4. SUFFICES dns_retry(d, i, e) \in SoundClients
    BY <1>2, <1>3
  <1>5. CASE e.retries # DNS_MAX_RETRIES
    <2>1. dns_send(d, i, [e EXCEPT !.tmr = e.retries]) \in SoundClients
      BY <1>3, <1>5, AskedAgain, SendKeeps
    <2> QED BY <1>5, <2>1 DEF dns_retry
  <1>6. CASE /\ e.retries = DNS_MAX_RETRIES
             /\ e.server_idx < DNS_MAX_SERVERS /\ dns_servers[e.server_idx + 1]
    <2>1. dns_send(d, i, NextServer(e)) \in SoundClients
      BY <1>3, <1>6, AskedElsewhere, SendKeeps
    <2> QED BY <1>6, <2>1 DEF dns_retry
  <1>7. dns_call_found(d, i, UNUSED) \in SoundClients
    BY CallFound DEF DnsIdle
  <1> QED BY <1>5, <1>6, <1>7 DEF dns_retry

LEMMA CheckKeeps ==
    ASSUME OneRequestEach, NEW d \in SoundClients, NEW i \in Queries
    PROVE  dns_check_entry(d, i) \in SoundClients
  <1> DEFINE e == d.table[i]
  <1>1. d \in DnsClients /\ e \in DnsAsking \cup DnsIdle
    BY DnsFacts
  <1>2. CASE e.state = "ASKING"
    <2>1. i \in AskingOf(d.table) /\ e \in DnsAsking /\ OnTime(e)
      BY <1>1, <1>2, DnsFacts, QueryFacts DEF AskingOf
    <2>2. CASE e.tmr > 1
      <3> DEFINE f == [e EXCEPT !.tmr = @ - 1, !.age = @ + 1]
      <3>1. f \in DnsAsking /\ OnTime(f) /\ f.name = e.name /\ f.pcb_idx = e.pcb_idx
        BY <2>1, <2>2, Ticked
      <3>2. [d EXCEPT !.table[i] = f] \in SoundClients
        <4> HIDE DEF f
        <4> QED BY <2>1, <3>1, SameQuery
      <3>3. [d EXCEPT !.table[i].tmr = @ - 1, !.table[i].age = @ + 1] = [d EXCEPT !.table[i] = f]
        BY <1>1, <2>1 DEF DnsClients, DnsAsking
      <3> QED BY <1>2, <2>2, <3>2, <3>3 DEF dns_check_entry
    <2>3. CASE e.tmr = 1
      <3>1. dns_retry(d, i, [e EXCEPT !.retries = @ + 1, !.age = @ + 1]) \in SoundClients
        BY <2>1, <2>3, RetryKeeps
      <3>2. e.state # "DONE" /\ ~ (e.tmr > 1)
        BY <1>2, <2>3
      <3> QED BY <1>2, <2>3, <3>1, <3>2 DEF dns_check_entry
    <2>4. e.tmr > 1 \/ e.tmr = 1
      BY <2>1, AskingFacts
    <2> QED BY <2>2, <2>3, <2>4
  <1>3. CASE e.state = "DONE"
    <2>1. i \notin AskingOf(d.table) /\ e \in DnsDone
      BY <1>1, <1>3, QueryFacts DEF AskingOf
    <2>2. CASE e.ttl > 1
      <3> DEFINE f == [e EXCEPT !.ttl = @ - 1]
      <3>1. f \in DnsIdle
        BY <2>1, <2>2 DEF DnsIdle, DnsDone
      <3>2. [d EXCEPT !.table[i] = f] \in SoundClients
        <4> HIDE DEF f
        <4> QED BY <2>1, <3>1, SameQuery
      <3>3. [d EXCEPT !.table[i].ttl = @ - 1] = [d EXCEPT !.table[i] = f]
        BY <1>1, <2>1 DEF DnsClients, DnsDone
      <3> QED BY <1>3, <2>2, <3>2, <3>3 DEF dns_check_entry
    <2>3. CASE e.ttl = 1
      <3>1. [d EXCEPT !.table[i] = UNUSED] \in SoundClients
        BY <2>1, SameQuery DEF DnsIdle
      <3> QED BY <1>3, <2>3, <3>1 DEF dns_check_entry
    <2>4. e.ttl > 1 \/ e.ttl = 1
      BY <2>1 DEF DnsDone
    <2> QED BY <2>2, <2>3, <2>4
  <1>4. CASE e.state = "UNUSED"
    BY <1>4 DEF dns_check_entry
  <1> QED BY <1>1, <1>2, <1>3, <1>4, QueryFacts

(* dns_tmr looks at every entry once. *)
LEMMA ChecksKeep ==
    ASSUME OneRequestEach, DnsClient \in SoundClients
    PROVE  dns_check_entries \in SoundClients
  <1> DEFINE N == DNS_TABLE_SIZE
             checked[k \in 0..N] ==
                IF k = 0 THEN DnsClient ELSE dns_check_entry(checked[k - 1], k)
  <1>1. N \in Nat /\ Queries = 1..N
    BY DnsAssumption DEF Queries
  <1>2. \E f : f = [k \in 0..N |-> IF k = 0 THEN DnsClient ELSE dns_check_entry(f[k - 1], k)]
    <2> DEFINE step == [x \in SoundClients \X (1..N) |-> dns_check_entry(x[1], x[2])]
    <2>1. step \in [SoundClients \X (1..N) -> SoundClients]
      BY <1>1, CheckKeeps
    <2>2. PICK f \in [0..N -> SoundClients] :
             Along(f, N, DnsClient, step)
      <3> HIDE DEF step
      <3> QED BY <1>1, <2>1, StepsExist
    <2>3. \A k \in 0..N : k # 0 => step[<<f[k - 1], k>>] = dns_check_entry(f[k - 1], k)
      <3>1. \A k \in 0..N : k # 0 => k - 1 \in 0..N /\ k \in 1..N
        BY <1>1
      <3> QED BY <2>2, <3>1
    <2> HIDE DEF step
    <2>4. \A k \in 0..N : f[k] = IF k = 0 THEN DnsClient ELSE dns_check_entry(f[k - 1], k)
      BY <2>2, <2>3 DEF Along
    <2>5. f = [k \in 0..N |-> f[k]]
      BY <2>2
    <2>6. f = [k \in 0..N |-> IF k = 0 THEN DnsClient ELSE dns_check_entry(f[k - 1], k)]
      BY <2>4, <2>5, Zenon
    <2> QED BY <2>6
  <1>3. checked = [k \in 0..N |-> IF k = 0 THEN DnsClient ELSE dns_check_entry(checked[k - 1], k)]
    BY <1>2
  <1>4. dns_check_entries = checked[N]
    BY DEF dns_check_entries
  <1> HIDE DEF checked
  <1>5. checked[0] \in SoundClients
    BY <1>1, <1>3
  <1>6. \A k \in 1..N : checked[k - 1] \in SoundClients => checked[k] \in SoundClients
    <2>1. \A k \in 1..N : checked[k] = dns_check_entry(checked[k - 1], k)
      BY <1>1, <1>3
    <2> QED BY <1>1, <2>1, CheckKeeps
  <1> QED BY <1>1, <1>4, <1>5, <1>6, HoldsAlong

(* A caller is added to a query that runs, or to one that starts with it. *)
LEMMA CallerAdded ==
    ASSUME NEW d \in SoundClients, NEW i \in Queries, NEW e \in DnsAsking, OnTime(e),
           i \in AskingOf(d.table) => d.table[i] = e,
           NEW r \in Requests, d.requests[r] = NoRequest,
           NEW c \in Callers, d.waiting[c] = Nothing
    PROVE  [table |-> [d.table EXCEPT ![i] = e],
            requests |-> [d.requests EXCEPT ![r] = [found |-> c, idx |-> i]],
            pcbs |-> d.pcbs \cup {e.pcb_idx},
            waiting |-> [d.waiting EXCEPT ![c] = e.name]] \in SoundClients
  <1> DEFINE t == [d.table EXCEPT ![i] = e]
             new == [found |-> c, idx |-> i]
             q == [d.requests EXCEPT ![r] = new]
             p == d.pcbs \cup {e.pcb_idx}
             w == [d.waiting EXCEPT ![c] = e.name]
             f == [table |-> t, requests |-> q, pcbs |-> p, waiting |-> w]
  <1>1. /\ d.table \in [Queries -> DnsAsking \cup DnsIdle]
        /\ d.requests \in [Requests -> {NoRequest} \cup [found : Callers, idx : Queries]]
        /\ d.pcbs \subseteq SourcePorts
        /\ d.waiting \in [Callers -> Names \cup {Nothing}]
    BY DnsFacts
  <1>2. /\ f.table = t /\ f.requests = q /\ f.pcbs = p /\ f.waiting = w
    OBVIOUS
  <1>3. e.name \in Names /\ e.pcb_idx \in SourcePorts /\ e.state = "ASKING"
    BY DEF DnsAsking
  <1>4. e.name # Nothing
    BY <1>3, DnsAssumption
  <1>5. new \in [found : Callers, idx : Queries] /\ new # NoRequest /\ new.found = c /\ new.idx = i
    BY DnsAssumption DEF NoRequest
  <1> HIDE DEF new
  <1>6. f \in DnsClients
    <2>1. t \in [Queries -> DnsAsking \cup DnsIdle]
      BY <1>1
    <2>2. q \in [Requests -> {NoRequest} \cup [found : Callers, idx : Queries]]
      BY <1>1, <1>5
    <2>3. p \subseteq SourcePorts
      BY <1>1, <1>3
    <2>4. w \in [Callers -> Names \cup {Nothing}]
      BY <1>1, <1>3
    <2> HIDE DEF t, q, p, w
    <2> QED BY <2>1, <2>2, <2>3, <2>4 DEF DnsClients
  <1>7. /\ AskingOf(t) = AskingOf(d.table) \cup {i}
        /\ \A j \in AskingOf(d.table) : t[j] = d.table[j]
        /\ t[i] = e
    BY <1>1, <1>3 DEF AskingOf
  <1>8. /\ q[r] = new /\ \A s \in Requests : s # r => q[s] = d.requests[s]
        /\ w[c] = e.name /\ \A b \in Callers : b # c => w[b] = d.waiting[b]
    BY <1>1
  <1>9. \A s \in Requests : d.requests[s] # NoRequest =>
           s # r /\ d.requests[s].found \in Callers /\ d.requests[s].found # c
    <2>1. SUFFICES ASSUME NEW s \in Requests, d.requests[s] # NoRequest
                   PROVE  d.requests[s].found \in Callers /\ d.requests[s].found # c
      OBVIOUS
    <2>2. /\ d.requests[s].idx \in AskingOf(d.table)
          /\ d.waiting[d.requests[s].found] = d.table[d.requests[s].idx].name
      BY <2>1, DnsFacts DEF Pursued
    <2>3. d.table[d.requests[s].idx] \in DnsAsking
      BY <1>1, <2>2, QueryFacts DEF AskingOf
    <2>4. d.table[d.requests[s].idx].name \in Names
      BY <2>3 DEF DnsAsking
    <2> QED BY <2>1, <2>2, <2>4, RequestFacts, DnsAssumption
  <1> HIDE DEF t, q, w
  <1>10. Remembered(f)
    <2>1. SUFFICES ASSUME NEW b \in Callers, w[b] # Nothing
                   PROVE  \E s \in Requests : q[s] # NoRequest /\ q[s].found = b
      BY <1>2 DEF Remembered
    <2>2. CASE b = c
      BY <1>5, <1>8, <2>2
    <2>3. CASE b # c
      <3>1. PICK s \in Requests : d.requests[s] # NoRequest /\ d.requests[s].found = b
        BY <1>8, <2>1, <2>3, DnsFacts DEF Remembered
      <3> QED BY <1>8, <1>9, <3>1
    <2> QED BY <2>2, <2>3
  <1>11. Pursued(f)
    <2>1. SUFFICES ASSUME NEW s \in Requests, q[s] # NoRequest
                   PROVE  /\ q[s].idx \in AskingOf(t)
                          /\ w[q[s].found] = t[q[s].idx].name
                          /\ \A u \in Requests :
                                q[u] # NoRequest /\ q[u].found = q[s].found => u = s
      BY <1>2 DEF Pursued
    <2>2. CASE s = r
      <3>1. q[s].found = c /\ q[s].idx = i
        BY <1>5, <1>8, <2>2
      <3>2. \A u \in Requests : q[u] # NoRequest /\ q[u].found = c => u = s
        BY <1>8, <1>9, <2>2
      <3> QED BY <1>7, <1>8, <3>1, <3>2
    <2>3. CASE s # r
      <3>1. q[s] = d.requests[s] /\ d.requests[s] # NoRequest
        BY <1>8, <2>1, <2>3
      <3>2. d.requests[s].found \in Callers /\ d.requests[s].found # c
        BY <1>9, <3>1
      <3>3. /\ d.requests[s].idx \in AskingOf(d.table)
            /\ d.waiting[d.requests[s].found] = d.table[d.requests[s].idx].name
            /\ \A u \in Requests :
                  d.requests[u] # NoRequest /\ d.requests[u].found = d.requests[s].found => u = s
        BY <3>1, DnsFacts DEF Pursued
      <3>4. \A u \in Requests : q[u] # NoRequest /\ q[u].found = q[s].found => u = s
        <4>1. SUFFICES ASSUME NEW u \in Requests, q[u] # NoRequest, q[u].found = q[s].found
                       PROVE  u = s
          OBVIOUS
        <4>2. u # r
          BY <1>5, <1>8, <3>1, <3>2, <4>1
        <4> QED BY <1>8, <3>1, <3>3, <4>1, <4>2
      <3> QED BY <1>7, <1>8, <3>1, <3>2, <3>3, <3>4
    <2> QED BY <2>2, <2>3
  <1>12. Wanted(f)
    <2>1. SUFFICES ASSUME NEW j \in AskingOf(t)
                   PROVE  \E s \in Requests : q[s] # NoRequest /\ q[s].idx = j
      BY <1>2 DEF Wanted, RequestsOf
    <2>2. CASE j = i
      BY <1>5, <1>8, <2>2
    <2>3. CASE j # i
      <3>1. j \in AskingOf(d.table)
        BY <1>7, <2>3
      <3>2. PICK s \in Requests : d.requests[s] # NoRequest /\ d.requests[s].idx = j
        BY <3>1, DnsFacts DEF Wanted, RequestsOf
      <3> QED BY <1>8, <1>9, <3>2
    <2> QED BY <2>2, <2>3
  <1>13. Ports(f)
    <2>1. d.pcbs = {d.table[j].pcb_idx : j \in AskingOf(d.table)}
      BY DnsFacts DEF Ports
    <2>2. {t[j].pcb_idx : j \in AskingOf(t)} = {d.table[j].pcb_idx : j \in AskingOf(d.table)} \cup {e.pcb_idx}
      BY <1>7
    <2> QED BY <1>2, <2>1, <2>2 DEF Ports
  <1>14. \A j \in AskingOf(t) : OnTime(t[j])
    BY <1>7, DnsFacts
  <1> HIDE DEF f
  <1> QED BY <1>2, <1>6, <1>10, <1>11, <1>12, <1>13, <1>14 DEF f, t, q, p, w, new, SoundClients

(* The entry for a new query is not one that runs. *)
LEMMA SlotFacts ==
    ASSUME DnsIInv, Unused \cup AgedAnswers # {}
    PROVE  Slot \in Queries \ AskingOf(dns_table)
  <1>1. Queries \subseteq Nat /\ DNS_TABLE_SIZE \in Nat
    BY DnsAssumption DEF Queries
  <1>2. dns_table \in [Queries -> DnsAsking \cup DnsIdle]
    BY DnsFacts DEF DnsIInv, DnsClient
  <1>3. CASE Unused # {}
    <2>1. Unused \in SUBSET Nat
      BY <1>1 DEF Unused
    <2>2. Min(Unused) \in Unused
      BY <1>3, <2>1, LeastIsIn
    <2> QED BY <1>3, <2>2 DEF Slot, Unused, AskingOf
  <1>4. CASE Unused = {}
    <2> DEFINE A == AgedAnswers
               O == {i \in A : \A j \in A : AgeOf(j) <= AgeOf(i)}
    <2>1. A \subseteq Queries \ AskingOf(dns_table) /\ A # {}
      BY <1>4 DEF AgedAnswers, AskingOf
    <2>2. \A i \in A : AgeOf(i) \in 0..(SeqModulus - 1)
      <3>1. SUFFICES ASSUME NEW i \in A PROVE AgeOf(i) \in 0..(SeqModulus - 1)
        OBVIOUS
      <3>2. dns_table[i] \in DnsDone
        BY <1>2, <3>1, QueryFacts DEF AgedAnswers
      <3>3. dns_table[i].seqno \in Int /\ dns_seqno \in Int /\ SeqModulus \in Nat \ {0}
        BY <3>2, DnsAssumption DEF DnsIInv, DnsDone
      <3>4. dns_seqno - dns_table[i].seqno \in Int
        BY <3>3
      <3> QED BY <3>3, <3>4 DEF AgeOf
    <2> HIDE DEF A
    <2> DEFINE ages == {AgeOf(i) : i \in A}
    <2>3. ages \in SUBSET (0..(SeqModulus - 1)) /\ ages # {} /\ SeqModulus - 1 \in Nat
      BY <2>1, <2>2, DnsAssumption
    <2>4. PICK a \in ages : \A b \in ages : b <= a
      <3> HIDE DEF ages
      <3> QED BY <2>3, GreatestNatural
    <2>5. O # {} /\ O \subseteq A
      BY <2>4
    <2>6. O \in SUBSET Nat
      BY <1>1, <2>1, <2>5
    <2>7. Min(O) \in O
      <3> HIDE DEF O
      <3> QED BY <2>5, <2>6, LeastIsIn
    <2>8. Slot = Min(O)
      BY <1>4 DEF Slot, OldestDone, A
    <2> QED BY <2>1, <2>5, <2>7, <2>8
  <1> QED BY <1>3, <1>4

LEMMA FreeRequestFacts ==
    ASSUME FreeRequests # {}
    PROVE  Min(FreeRequests) \in Requests /\ dns_requests[Min(FreeRequests)] = NoRequest
  <1>1. FreeRequests \in SUBSET Nat
    BY DnsAssumption DEF FreeRequests, Requests
  <1>2. Min(FreeRequests) \in FreeRequests
    BY <1>1, LeastIsIn
  <1> QED BY <1>2 DEF FreeRequests

LEMMA Primed ==
    DnsClient' = [table |-> dns_table', requests |-> dns_requests', pcbs |-> dns_pcbs',
                  waiting |-> waiting']
  BY DEF DnsClient

LEMMA BecomesFacts ==
    ASSUME NEW d \in SoundClients, Becomes(d)
    PROVE  DnsClient' \in SoundClients
  <1>1. d \in DnsClients
    BY DnsFacts
  <1>2. d = [table |-> d.table, requests |-> d.requests, pcbs |-> d.pcbs, waiting |-> d.waiting]
    BY <1>1 DEF DnsClients
  <1>3. DnsClient' = d
    BY <1>2, Primed DEF Becomes
  <1> QED BY <1>3

LEMMA JoinKeeps ==
    ASSUME DnsIInv, NEW c \in Callers, NEW name \in Names, waiting[c] = Nothing,
           FreeRequests # {}, AskedFor(name) # {}, JoinQuery(c, name)
    PROVE  DnsClient' \in SoundClients
  <1> DEFINE i == Min(AskedFor(name))
             r == Min(FreeRequests)
             e == dns_table[i]
  <1>1. /\ DnsClient \in SoundClients
        /\ DnsClient.table = dns_table /\ DnsClient.requests = dns_requests
        /\ DnsClient.pcbs = dns_pcbs /\ DnsClient.waiting = waiting
    BY DEF DnsIInv, DnsClient
  <1>2. i \in AskedFor(name)
    <2>1. AskedFor(name) \in SUBSET Nat
      BY DnsAssumption DEF AskedFor, AskingOf, Queries
    <2> QED BY <2>1, LeastIsIn
  <1>3. i \in Queries /\ i \in AskingOf(dns_table) /\ e.name = name
    BY <1>2 DEF AskedFor, AskingOf
  <1>4. e \in DnsAsking /\ OnTime(e) /\ dns_table \in [Queries -> DnsAsking \cup DnsIdle]
    BY <1>1, <1>3, DnsFacts, QueryFacts DEF AskingOf
  <1>5. r \in Requests /\ dns_requests[r] = NoRequest
    BY FreeRequestFacts
  <1> HIDE DEF i, r, e
  <1>6. [table |-> [dns_table EXCEPT ![i] = e],
         requests |-> [dns_requests EXCEPT ![r] = [found |-> c, idx |-> i]],
         pcbs |-> dns_pcbs \cup {e.pcb_idx},
         waiting |-> [waiting EXCEPT ![c] = e.name]] \in SoundClients
    <2>1. PICK d \in SoundClients : d = DnsClient
      BY <1>1
    <2>2. PICK b \in DnsAsking : b = e
      BY <1>4
    <2>3. /\ OnTime(b) /\ d.table[i] = b
          /\ d.requests[r] = NoRequest /\ d.waiting[c] = Nothing
      BY <1>1, <1>4, <1>5, <2>1, <2>2 DEF e
    <2>4. [table |-> [d.table EXCEPT ![i] = b],
           requests |-> [d.requests EXCEPT ![r] = [found |-> c, idx |-> i]],
           pcbs |-> d.pcbs \cup {b.pcb_idx},
           waiting |-> [d.waiting EXCEPT ![c] = b.name]] \in SoundClients
      BY <1>3, <1>5, <2>3, CallerAdded
    <2> QED BY <1>1, <2>1, <2>2, <2>4
  <1>7. [dns_table EXCEPT ![i] = e] = dns_table
    BY <1>3, <1>4 DEF e
  <1>8. dns_pcbs \cup {e.pcb_idx} = dns_pcbs
    BY <1>1, <1>3, DnsFacts DEF Ports, e
  <1>9. /\ dns_table' = dns_table /\ dns_pcbs' = dns_pcbs
        /\ dns_requests' = [dns_requests EXCEPT ![r] = [found |-> c, idx |-> i]]
        /\ waiting' = [waiting EXCEPT ![c] = name]
    BY DEF JoinQuery, Register, i, r
  <1> QED BY <1>3, <1>6, <1>7, <1>8, <1>9, Primed

LEMMA StartKeeps ==
    ASSUME DnsIInv, NEW c \in Callers, NEW name \in Names, waiting[c] = Nothing,
           FreeRequests # {}, Unused \cup AgedAnswers # {}, StartQuery(c, name)
    PROVE  /\ DnsClient' \in SoundClients
           /\ dns_last_pcb_idx' \in SourcePorts /\ dns_seqno' \in 0..(SeqModulus - 1)
  <1> DEFINE i == Slot
             r == Min(FreeRequests)
  <1>1. /\ DnsClient \in SoundClients
        /\ DnsClient.table = dns_table /\ DnsClient.requests = dns_requests
        /\ DnsClient.pcbs = dns_pcbs /\ DnsClient.waiting = waiting
    BY DEF DnsIInv, DnsClient
  <1>2. i \in Queries /\ i \notin AskingOf(dns_table)
    BY SlotFacts
  <1>3. r \in Requests /\ dns_requests[r] = NoRequest
    BY FreeRequestFacts
  <1>4. PICK p \in SourcePorts :
           /\ dns_pcbs' = dns_pcbs \cup {p} /\ dns_last_pcb_idx' = p
           /\ dns_table' = [dns_table EXCEPT ![i] = NewQuery(name, p)]
    BY DEF StartQuery, dns_alloc_pcb
  <1>5. /\ dns_requests' = [dns_requests EXCEPT ![r] = [found |-> c, idx |-> i]]
        /\ waiting' = [waiting EXCEPT ![c] = name]
        /\ dns_seqno' = (dns_seqno + 1) % SeqModulus
    BY DEF StartQuery, Register
  <1> HIDE DEF i, r
  <1>6. PICK e : e = NewQuery(name, p)
    OBVIOUS
  <1>7. e \in DnsAsking /\ e.name = name /\ e.pcb_idx = p
    BY <1>6, DnsAssumption DEF DnsIInv, NewQuery, DnsAsking
  <1>8. OnTime(e)
    <2>1. e.age = 0 /\ e.tmr = 1 /\ e.server_idx = 1 /\ e.retries = 0
      BY <1>6 DEF NewQuery
    <2>2. Patience \in Int /\ Rounds(1) = 0 /\ DNS_MAX_RETRIES \in Nat \ {0}
      BY RoundsFacts, DnsAssumption
    <2>3. (e.server_idx - 1) * Patience = 0 /\ e.retries + 1 = 1
      BY <2>1, <2>2
    <2> QED BY <2>1, <2>2, <2>3 DEF OnTime
  <1>9. DnsClient' \in SoundClients
    <2>1. PICK d \in SoundClients : d = DnsClient
      BY <1>1
    <2>2. [table |-> [d.table EXCEPT ![i] = e],
           requests |-> [d.requests EXCEPT ![r] = [found |-> c, idx |-> i]],
           pcbs |-> d.pcbs \cup {e.pcb_idx},
           waiting |-> [d.waiting EXCEPT ![c] = e.name]] \in SoundClients
      BY <1>1, <1>2, <1>3, <1>7, <1>8, <2>1, CallerAdded
    <2> QED BY <1>1, <1>4, <1>5, <1>6, <1>7, <2>1, <2>2, Primed
  <1>10. dns_seqno' \in 0..(SeqModulus - 1)
    BY <1>5, DnsAssumption DEF DnsIInv
  <1> QED BY <1>4, <1>9, <1>10

LEMMA NoPortKeeps ==
    ASSUME DnsIInv, Unused \cup AgedAnswers # {}, NoPort
    PROVE  DnsClient' \in SoundClients
  <1>1. PICK d \in SoundClients : d = DnsClient
    BY DEF DnsIInv
  <1>2. PICK i \in Queries : i = Slot /\ i \notin AskingOf(d.table)
    BY <1>1, SlotFacts DEF DnsClient
  <1>3. PICK e \in DnsIdle : e = UNUSED
    BY DEF DnsIdle
  <1>4. [d EXCEPT !.table[i] = e] \in SoundClients
    BY <1>2, SameQuery
  <1>5. DnsClient' = [d EXCEPT !.table[i] = e]
    BY <1>1, <1>2, <1>3, Primed DEF NoPort, DnsClient
  <1> QED BY <1>4, <1>5

LEMMA DnsStarts == DnsInit => DnsIInv
  <1> SUFFICES ASSUME DnsInit PROVE DnsIInv
    OBVIOUS
  <1>1. PICK d : d = DnsClient
    OBVIOUS
  <1>2. /\ d.table = [i \in Queries |-> UNUSED] /\ d.requests = [r \in Requests |-> NoRequest]
        /\ d.pcbs = {} /\ d.waiting = [c \in Callers |-> Nothing]
    BY <1>1 DEF DnsInit, DnsClient
  <1>3. d \in DnsClients
    BY <1>1 DEF DnsInit, DnsClient, DnsClients, DnsIdle
  <1>4. AskingOf(d.table) = {}
    BY <1>2 DEF AskingOf, UNUSED
  <1>5. Remembered(d) /\ Pursued(d) /\ Wanted(d) /\ Ports(d)
    BY <1>2, <1>4 DEF Remembered, Pursued, Wanted, Ports
  <1>6. d \in SoundClients
    BY <1>3, <1>4, <1>5 DEF SoundClients
  <1> QED BY <1>1, <1>6, DnsAssumption DEF DnsIInv, DnsInit, SourcePorts

LEMMA DnsKeeps == OneRequestEach /\ DnsIInv /\ [DnsNext]_dnsVars => DnsIInv'
  <1> SUFFICES ASSUME OneRequestEach, DnsIInv, [DnsNext]_dnsVars PROVE DnsIInv'
    OBVIOUS
  <1>1. CASE dns_tmr
    <2>1. DnsClient' \in SoundClients
      BY <1>1, ChecksKeep, BecomesFacts DEF DnsIInv, dns_tmr
    <2> QED BY <1>1, <2>1 DEF DnsIInv, dns_tmr
  <1>2. ASSUME NEW i \in Queries, NEW ttl \in Ttls \cup {0}, dns_recv(i, ttl) PROVE DnsIInv'
    <2> DEFINE e == IF ttl = 0 THEN UNUSED
                    ELSE [state |-> "DONE", name |-> dns_table[i].name,
                          seqno |-> dns_table[i].seqno, ttl |-> ttl]
    <2>1. DnsClient \in SoundClients /\ i \in AskingOf(DnsClient.table) /\ dns_table[i] \in DnsAsking
      BY <1>2, DnsFacts, QueryFacts DEF DnsIInv, DnsClient, AskingOf, dns_recv
    <2>2. e \in DnsIdle
      BY <2>1, DnsAssumption DEF DnsIdle, DnsDone, DnsAsking
    <2>3. Becomes(dns_call_found(DnsClient, i, e))
      BY <1>2 DEF dns_recv
    <2> HIDE DEF e
    <2>4. DnsClient' \in SoundClients
      BY <2>1, <2>2, <2>3, CallFound, BecomesFacts
    <2> QED BY <1>2, <2>4 DEF DnsIInv, dns_recv
  <1>3. ASSUME NEW c \in Callers, NEW name \in Names, dns_gethostbyname(c, name) PROVE DnsIInv'
    <2>1. waiting[c] = Nothing /\ FreeRequests # {} /\ dns_servers' = dns_servers
      BY <1>3 DEF dns_gethostbyname, dns_enqueue
    <2>2. CASE AskedFor(name) # {} /\ JoinQuery(c, name)
      <3>1. DnsClient' \in SoundClients
        BY <2>1, <2>2, JoinKeeps
      <3> QED BY <2>1, <2>2, <3>1 DEF DnsIInv, JoinQuery
    <2>3. CASE Unused \cup AgedAnswers # {} /\ StartQuery(c, name)
      <3>1. /\ DnsClient' \in SoundClients
            /\ dns_last_pcb_idx' \in SourcePorts /\ dns_seqno' \in 0..(SeqModulus - 1)
        BY <2>1, <2>3, StartKeeps
      <3> QED BY <2>1, <3>1 DEF DnsIInv
    <2>4. CASE Unused \cup AgedAnswers # {} /\ NoPort
      <3>1. DnsClient' \in SoundClients
        BY <2>4, NoPortKeeps
      <3> QED BY <2>1, <2>4, <3>1 DEF DnsIInv, NoPort
    <2> QED BY <1>3, <2>2, <2>3, <2>4 DEF dns_gethostbyname, dns_enqueue
  <1>4. ASSUME NEW n \in 1..DNS_MAX_SERVERS, NEW set \in BOOLEAN, dns_setserver(n, set) PROVE DnsIInv'
    <2>1. DnsClient' = DnsClient
      BY <1>4, Primed DEF DnsClient, dns_setserver
    <2> QED BY <1>4, <2>1 DEF DnsIInv, dns_setserver
  <1>5. CASE UNCHANGED dnsVars
    <2>1. DnsClient' = DnsClient
      BY <1>5, Primed DEF DnsClient, dnsVars
    <2> QED BY <1>5, <2>1 DEF DnsIInv, dnsVars
  <1> QED BY <1>1, <1>2, <1>3, <1>4, <1>5 DEF DnsNext

LEMMA DnsIInvSuffices == DnsIInv => EveryRequestIsAnswered
  <1> SUFFICES ASSUME DnsIInv PROVE EveryRequestIsAnswered
    OBVIOUS
  <1>1. PICK d \in SoundClients : d = DnsClient
    BY DEF DnsIInv
  <1>2. d.table = dns_table /\ d.requests = dns_requests /\ d.pcbs = dns_pcbs /\ d.waiting = waiting
    BY <1>1 DEF DnsClient
  <1>3. DnsTypeOK
    <2>1. \A i \in Queries : dns_table[i].state \in {"UNUSED", "ASKING", "DONE"}
      BY <1>2, DnsFacts, QueryFacts
    <2>2. \A r \in Requests : dns_requests[r].found \in Callers \cup {Nothing}
      BY <1>2, DnsFacts, RequestFacts DEF NoRequest
    <2> QED BY <1>2, <2>1, <2>2, DnsFacts DEF DnsIInv, DnsTypeOK
  <1> DEFINE asking == AskingOf(dns_table)
             pending == Requests \ FreeRequests
  <1>4. \A r : r \in pending <=> r \in Requests /\ dns_requests[r] # NoRequest
    BY DEF FreeRequests
  <1>5. \A c \in Callers : waiting[c] # Nothing => \E r \in pending : dns_requests[r].found = c
    BY <1>2, <1>4, DnsFacts DEF Remembered
  <1>6. \A r \in pending :
           /\ dns_requests[r].idx \in asking
           /\ waiting[dns_requests[r].found] = dns_table[dns_requests[r].idx].name
           /\ \A s \in pending \ {r} : dns_requests[s].found # dns_requests[r].found
    BY <1>2, <1>4, DnsFacts DEF Pursued
  <1>7. ASSUME NEW i \in asking
        PROVE  RequestsOf(DnsClient, i) # {} /\ dns_table[i].age < DNS_MAX_SERVERS * Patience
    <2>1. RequestsOf(DnsClient, i) # {}
      BY <1>1, <1>2, DnsFacts DEF Wanted
    <2>2. PICK e \in DnsAsking : e = dns_table[i] /\ OnTime(e)
      BY <1>2, DnsFacts, QueryFacts DEF AskingOf
    <2>3. /\ e.tmr \in Nat \ {0} /\ e.age \in Nat /\ e.retries + 1 \in 1..DNS_MAX_RETRIES
          /\ e.server_idx \in 1..DNS_MAX_SERVERS /\ DNS_MAX_SERVERS \in Nat
      BY <2>2, AskingFacts DEF OnTime
    <2>4. /\ Rounds(e.retries + 1) \in Int /\ Rounds(e.retries + 1) <= Patience - 1
          /\ Patience \in Nat \ {0}
      <3>1. PICK n \in 1..DNS_MAX_RETRIES : n = e.retries + 1
        BY <2>3
      <3>2. n \in Nat /\ DNS_MAX_RETRIES \in Nat
        BY <3>1, DnsAssumption
      <3>3. /\ Rounds(n) \in Int /\ Rounds(DNS_MAX_RETRIES) \in Int
            /\ Rounds(n) <= Rounds(DNS_MAX_RETRIES)
        BY <3>2, RoundsFacts
      <3> QED BY <3>1, <3>3, RoundsFacts
    <2>5. /\ (e.server_idx - 1) * Patience \in Int
          /\ (e.server_idx - 1) * Patience + Patience = e.server_idx * Patience
      BY <2>3, <2>4
    <2>6. e.server_idx * Patience <= DNS_MAX_SERVERS * Patience
      BY <2>3, <2>4
    <2>7. e.age + e.tmr = (e.server_idx - 1) * Patience + 1 + Rounds(e.retries + 1)
      BY <2>2 DEF OnTime
    <2>8. e.age < (e.server_idx - 1) * Patience + Patience
      <3>1. PICK k \in Int : k = (e.server_idx - 1) * Patience
        BY <2>5
      <3>2. PICK n \in Int : n = Rounds(e.retries + 1)
        BY <2>4
      <3>3. PICK p \in Int : p = Patience
        BY <2>4
      <3>4. e.age + e.tmr = k + 1 + n /\ n <= p - 1 /\ e.tmr >= 1 /\ e.age \in Int /\ e.tmr \in Int
        BY <2>3, <2>4, <2>7, <3>1, <3>2, <3>3
      <3>5. e.age < k + p
        BY <3>4
      <3> QED BY <3>1, <3>3, <3>5
    <2>9. e.server_idx * Patience \in Int /\ DNS_MAX_SERVERS * Patience \in Int
      BY <2>3, <2>4
    <2> QED BY <2>1, <2>2, <2>3, <2>5, <2>6, <2>8, <2>9
  <1>8. dns_pcbs = {dns_table[i].pcb_idx : i \in asking}
    BY <1>2, DnsFacts DEF Ports
  <1> QED BY <1>3, <1>5, <1>6, <1>7, <1>8 DEF EveryRequestIsAnswered

(* Whoever asks is told, once, of the name it asked for, within a time that *)
(* the retries and the servers bound, and every open port has a query: for  *)
(* any callers, names, sizes of the table, ports, servers and retries, when *)
(* there are as many requests as entries (dns_call_found, dns_check_entry,  *)
(* dns_enqueue).                                                            *)
THEOREM AskersAlwaysAnswered ==
    ASSUME OneRequestEach
    PROVE  DnsSpec => []EveryRequestIsAnswered
  <1>1. DnsIInv /\ [DnsNext]_dnsVars => DnsIInv'
    BY DnsKeeps
  <1> QED BY <1>1, DnsStarts, DnsIInvSuffices, PTL DEF DnsSpec

-----------------------------------------------------------------------------
(* Reassembly.  The pieces of an entry are in order and disjoint, and one   *)
(* of them is the last one of its datagram when the entry says so: without  *)
(* a hole from the first byte on they are the datagram.                     *)

Pieces(p, d) ==
    /\ \A k \in DOMAIN p : p[k].id = d
    /\ \A j, k \in DOMAIN p : j < k => p[j].end <= p[k].start

ReassEntry == [id: Datagrams, p: Seq(Fragments), last: BOOLEAN, timer: 0..IP_REASS_MAXAGE]

(* A new entry has no piece until ip4_reass returns. *)
OpenEntries ==
    {r \in ReassEntry : Pieces(r.p, r.id) /\ (r.last => \E k \in DOMAIN r.p : ~ r.p[k].MF)}

SoundEntries == {r \in OpenEntries : r.p # <<>>}

EachOnce(list) == \A i, j \in DOMAIN list : i # j => list[i].id # list[j].id

Tables == {t \in [list: Seq(SoundEntries), count: 0..(U16 - 1)] :
              Len(t.list) <= MEMP_NUM_REASSDATA /\ EachOnce(t.list)}

(* The pieces p are a whole datagram. *)
IsWhole(p) ==
    LET d == p[1].id
    IN  /\ \A i \in DOMAIN p : p[i].id = d
        /\ p[1].start = 0
        /\ \A i \in 2..Len(p) : p[i].start = p[i - 1].end
        /\ p[Len(p)].end = Length[d]

Handed == {p \in Seq(Fragments) : p # <<>> => IsWhole(p)}

ReassIInv == Table \in Tables /\ passed_up \in Handed

LEMMA ReassBounds ==
    /\ IP_REASS_MAX_PBUFS \in Nat /\ MEMP_NUM_REASSDATA \in Nat \ {0}
    /\ IP_REASS_MAXAGE \in Nat
  BY ReassAssumption

LEMMA DatagramBounds ==
    ASSUME NEW d \in Datagrams, NEW nfb \in FragmentSizes
    PROVE  Length[d] \in Nat \ {0} /\ nfb \in Nat \ {0}
  <1>1. MaxUnits \in Nat
    BY DEF MaxUnits
  <1>2. Length[d] \in 1..MaxUnits /\ nfb \in 1..MaxUnits
    BY ReassAssumption
  <1> QED BY <1>1, <1>2

LEMMA CountBound == U16 \in Nat \ {0}
  BY DEF U16

LEMMA FragmentFacts ==
    ASSUME NEW f \in Fragments
    PROVE  /\ f.id \in Datagrams /\ Length[f.id] \in Nat /\ f.MF \in BOOLEAN
           /\ f.start \in Nat /\ f.end \in Nat /\ f.start < f.end /\ f.end <= Length[f.id]
           /\ ~ f.MF => f.end = Length[f.id]
  <1>1. PICK d \in Datagrams, nfb \in FragmentSizes : f \in ip4_frag(d, nfb)
    BY DEF Fragments
  <1>2. Length[d] \in Nat \ {0} /\ nfb \in Nat \ {0}
    BY <1>1, DatagramBounds
  <1>3. PICK ofo \in 0..(Length[d] - 1) :
           f = [id |-> d, start |-> ofo, end |-> Min({ofo + nfb, Length[d]}),
                MF |-> ofo + nfb < Length[d]]
    BY <1>1 DEF ip4_frag
  <1>4. Min({ofo + nfb, Length[d]}) = IF ofo + nfb <= Length[d] THEN ofo + nfb ELSE Length[d]
    BY <1>2, MinOfTwo
  <1>5. f.id = d /\ f.start = ofo
    BY <1>3
  <1> DEFINE L == Length[d]
  <1>6. f.end = IF ofo + nfb <= L THEN ofo + nfb ELSE L
    BY <1>3, <1>4
  <1> DEFINE more == ofo + nfb < L
  <1>7. f.MF = more
    BY <1>3
  <1>8. f.MF \in BOOLEAN /\ (~ f.MF => ~ more)
    <2>1. more \in BOOLEAN
      OBVIOUS
    <2> HIDE DEF more
    <2> QED BY <1>7, <2>1, Zenon
  <1>9. L \in Nat /\ ofo \in 0..(L - 1) /\ nfb \in Nat \ {0}
    BY <1>2
  <1> HIDE DEF L
  <1>10. /\ f.start \in Nat /\ f.end \in Nat /\ f.start < f.end /\ f.end <= L
         /\ ~ (ofo + nfb < L) => f.end = L
    BY <1>5, <1>6, <1>9
  <1> QED BY <1>5, <1>8, <1>9, <1>10 DEF L

LEMMA EntryFields ==
    ASSUME NEW r \in OpenEntries
    PROVE  /\ r \in ReassEntry /\ r.id \in Datagrams /\ r.p \in Seq(Fragments) /\ r.last \in BOOLEAN
           /\ r.timer \in 0..IP_REASS_MAXAGE /\ r.timer \in Nat
           /\ Pieces(r.p, r.id) /\ (r.last => \E k \in DOMAIN r.p : ~ r.p[k].MF)
  <1>1. /\ r \in ReassEntry /\ Pieces(r.p, r.id)
        /\ r.last => \E k \in DOMAIN r.p : ~ r.p[k].MF
    BY DEF OpenEntries
  <1>2. /\ r.id \in Datagrams /\ r.p \in Seq(Fragments) /\ r.last \in BOOLEAN
        /\ r.timer \in 0..IP_REASS_MAXAGE
    BY <1>1 DEF ReassEntry
  <1>3. r.timer \in Nat
    BY <1>2, ReassBounds
  <1> QED BY <1>1, <1>2, <1>3

-----------------------------------------------------------------------------
(* The last piece of all ends the datagram. *)
LEMMA LastEnds ==
    ASSUME NEW d \in Datagrams, NEW p \in Seq(Fragments), Pieces(p, d),
           NEW k \in DOMAIN p, ~ p[k].MF
    PROVE  p # <<>> /\ p[Len(p)].end = Length[d]
  <1>1. DOMAIN p = 1..Len(p) /\ Len(p) \in DOMAIN p /\ p # <<>> /\ k \in Nat
    OBVIOUS
  <1>2. p[k].end = Length[d] /\ p[k].id = d
    BY FragmentFacts DEF Pieces
  <1>3. CASE k # Len(p)
    <2>1. p[k].end <= p[Len(p)].start
      BY <1>1, <1>3 DEF Pieces
    <2>2. /\ p[Len(p)].start < p[Len(p)].end /\ p[Len(p)].end <= Length[d]
          /\ p[Len(p)].start \in Nat /\ p[Len(p)].end \in Nat /\ Length[d] \in Nat
      BY <1>1, FragmentFacts DEF Pieces
    <2> QED BY <1>2, <2>1, <2>2
  <1> QED BY <1>1, <1>2, <1>3

LEMMA ChainedFacts ==
    ASSUME NEW d \in Datagrams, NEW p \in Seq(Fragments), Pieces(p, d),
           NEW f \in Fragments, f.id = d, \A g \in ToSet(p) : ~ Overlap(f, g)
    PROVE  LET c == Chained(p, f)
           IN  /\ c \in Seq(Fragments) /\ Pieces(c, d)
               /\ \A k \in DOMAIN p : \E j \in DOMAIN c : c[j] = p[k]
               /\ \E j \in DOMAIN c : c[j] = f
  <1> DEFINE c == Chained(p, f)
             behind == {g \in ToSet(p) : g.start > f.start}
  <1>1. PICK k \in 1..Len(p) + 1 :
           /\ c = InsertAt(p, k, f)
           /\ k \in DOMAIN p => p[k] \in behind
           /\ \A j \in 1..k - 1 : p[j] \notin behind
    <2> HIDE DEF behind
    <2>1. \E k \in 1..Len(p) + 1 :
             /\ InsertBefore(p, f, behind) = InsertAt(p, k, f)
             /\ k \in DOMAIN p => p[k] \in behind
             /\ \A j \in 1..k - 1 : p[j] \notin behind
      BY InsertBeforePlace
    <2> QED BY <2>1 DEF Chained, behind
  <1>2. /\ c \in Seq(Fragments) /\ Len(c) = Len(p) + 1
        /\ \A j \in DOMAIN c : c[j] = IF j < k THEN p[j] ELSE IF j = k THEN f ELSE p[j - 1]
    BY <1>1, InsertAtPlaces
  <1>3. /\ DOMAIN p = 1..Len(p) /\ DOMAIN c = 1..Len(p) + 1 /\ Len(p) \in Nat /\ k \in Nat
    BY <1>2
  <1>4. \A j \in DOMAIN p : /\ p[j] \in Fragments /\ p[j].id = d /\ p[j] \in ToSet(p)
                            /\ p[j].start \in Nat /\ p[j].end \in Nat /\ p[j].start < p[j].end
    BY FragmentFacts DEF Pieces, ToSet
  <1>5. f.start \in Nat /\ f.end \in Nat /\ f.start < f.end
    BY FragmentFacts
  <1>6. \A j \in DOMAIN p : p[j].end <= f.start \/ f.end <= p[j].start
    BY <1>4, <1>5 DEF Overlap
  <1>7. \A j \in DOMAIN p : j < k => p[j].end <= f.start
    <2> TAKE j \in DOMAIN p
    <2> HAVE j < k
    <2>1. ~ (p[j].start > f.start)
      BY <1>1, <1>3, <1>4
    <2> QED BY <1>4, <1>5, <1>6, <2>1
  <1>8. \A j \in DOMAIN p : j >= k => f.end <= p[j].start
    <2> TAKE j \in DOMAIN p
    <2> HAVE j >= k
    <2>1. k \in DOMAIN p /\ p[k].start > f.start
      BY <1>1, <1>3
    <2>2. f.end <= p[k].start
      BY <1>4, <1>5, <1>6, <2>1
    <2>3. j = k \/ p[k].end <= p[j].start
      BY <1>3, <2>1 DEF Pieces
    <2> QED BY <1>4, <1>5, <2>1, <2>2, <2>3
  <1> HIDE DEF c, behind
  <1>9. ASSUME NEW i \in DOMAIN c, NEW j \in DOMAIN c, i < j
        PROVE  c[i].end <= c[j].start
    <2>1. CASE j < k
      <3>1. c[i] = p[i] /\ c[j] = p[j] /\ i \in DOMAIN p /\ j \in DOMAIN p
        BY <1>2, <1>3, <1>9, <2>1
      <3> QED BY <1>9, <3>1 DEF Pieces
    <2>2. CASE j = k
      <3>1. c[i] = p[i] /\ c[j] = f /\ i \in DOMAIN p /\ i < k
        BY <1>2, <1>3, <1>9, <2>2
      <3> QED BY <1>7, <3>1
    <2>3. CASE j > k
      <3>1. c[j] = p[j - 1] /\ j - 1 \in DOMAIN p /\ j - 1 >= k
        BY <1>2, <1>3, <2>3
      <3>2. CASE i < k
        <4>1. c[i] = p[i] /\ i \in DOMAIN p /\ i < j - 1
          BY <1>2, <1>3, <2>3, <3>2
        <4> QED BY <3>1, <4>1 DEF Pieces
      <3>3. CASE i = k
        <4>1. c[i] = f
          BY <1>2, <3>3
        <4> QED BY <1>8, <3>1, <4>1
      <3>4. CASE i > k
        <4>1. c[i] = p[i - 1] /\ i - 1 \in DOMAIN p /\ i - 1 < j - 1
          BY <1>2, <1>3, <1>9, <3>4
        <4> QED BY <3>1, <4>1 DEF Pieces
      <3> QED BY <1>3, <3>2, <3>3, <3>4
    <2> QED BY <1>3, <2>1, <2>2, <2>3
  <1>10. \A j \in DOMAIN c : c[j].id = d
    <2> TAKE j \in DOMAIN c
    <2>1. c[j] = f \/ \E l \in DOMAIN p : c[j] = p[l]
      BY <1>2, <1>3
    <2> QED BY <1>4, <2>1
  <1>11. \A l \in DOMAIN p : \E j \in DOMAIN c : c[j] = p[l]
    <2> TAKE l \in DOMAIN p
    <2>1. CASE l < k
      BY <1>2, <1>3, <2>1
    <2>2. CASE ~ (l < k)
      <3>1. l + 1 \in DOMAIN c /\ c[l + 1] = p[l]
        BY <1>2, <1>3, <2>2
      <3> QED BY <3>1
    <2> QED BY <2>1, <2>2
  <1>12. k \in DOMAIN c /\ c[k] = f
    BY <1>2, <1>3
  <1> QED BY <1>2, <1>9, <1>10, <1>11, <1>12 DEF Pieces, c

-----------------------------------------------------------------------------
(* Tables.                                                                  *)

LEMMA TableFields ==
    ASSUME NEW t \in Tables
    PROVE  /\ t.list \in Seq(SoundEntries) /\ t.count \in 0..(U16 - 1)
           /\ Len(t.list) \in Nat /\ Len(t.list) <= MEMP_NUM_REASSDATA /\ EachOnce(t.list)
           /\ \A i \in DOMAIN t.list : t.list[i] \in SoundEntries /\ t.list[i] \in OpenEntries
           /\ t = [list |-> t.list, count |-> t.count]
  BY DEF Tables, SoundEntries

LEMMA CountIsU16 == ASSUME NEW n \in Int PROVE n % U16 \in 0..(U16 - 1)
  BY CountBound

(* A list that loses an entry. *)
LEMMA EntryGone ==
    ASSUME NEW S \in SUBSET OpenEntries, NEW list \in Seq(S), EachOnce(list), NEW i \in DOMAIN list
    PROVE  LET r == RemoveAt(list, i)
           IN  /\ r \in Seq(S) /\ EachOnce(r) /\ Len(r) = Len(list) - 1
               /\ \A j \in DOMAIN r : \E l \in DOMAIN list : l # i /\ r[j] = list[l]
  <1> DEFINE r == RemoveAt(list, i)
             old(j) == IF j < i THEN j ELSE j + 1
  <1>1. /\ r \in Seq(S) /\ Len(r) = Len(list) - 1
        /\ \A j \in DOMAIN r : r[j] = list[old(j)]
    BY RemoveAtFacts
  <1>2. DOMAIN list = 1..Len(list) /\ DOMAIN r = 1..(Len(list) - 1) /\ Len(list) \in Nat
    BY <1>1
  <1> HIDE DEF r
  <1>3. \A j \in DOMAIN r : old(j) \in DOMAIN list /\ old(j) # i
    BY <1>2
  <1>4. \A j, k \in DOMAIN r : j # k => old(j) # old(k)
    BY <1>2
  <1> HIDE DEF old
  <1>5. EachOnce(r)
    BY <1>1, <1>3, <1>4 DEF EachOnce
  <1> QED BY <1>1, <1>3, <1>5 DEF r

LEMMA FreedKeeps ==
    ASSUME NEW t \in Tables, NEW i \in DOMAIN t.list
    PROVE  LET u == ip_reass_free_complete_datagram(t, i)
           IN  /\ u \in Tables /\ Len(u.list) = Len(t.list) - 1
               /\ \A j \in DOMAIN u.list : \E l \in DOMAIN t.list : u.list[j] = t.list[l]
  <1> DEFINE u == ip_reass_free_complete_datagram(t, i)
             r == RemoveAt(t.list, i)
             c == (t.count - Len(t.list[i].p)) % U16
  <1>1. u = [list |-> r, count |-> c]
    BY DEF ip_reass_free_complete_datagram
  <1>2. /\ r \in Seq(SoundEntries) /\ EachOnce(r) /\ Len(r) = Len(t.list) - 1
        /\ \A j \in DOMAIN r : \E l \in DOMAIN t.list : r[j] = t.list[l]
    <2>1. SoundEntries \in SUBSET OpenEntries
      BY DEF SoundEntries
    <2> QED BY <2>1, EntryGone, TableFields
  <1>3. c \in 0..(U16 - 1)
    <2>1. t.list[i].p \in Seq(Fragments)
      BY TableFields, EntryFields
    <2>2. Len(t.list[i].p) \in Nat
      BY <2>1
    <2>3. t.count \in Int
      BY TableFields
    <2>4. t.count - Len(t.list[i].p) \in Int
      BY <2>2, <2>3
    <2> QED BY <2>4, CountIsU16
  <1>4. Len(r) <= MEMP_NUM_REASSDATA
    BY <1>2, TableFields, ReassBounds
  <1> HIDE DEF r, c
  <1>5. u \in Tables
    <2> DEFINE w == [list |-> r, count |-> c]
    <2>1. w \in [list: Seq(SoundEntries), count: 0..(U16 - 1)] /\ w.list = r
      BY <1>2, <1>3
    <2>2. Len(w.list) <= MEMP_NUM_REASSDATA /\ EachOnce(w.list)
      BY <1>2, <1>4, <2>1
    <2> HIDE DEF w
    <2>3. w \in Tables
      BY <2>1, <2>2 DEF Tables
    <2> QED BY <1>1, <2>3 DEF w
  <1> QED BY <1>1, <1>2, <1>5 DEF u

LEMMA OldestKeeps ==
    ASSUME NEW t \in Tables, NEW d
    PROVE  LET u == ip_reass_remove_oldest_datagram(t, d)
           IN  /\ u \in Tables
               /\ Others(t, d) # {} => Len(u.list) = Len(t.list) - 1
               /\ \A j \in DOMAIN u.list : \E l \in DOMAIN t.list : u.list[j] = t.list[l]
  <1>1. CASE Others(t, d) = {}
    BY <1>1 DEF ip_reass_remove_oldest_datagram
  <1>2. CASE Others(t, d) # {}
    <2> DEFINE O == Others(t, d)
               timer(i) == t.list[i].timer
               IsOldest(i) ==
                  \A j \in O : \/ timer(i) < timer(j)
                               \/ timer(i) = timer(j) /\ j <= i
               T == {timer(i) : i \in O}
    <2>1. /\ O \subseteq DOMAIN t.list /\ DOMAIN t.list = 1..Len(t.list) /\ Len(t.list) \in Nat
          /\ \A i \in O : timer(i) \in Nat
      BY TableFields, EntryFields DEF Others
    <2>2. T \in SUBSET Nat /\ T # {}
      BY <1>2, <2>1
    <2>3. PICK a \in T : \A b \in T : a <= b
      <3> HIDE DEF T
      <3> QED BY <2>2, LeastNatural
    <2> DEFINE A == {i \in O : timer(i) = a}
    <2>4. A \in SUBSET (0..Len(t.list)) /\ A # {}
      <3>1. A # {} /\ A \subseteq O
        BY <2>3
      <3>2. \A k \in O : k \in 0..Len(t.list)
        BY <2>1
      <3> HIDE DEF A, O
      <3> QED BY <3>1, <3>2
    <2>5. PICK i \in A : \A j \in A : j <= i
      <3> HIDE DEF A
      <3> QED BY <2>1, <2>4, GreatestNatural
    <2>6. i \in O /\ timer(i) = a
      BY <2>5
    <2> HIDE DEF O
    <2>7. IsOldest(i)
      <3> SUFFICES ASSUME NEW j \in O
                   PROVE  \/ timer(i) < timer(j)
                          \/ timer(i) = timer(j) /\ j <= i
        OBVIOUS
      <3>1. a <= timer(j) /\ timer(j) \in Nat /\ a \in Nat
        BY <2>1, <2>3, <2>6
      <3>2. timer(j) = a => j <= i
        BY <2>5
      <3> QED BY <2>6, <3>1, <3>2
    <2> DEFINE oldest == CHOOSE k \in O : IsOldest(k)
    <2>8. oldest \in O
      <3> HIDE DEF IsOldest
      <3> QED BY <2>6, <2>7
    <2>9. ip_reass_remove_oldest_datagram(t, d) = ip_reass_free_complete_datagram(t, oldest)
      BY <1>2 DEF ip_reass_remove_oldest_datagram, O
    <2> HIDE DEF oldest
    <2>10. oldest \in DOMAIN t.list
      BY <2>1, <2>8
    <2> QED BY <2>9, <2>10, FreedKeeps
  <1> QED BY <1>1, <1>2

(* An entry that gets other pieces. *)
LEMMA EntryBecomes ==
    ASSUME NEW r \in ReassEntry, NEW p \in Seq(Fragments), NEW last \in BOOLEAN, Pieces(p, r.id),
           p # <<>>, last => \E k \in DOMAIN p : ~ p[k].MF
    PROVE  LET e == [r EXCEPT !.p = p, !.last = last]
           IN  e \in SoundEntries /\ e.id = r.id
  <1> DEFINE e == [r EXCEPT !.p = p, !.last = last]
  <1>1. e \in ReassEntry /\ e.id = r.id /\ e.p = p /\ e.last = last
    BY DEF ReassEntry
  <1> HIDE DEF e
  <1>2. e \in SoundEntries
    BY <1>1 DEF SoundEntries, OpenEntries
  <1> QED BY <1>1, <1>2 DEF e

(* The table while ip4_reass works on the entry of d: this one may still    *)
(* have no piece.                                                           *)
OpenTables(d) ==
    {t \in [list: Seq(OpenEntries), count: 0..(U16 - 1)] :
        /\ Len(t.list) <= MEMP_NUM_REASSDATA /\ EachOnce(t.list)
        /\ \A i \in DOMAIN t.list : t.list[i].id # d => t.list[i] \in SoundEntries}

LEMMA OpenFields ==
    ASSUME NEW d, NEW t \in OpenTables(d)
    PROVE  /\ t.list \in Seq(OpenEntries) /\ t.count \in 0..(U16 - 1) /\ t.count \in Int
           /\ Len(t.list) \in Nat /\ Len(t.list) <= MEMP_NUM_REASSDATA /\ EachOnce(t.list)
           /\ DOMAIN t.list = 1..Len(t.list)
           /\ \A i \in DOMAIN t.list : t.list[i] \in OpenEntries
           /\ \A i \in DOMAIN t.list : t.list[i].id # d => t.list[i] \in SoundEntries
           /\ t = [list |-> t.list, count |-> t.count]
  <1>1. t.count \in Int
    <2>1. \A n \in 0..(U16 - 1) : n \in Int
      BY CountBound
    <2> QED BY <2>1 DEF OpenTables
  <1> QED BY <1>1 DEF OpenTables

LEMMA TablesAreOpen == ASSUME NEW d, NEW t \in Tables PROVE t \in OpenTables(d)
  <1>1. t.list \in Seq(OpenEntries)
    BY TableFields, ElementsIn
  <1>2. t \in [list: Seq(OpenEntries), count: 0..(U16 - 1)]
    BY <1>1, TableFields
  <1> QED BY <1>2, TableFields DEF OpenTables

(* All entries with a piece, and each datagram once: a table. *)
LEMMA OpenIsSound ==
    ASSUME NEW d, NEW t \in OpenTables(d),
           \A i \in DOMAIN t.list : t.list[i].id = d => t.list[i].p # <<>>
    PROVE  t \in Tables
  <1>1. \A i \in DOMAIN t.list : t.list[i] \in SoundEntries
    BY OpenFields DEF SoundEntries
  <1>2. t.list \in Seq(SoundEntries)
    BY <1>1, OpenFields, ElementsIn
  <1>3. t \in [list: Seq(SoundEntries), count: 0..(U16 - 1)]
    BY <1>2, OpenFields
  <1> QED BY <1>3, OpenFields DEF Tables

LEMMA NewEntryOpens ==
    ASSUME NEW t \in Tables, NEW d \in Datagrams, Holding(t, d) = {}
    PROVE  LET u == ip_reass_enqueue_new_datagram(t, d)
           IN  u \in OpenTables(d) /\ Holding(u, d) # {}
  <1> DEFINE v == IF Len(t.list) < MEMP_NUM_REASSDATA THEN t
                  ELSE ip_reass_remove_oldest_datagram(t, d)
             ipr == [id |-> d, p |-> <<>>, last |-> FALSE, timer |-> IP_REASS_MAXAGE]
             list == <<ipr>> \o v.list
             u == [v EXCEPT !.list = list]
  <1>1. ip_reass_enqueue_new_datagram(t, d) = u
    BY DEF ip_reass_enqueue_new_datagram
  <1>2. /\ v \in Tables /\ Len(v.list) < MEMP_NUM_REASSDATA
        /\ \A j \in DOMAIN v.list : \E l \in DOMAIN t.list : v.list[j] = t.list[l]
    <2>1. CASE Len(t.list) < MEMP_NUM_REASSDATA
      BY <2>1
    <2>2. CASE ~ (Len(t.list) < MEMP_NUM_REASSDATA)
      <3>1. /\ Len(t.list) \in Nat /\ Len(t.list) <= MEMP_NUM_REASSDATA
            /\ MEMP_NUM_REASSDATA \in Nat \ {0}
        BY TableFields, ReassBounds
      <3>2. Len(t.list) = MEMP_NUM_REASSDATA /\ 1 \in DOMAIN t.list
        BY <2>2, <3>1, TableFields
      <3>3. Others(t, d) # {}
        BY <3>2 DEF Others, Holding
      <3> QED BY <2>2, <3>1, <3>2, <3>3, OldestKeeps
    <2> QED BY <2>1, <2>2
  <1> HIDE DEF v
  <1>3. /\ ipr \in ReassEntry /\ ipr.id = d /\ ipr.p = <<>> /\ ipr.last = FALSE
    BY ReassBounds DEF ReassEntry
  <1>4. ipr \in OpenEntries
    <2> HIDE DEF ipr
    <2>1. Pieces(ipr.p, ipr.id)
      BY <1>3 DEF Pieces
    <2> QED BY <1>3, <2>1 DEF OpenEntries
  <1> HIDE DEF ipr
  <1>5. /\ v.list \in Seq(OpenEntries) /\ DOMAIN v.list = 1..Len(v.list) /\ Len(v.list) \in Nat
        /\ \A j \in DOMAIN v.list : v.list[j] \in SoundEntries /\ v.list[j].id # d
    <2>1. v.list \in Seq(SoundEntries)
      BY <1>2, TableFields
    <2>2. v.list \in Seq(OpenEntries)
      BY <1>2, TableFields, ElementsIn
    <2>3. \A l \in DOMAIN t.list : t.list[l].id # d
      BY DEF Holding
    <2> QED BY <1>2, <2>1, <2>2, <2>3
  <1>6. /\ list \in Seq(OpenEntries) /\ Len(list) = Len(v.list) + 1
        /\ list[1] = ipr /\ 1 \in DOMAIN list /\ DOMAIN list = 1..(Len(v.list) + 1)
        /\ \A j \in DOMAIN list : j # 1 => j - 1 \in DOMAIN v.list /\ list[j] = v.list[j - 1]
    BY <1>4, <1>5
  <1> HIDE DEF list
  <1>7. EachOnce(list)
    <2> SUFFICES ASSUME NEW i \in DOMAIN list, NEW j \in DOMAIN list, i # j
                 PROVE  list[i].id # list[j].id
      BY DEF EachOnce
    <2>1. CASE i = 1
      BY <1>3, <1>5, <1>6, <2>1
    <2>2. CASE j = 1
      BY <1>3, <1>5, <1>6, <2>2
    <2>3. CASE i # 1 /\ j # 1
      <3>1. /\ list[i] = v.list[i - 1] /\ list[j] = v.list[j - 1]
            /\ i - 1 \in DOMAIN v.list /\ j - 1 \in DOMAIN v.list /\ i - 1 # j - 1
        BY <1>6, <2>3
      <3> QED BY <1>2, <3>1, TableFields DEF EachOnce
    <2> QED BY <2>1, <2>2, <2>3
  <1>8. u = [list |-> list, count |-> v.count] /\ v.count \in 0..(U16 - 1)
    BY <1>2, TableFields
  <1>9. Len(list) <= MEMP_NUM_REASSDATA
    BY <1>2, <1>5, <1>6, ReassBounds
  <1>10. \A i \in DOMAIN list : list[i].id # d => list[i] \in SoundEntries
    BY <1>3, <1>5, <1>6
  <1>11. u \in OpenTables(d)
    <2> HIDE DEF u
    <2> QED BY <1>6, <1>7, <1>8, <1>9, <1>10 DEF OpenTables
  <1>12. 1 \in Holding(u, d)
    <2> HIDE DEF u
    <2> QED BY <1>3, <1>6, <1>8 DEF Holding
  <1> QED BY <1>1, <1>11, <1>12

(* What comes of a fragment. *)
LEMMA FragmentKeeps ==
    ASSUME NEW f \in Fragments, NEW t \in OpenTables(f.id), NEW i \in Holding(t, f.id)
    PROVE  LET result == ip_reass_chain_frag_into_datagram_and_validate(t, i, f)
           IN  result.table \in Tables /\ result.p \in Handed
  <1> DEFINE d == f.id
             ipr == t.list[i]
             chain == Chained(ipr.p, f)
             last == ipr.last \/ ~ f.MF
             result == ip_reass_chain_frag_into_datagram_and_validate(t, i, f)
             overlaps == \E g \in ToSet(ipr.p) : Overlap(f, g)
  <1>1. /\ i \in DOMAIN t.list /\ ipr.id = d /\ ipr \in OpenEntries /\ ipr \in ReassEntry
        /\ ipr.p \in Seq(Fragments) /\ ipr.last \in BOOLEAN /\ Pieces(ipr.p, d)
        /\ ipr.last => \E k \in DOMAIN ipr.p : ~ ipr.p[k].MF
        /\ d \in Datagrams /\ f.MF \in BOOLEAN
    <2>1. i \in DOMAIN t.list /\ ipr.id = d
      BY DEF Holding
    <2>2. ipr \in OpenEntries
      BY <2>1, OpenFields
    <2> QED BY <2>1, <2>2, EntryFields, FragmentFacts
  <1>2. <<>> \in Handed
    BY DEF Handed
  <1>3. \A j \in DOMAIN t.list : j # i => t.list[j].id # d
    BY <1>1, OpenFields DEF EachOnce
  <1>4. CASE overlaps
    <2> DEFINE c == (t.count - 1) % U16
               u == [t EXCEPT !.count = c]
    <2>1. result.table = u /\ result.p = <<>>
      BY <1>4 DEF ip_reass_chain_frag_into_datagram_and_validate
    <2>2. c \in 0..(U16 - 1)
      <3>1. t.count - 1 \in Int
        BY OpenFields
      <3> QED BY <3>1, CountIsU16
    <2> HIDE DEF c
    <2>3. u = [list |-> t.list, count |-> c]
      BY OpenFields
    <2>4. u \in OpenTables(d)
      <3> HIDE DEF u
      <3> QED BY <2>2, <2>3, OpenFields DEF OpenTables
    <2>5. ipr.p # <<>>
      BY <1>4 DEF ToSet
    <2>6. \A j \in DOMAIN u.list : u.list[j].id = d => u.list[j].p # <<>>
      BY <1>3, <2>3, <2>5
    <2> HIDE DEF u
    <2> QED BY <1>2, <2>1, <2>4, <2>6, OpenIsSound
  <1>5. CASE ~ overlaps
    <2>1. /\ chain \in Seq(Fragments) /\ Pieces(chain, d)
          /\ \A k \in DOMAIN ipr.p : \E j \in DOMAIN chain : chain[j] = ipr.p[k]
          /\ \E j \in DOMAIN chain : chain[j] = f
      <3>1. \A g \in ToSet(ipr.p) : ~ Overlap(f, g)
        BY <1>5
      <3> HIDE DEF ipr
      <3> QED BY <1>1, <3>1, ChainedFacts
    <2> HIDE DEF chain
    <2>2. chain # <<>> /\ Len(chain) \in Nat /\ DOMAIN chain = 1..Len(chain)
      BY <2>1
    <2>3. last \in BOOLEAN /\ (last => \E k \in DOMAIN chain : ~ chain[k].MF)
      BY <1>1, <2>1
    <2> HIDE DEF last
    <2>4. CASE last /\ NoHoles(chain, f)
      <3> DEFINE r == RemoveAt(t.list, i)
                 c == (t.count + 1 - Len(chain)) % U16
      <3>1. result.table = [list |-> r, count |-> c] /\ result.p = chain
        BY <1>5, <2>4 DEF ip_reass_chain_frag_into_datagram_and_validate, chain, last
      <3>2. /\ r \in Seq(OpenEntries) /\ EachOnce(r) /\ Len(r) = Len(t.list) - 1
            /\ \A j \in DOMAIN r : \E l \in DOMAIN t.list : l # i /\ r[j] = t.list[l]
        <4> DEFINE list == t.list
        <4>1. list \in Seq(OpenEntries) /\ EachOnce(list) /\ i \in DOMAIN list
          BY <1>1, OpenFields
        <4>2. OpenEntries \in SUBSET OpenEntries
          OBVIOUS
        <4> HIDE DEF list
        <4>3. /\ RemoveAt(list, i) \in Seq(OpenEntries) /\ EachOnce(RemoveAt(list, i))
              /\ Len(RemoveAt(list, i)) = Len(list) - 1
              /\ \A j \in DOMAIN RemoveAt(list, i) :
                    \E l \in DOMAIN list : l # i /\ RemoveAt(list, i)[j] = list[l]
          BY <4>1, <4>2, EntryGone
        <4> QED BY <4>3 DEF list
      <3>3. c \in 0..(U16 - 1)
        <4>1. t.count + 1 - Len(chain) \in Int
          BY <2>2, OpenFields
        <4> QED BY <4>1, CountIsU16
      <3> HIDE DEF r, c
      <3>4. \A j \in DOMAIN r : r[j] \in SoundEntries
        BY <1>3, <3>2, OpenFields
      <3>5. r \in Seq(SoundEntries)
        BY <3>2, <3>4, ElementsIn
      <3>6. Len(r) <= MEMP_NUM_REASSDATA
        BY <3>2, OpenFields, ReassBounds
      <3>7. result.table \in Tables
        BY <3>1, <3>2, <3>3, <3>5, <3>6 DEF Tables
      <3>8. IsWhole(chain)
        <4>1. /\ chain[1].start = 0
              /\ \A k \in 1..(Len(chain) - 1) : chain[k].end = chain[k + 1].start
          BY <2>4 DEF NoHoles
        <4>2. 1 \in DOMAIN chain /\ chain[1].id = d /\ \A k \in DOMAIN chain : chain[k].id = d
          BY <2>1, <2>2 DEF Pieces
        <4>3. \A k \in 2..Len(chain) : chain[k].start = chain[k - 1].end
          <5> TAKE k \in 2..Len(chain)
          <5>1. k - 1 \in 1..(Len(chain) - 1) /\ (k - 1) + 1 = k
            BY <2>2
          <5> QED BY <4>1, <5>1
        <4>4. chain[Len(chain)].end = Length[d]
          BY <1>1, <2>1, <2>3, <2>4, LastEnds
        <4> QED BY <4>1, <4>2, <4>3, <4>4 DEF IsWhole
      <3> QED BY <2>1, <3>1, <3>7, <3>8 DEF Handed
    <2>5. CASE ~ (last /\ NoHoles(chain, f))
      <3> DEFINE e == [ipr EXCEPT !.p = chain, !.last = last]
                 list == [t.list EXCEPT ![i] = e]
                 c == (t.count + 1) % U16
      <3>1. result.table = [list |-> list, count |-> c] /\ result.p = <<>>
        BY <1>5, <2>5 DEF ip_reass_chain_frag_into_datagram_and_validate, chain, last
      <3>2. e \in SoundEntries /\ e.id = d
        <4> HIDE DEF ipr
        <4> QED BY <1>1, <2>1, <2>2, <2>3, EntryBecomes
      <3>3. c \in 0..(U16 - 1)
        <4>1. t.count + 1 \in Int
          BY OpenFields
        <4> QED BY <4>1, CountIsU16
      <3>4. e \in OpenEntries
        BY <3>2 DEF SoundEntries
      <3> HIDE DEF e, c
      <3>5. /\ list \in Seq(OpenEntries) /\ Len(list) = Len(t.list) /\ DOMAIN list = DOMAIN t.list
            /\ \A j \in DOMAIN list : list[j] = IF j = i THEN e ELSE t.list[j]
        BY <1>1, <3>4, OpenFields
      <3> HIDE DEF list
      <3>6. \A j \in DOMAIN list : list[j] \in SoundEntries
        BY <1>3, <3>2, <3>5, OpenFields
      <3>7. list \in Seq(SoundEntries)
        BY <3>5, <3>6, ElementsIn
      <3>8. \A j \in DOMAIN list : list[j].id = t.list[j].id
        BY <1>1, <3>2, <3>5
      <3>9. EachOnce(list) /\ Len(list) <= MEMP_NUM_REASSDATA
        BY <3>5, <3>8, OpenFields DEF EachOnce
      <3>10. result.table \in Tables
        BY <3>1, <3>3, <3>7, <3>9 DEF Tables
      <3> QED BY <1>2, <3>1, <3>10
    <2> QED BY <2>4, <2>5
  <1> QED BY <1>4, <1>5

-----------------------------------------------------------------------------
(* The steps. *)

LEMMA InputKeeps ==
    ASSUME ReassIInv, NEW f \in Fragments, ip4_reass(f)
    PROVE  ReassIInv'
  <1> DEFINE t == IF Full(Table) THEN ip_reass_remove_oldest_datagram(Table, f.id) ELSE Table
             u == IF Holding(t, f.id) = {} THEN ip_reass_enqueue_new_datagram(t, f.id) ELSE t
             result == ip_reass_chain_frag_into_datagram_and_validate(
                           u, Min(Holding(u, f.id)), f)
  <1>1. \/ Settle(t, <<>>)
        \/ Settle(result.table, result.p)
    BY DEF ip4_reass
  <1>2. t \in Tables
    BY OldestKeeps DEF ReassIInv
  <1> HIDE DEF t
  <1>3. f.id \in Datagrams
    BY FragmentFacts
  <1>4. u \in OpenTables(f.id) /\ Holding(u, f.id) # {}
    BY <1>2, <1>3, NewEntryOpens, TablesAreOpen
  <1> HIDE DEF u
  <1>5. Min(Holding(u, f.id)) \in Holding(u, f.id)
    <2>1. Holding(u, f.id) \in SUBSET Nat
      BY <1>4, OpenFields DEF Holding
    <2> QED BY <1>4, <2>1, LeastIsIn
  <1>6. result.table \in Tables /\ result.p \in Handed
    BY <1>4, <1>5, FragmentKeeps
  <1> HIDE DEF result
  <1>7. <<>> \in Handed
    BY DEF Handed
  <1>8. ASSUME NEW v \in Tables, NEW p \in Handed, Settle(v, p)
        PROVE  ReassIInv'
    <2>1. v = [list |-> reassdatagrams', count |-> ip_reass_pbufcount']
      BY <1>8, TableFields DEF Settle
    <2> QED BY <1>8, <2>1 DEF ReassIInv, Table, Settle
  <1> QED BY <1>1, <1>2, <1>6, <1>7, <1>8

LEMMA QueuedPbufsIsNumber ==
    ASSUME NEW list \in Seq(OpenEntries)
    PROVE  QueuedPbufs(list) \in Nat
  <1> DEFINE N == Len(list)
             sum[k \in 0..N] == IF k = 0 THEN 0 ELSE sum[k - 1] + Len(list[k].p)
  <1>1. N \in Nat /\ \A k \in 1..N : Len(list[k].p) \in Nat
    <2>1. \A k \in 1..N : list[k].p \in Seq(Fragments)
      BY EntryFields
    <2> QED BY <2>1
  <1>2. \E f : f = [k \in 0..N |-> IF k = 0 THEN 0 ELSE f[k - 1] + Len(list[k].p)]
    <2> DEFINE step == [x \in Nat \X (1..N) |-> x[1] + Len(list[x[2]].p)]
    <2>1. step \in [Nat \X (1..N) -> Nat]
      BY <1>1
    <2>2. PICK f \in [0..N -> Nat] : Along(f, N, 0, step)
      <3> HIDE DEF step
      <3> QED BY <1>1, <2>1, StepsExist
    <2>3. \A k \in 0..N : k # 0 => step[<<f[k - 1], k>>] = f[k - 1] + Len(list[k].p)
      <3>1. \A k \in 0..N : k # 0 => k - 1 \in 0..N /\ k \in 1..N
        BY <1>1
      <3> QED BY <2>2, <3>1
    <2> HIDE DEF step
    <2>4. \A k \in 0..N : f[k] = IF k = 0 THEN 0 ELSE f[k - 1] + Len(list[k].p)
      BY <2>2, <2>3 DEF Along
    <2>5. f = [k \in 0..N |-> f[k]]
      BY <2>2
    <2>6. f = [k \in 0..N |-> IF k = 0 THEN 0 ELSE f[k - 1] + Len(list[k].p)]
      BY <2>4, <2>5, Zenon
    <2> QED BY <2>6
  <1>3. sum = [k \in 0..N |-> IF k = 0 THEN 0 ELSE sum[k - 1] + Len(list[k].p)]
    BY <1>2
  <1>4. QueuedPbufs(list) = sum[N]
    BY DEF QueuedPbufs
  <1> HIDE DEF sum
  <1>5. sum[0] \in Nat
    BY <1>1, <1>3
  <1>6. \A k \in 1..N : sum[k - 1] \in Nat => sum[k] \in Nat
    <2>1. \A k \in 1..N : sum[k] = sum[k - 1] + Len(list[k].p)
      BY <1>1, <1>3
    <2> QED BY <1>1, <2>1
  <1>7. sum[N] \in Nat
    <2> HIDE DEF N
    <2> QED BY <1>1, <1>5, <1>6, HoldsAlong
  <1> QED BY <1>4, <1>7

LEMMA ReassTimerKeeps ==
    ASSUME ReassIInv, ip_reass_tmr
    PROVE  ReassIInv'
  <1> DEFINE list == reassdatagrams
             expired == {r \in ToSet(list) : r.timer = 0}
             remaining == Without(list, expired)
             aged == [i \in DOMAIN remaining |-> [remaining[i] EXCEPT !.timer = @ - 1]]
             c == (ip_reass_pbufcount - (QueuedPbufs(list) - QueuedPbufs(remaining))) % U16
  <1>1. Settle([list |-> aged, count |-> c], <<>>)
    BY DEF ip_reass_tmr
  <1>2. /\ list \in Seq(SoundEntries) /\ ip_reass_pbufcount \in 0..(U16 - 1)
        /\ Len(list) <= MEMP_NUM_REASSDATA /\ EachOnce(list)
    BY TableFields DEF ReassIInv, Table
  <1>3. /\ remaining \in Seq(SoundEntries) /\ Len(remaining) <= Len(list) /\ EachOnce(remaining)
        /\ \A n \in DOMAIN remaining : remaining[n].timer # 0
    <2>1. /\ remaining \in Seq(SoundEntries)
          /\ \E p \in [DOMAIN remaining -> DOMAIN list] : OthersInOrder(list, expired, remaining, p)
      <3> HIDE DEF expired
      <3> QED BY <1>2, WithoutPlaces
    <2>2. IsInjective(list)
      BY <1>2 DEF EachOnce, IsInjective
    <2>3. IsInjective(remaining) /\ Range(remaining) \subseteq Range(list)
      <3> HIDE DEF expired
      <3> QED BY <1>2, <2>2, WithoutFacts
    <2> HIDE DEF remaining
    <2>4. PICK p \in [DOMAIN remaining -> DOMAIN list] : OthersInOrder(list, expired, remaining, p)
      BY <2>1
    <2>5. Len(remaining) <= Len(list)
      <3>1. /\ IsFiniteSet(Range(list)) /\ Cardinality(Range(list)) = Len(list)
            /\ Cardinality(Range(remaining)) = Len(remaining)
        BY <1>2, <2>1, <2>2, <2>3, RangeCount
      <3> QED BY <2>3, <3>1, FS_Subset
    <2>6. EachOnce(remaining)
      <3> SUFFICES ASSUME NEW i \in DOMAIN remaining, NEW j \in DOMAIN remaining, i # j
                   PROVE  remaining[i].id # remaining[j].id
        BY DEF EachOnce
      <3>1. i \in Nat /\ j \in Nat /\ p[i] \in Nat /\ p[j] \in Nat
        BY <1>2, <2>1, <2>4
      <3>2. p[i] # p[j]
        BY <2>4, <3>1 DEF OthersInOrder
      <3>3. /\ remaining[i] = list[p[i]] /\ remaining[j] = list[p[j]]
            /\ p[i] \in DOMAIN list /\ p[j] \in DOMAIN list
        BY <2>4 DEF OthersInOrder
      <3> QED BY <1>2, <3>2, <3>3 DEF EachOnce
    <2>7. \A n \in DOMAIN remaining : remaining[n].timer # 0
      <3> TAKE n \in DOMAIN remaining
      <3>1. remaining[n] = list[p[n]] /\ p[n] \in DOMAIN list /\ remaining[n] \notin expired
        BY <2>4 DEF OthersInOrder
      <3> QED BY <3>1 DEF ToSet
    <2> QED BY <2>1, <2>5, <2>6, <2>7
  <1>4. c \in 0..(U16 - 1)
    <2>1. list \in Seq(OpenEntries) /\ remaining \in Seq(OpenEntries)
      <3>1. SoundEntries \subseteq OpenEntries
        BY DEF SoundEntries
      <3> HIDE DEF remaining
      <3> QED BY <1>2, <1>3, <3>1, ElementsIn
    <2>2. QueuedPbufs(list) \in Nat /\ QueuedPbufs(remaining) \in Nat
      <3> HIDE DEF remaining, list
      <3> QED BY <2>1, QueuedPbufsIsNumber
    <2>3. ip_reass_pbufcount \in Int
      BY <1>2, CountBound
    <2>4. ip_reass_pbufcount - (QueuedPbufs(list) - QueuedPbufs(remaining)) \in Int
      <3> HIDE DEF remaining, list
      <3> QED BY <2>2, <2>3
    <2> QED BY <2>4, CountIsU16
  <1> HIDE DEF remaining, c
  <1>5. /\ aged \in Seq(SoundEntries) /\ Len(aged) = Len(remaining) /\ EachOnce(aged)
    <2>1. ASSUME NEW n \in DOMAIN remaining
          PROVE  /\ [remaining[n] EXCEPT !.timer = @ - 1] \in SoundEntries
                 /\ [remaining[n] EXCEPT !.timer = @ - 1].id = remaining[n].id
      <3> DEFINE r == remaining[n]
                 e == [r EXCEPT !.timer = @ - 1]
      <3>1. r \in SoundEntries /\ r \in OpenEntries /\ r.timer # 0
        BY <1>3 DEF SoundEntries
      <3> HIDE DEF r
      <3>2. r \in ReassEntry /\ r.timer - 1 \in 0..IP_REASS_MAXAGE
        <4>1. r \in ReassEntry /\ r.timer \in 0..IP_REASS_MAXAGE
          BY <3>1, EntryFields
        <4>2. IP_REASS_MAXAGE \in Nat
          BY ReassBounds
        <4> QED BY <3>1, <4>1, <4>2
      <3>3. e \in ReassEntry /\ e.id = r.id /\ e.p = r.p /\ e.last = r.last
        BY <3>2 DEF ReassEntry
      <3> HIDE DEF e
      <3>4. e \in SoundEntries
        BY <3>1, <3>3 DEF SoundEntries, OpenEntries
      <3> QED BY <3>3, <3>4 DEF e, r
    <2>2. /\ DOMAIN aged = DOMAIN remaining /\ DOMAIN remaining = 1..Len(remaining) /\ Len(remaining) \in Nat
          /\ \A n \in DOMAIN remaining : aged[n] = [remaining[n] EXCEPT !.timer = @ - 1]
      BY <1>3
    <2>3. aged \in Seq(SoundEntries) /\ Len(aged) = Len(remaining)
      BY <2>1, <2>2
    <2> HIDE DEF aged
    <2>4. \A n \in DOMAIN remaining : aged[n].id = remaining[n].id
      BY <2>1, <2>2
    <2>5. EachOnce(aged)
      BY <1>3, <2>2, <2>4 DEF EachOnce
    <2> QED BY <2>3, <2>5
  <1> HIDE DEF aged
  <1>6. Len(aged) <= MEMP_NUM_REASSDATA
    BY <1>2, <1>3, <1>5, ReassBounds
  <1>7. [list |-> aged, count |-> c] \in Tables
    BY <1>4, <1>5, <1>6 DEF Tables
  <1>8. <<>> \in Handed
    BY DEF Handed
  <1> QED BY <1>1, <1>7, <1>8 DEF ReassIInv, Table, Settle

LEMMA ReassStarts == ReassInit => ReassIInv
  <1> SUFFICES ASSUME ReassInit PROVE ReassIInv
    OBVIOUS
  <1>1. Table = [list |-> <<>>, count |-> 0] /\ passed_up = <<>>
    BY DEF ReassInit, Table
  <1>2. [list |-> <<>>, count |-> 0] \in Tables
    <2>1. 0 \in 0..(U16 - 1)
      BY CountBound
    <2>2. <<>> \in Seq(SoundEntries) /\ Len(<<>>) <= MEMP_NUM_REASSDATA /\ EachOnce(<<>>)
      BY ReassBounds DEF EachOnce
    <2> QED BY <2>1, <2>2 DEF Tables
  <1>3. <<>> \in Handed
    BY DEF Handed
  <1> QED BY <1>1, <1>2, <1>3 DEF ReassIInv

LEMMA ReassKeeps == ReassIInv /\ [ReassNext]_reassVars => ReassIInv'
  <1> SUFFICES ASSUME ReassIInv, [ReassNext]_reassVars PROVE ReassIInv'
    OBVIOUS
  <1>1. CASE UNCHANGED reassVars
    BY <1>1 DEF ReassIInv, Table, reassVars
  <1>2. CASE \E f \in Fragments : ip4_reass(f)
    BY <1>2, InputKeeps
  <1>3. CASE ip_reass_tmr
    BY <1>3, ReassTimerKeeps
  <1> QED BY <1>1, <1>2, <1>3 DEF ReassNext

LEMMA ReassIInvSuffices == ReassIInv => DeliveredWhole
  <1> SUFFICES ASSUME ReassIInv PROVE DeliveredWhole
    OBVIOUS
  <1>1. /\ reassdatagrams \in Seq(SoundEntries) /\ ip_reass_pbufcount \in 0..(U16 - 1)
        /\ Len(reassdatagrams) <= MEMP_NUM_REASSDATA /\ EachOnce(reassdatagrams)
    BY TableFields DEF ReassIInv, Table
  <1>2. \A i \in DOMAIN reassdatagrams :
           /\ reassdatagrams[i] \in ReassEntry /\ reassdatagrams[i].p # <<>>
           /\ reassdatagrams[i].p \in Seq(Fragments)
           /\ Pieces(reassdatagrams[i].p, reassdatagrams[i].id)
    BY <1>1, EntryFields DEF SoundEntries
  <1>3. reassdatagrams \in Seq(ReassEntry)
    BY <1>1, <1>2, ElementsIn
  <1>4. passed_up \in Seq(Fragments) /\ (passed_up # <<>> => IsWhole(passed_up))
    BY DEF ReassIInv, Handed
  <1>5. ReassTypeOK
    BY <1>1, <1>3, <1>4 DEF ReassTypeOK, ReassEntry
  <1>6. ASSUME NEW i \in DOMAIN reassdatagrams, NEW k \in 2..Len(reassdatagrams[i].p)
        PROVE  reassdatagrams[i].p[k - 1].end <= reassdatagrams[i].p[k].start
    <2>1. PICK p \in Seq(Fragments) : p = reassdatagrams[i].p
      BY <1>2
    <2>2. k \in DOMAIN p /\ k - 1 \in DOMAIN p /\ k - 1 < k
      BY <2>1
    <2> QED BY <1>2, <2>1, <2>2 DEF Pieces
  <1> QED BY <1>1, <1>2, <1>4, <1>5, <1>6 DEF DeliveredWhole, IsWhole, EachOnce, Pieces

(* ip4_reass hands up whole datagrams only, each byte once and in order,    *)
(* and keeps what it still waits for complete enough to be freed: for any   *)
(* datagrams, lengths, cuts, limits and age, whatever order, repetitions    *)
(* and paths of the fragments.                                              *)
THEOREM AlwaysDeliveredWhole == ReassSpec => []DeliveredWhole
  BY ReassStarts, ReassKeeps, ReassIInvSuffices, PTL DEF ReassSpec

-----------------------------------------------------------------------------
(* The input path.  Every element of a pool is in one place: w says which,  *)
(* and c is the free list.                                                  *)

(* The list c, linked from its first element on. *)
Links(c, first, next) ==
    /\ first = IF c = <<>> THEN NULL ELSE c[1]
    /\ \A i \in DOMAIN c : next[c[i]] = IF i = Len(c) THEN NULL ELSE c[i + 1]

FreeList(pool, c) ==
    /\ c \in Seq(Elements(pool)) /\ IsInjective(c)
    /\ Links(c, tab[pool], memp_next)

IsFree == <<"free", NULL>>
IsHeld(t) == <<"hand", t>>
IsPosted == <<"mbox", NULL>>
IsCarried(m) == <<"message", m>>
IsQueued == <<"queued", NULL>>

PbufPlace(c, w) ==
    \A e \in Pbufs :
        /\ (e \in Range(c)) <=> (w[e] = IsFree)
        /\ \A t \in NetThreads : (hand[t]["pbuf"] = e) <=> (w[e] = IsHeld(t))
        /\ \A m \in Msgs : (inp[m] = e) <=> (w[e] = IsCarried(m))
        /\ (e \in queued) <=> (w[e] = IsQueued)

MsgPlace(c, w) ==
    \A e \in Msgs :
        /\ (e \in Range(c)) <=> (w[e] = IsFree)
        /\ \A t \in NetThreads : (hand[t]["inpkt"] = e) <=> (w[e] = IsHeld(t))
        /\ (e \in Range(mbox)) <=> (w[e] = IsPosted)

PbufPlaces == {IsFree, IsQueued} \cup {IsHeld(t) : t \in NetThreads} \cup {IsCarried(m) : m \in Msgs}
MsgPlaces == {IsFree, IsPosted} \cup {IsHeld(t) : t \in NetThreads}

PbufsPlaced ==
    \E c \in Seq(Pbufs) : \E w \in [Pbufs -> PbufPlaces] : FreeList("pbuf", c) /\ PbufPlace(c, w)
MsgsPlaced ==
    /\ IsInjective(mbox)
    /\ \E c \in Seq(Msgs) : \E w \in [Msgs -> MsgPlaces] : FreeList("inpkt", c) /\ MsgPlace(c, w)

AnyElement == Pbufs \cup Msgs \cup {NULL}
OrNull(pool) == Elements(pool) \cup {NULL}
TapifAt == {"select", "input", "post", "drop", "lock", "core"}
TcpipAt == {"fetch", "lock", "core"}
Accesses ==
    {NoAccess} \cup [op : {"malloc"}, pool : Pools, e : AnyElement, then : TapifAt]
               \cup [op : {"free"}, pool : Pools, then : TapifAt]

PathTypes ==
    /\ tab \in [Pools -> AnyElement] /\ \A pool \in Pools : tab[pool] \in OrNull(pool)
    /\ memp_next \in [Pbufs \cup Msgs -> AnyElement]
    /\ \A pool \in Pools : \A e \in Elements(pool) : memp_next[e] \in OrNull(pool)
    /\ hand \in [NetThreads -> [Pools -> AnyElement]]
    /\ \A t \in NetThreads : \A pool \in Pools : hand[t][pool] \in OrNull(pool)
    /\ inp \in [Msgs -> Pbufs \cup {NULL}]
    /\ mbox \in Seq(Msgs) /\ Len(mbox) <= TCPIP_MBOX_SIZE
    /\ queued \subseteq Pbufs
    /\ at \in [NetThreads -> TapifAt \cup TcpipAt] /\ at["tapif"] \in TapifAt /\ at["tcpip"] \in TcpipAt
    /\ access \in [NetThreads -> Accesses]
    /\ lock_tcpip_core \in NetThreads \cup {NULL} /\ prot \in NetThreads \cup {NULL}

(* Who accesses a pool is alone. *)
AccessAlone == \A t \in NetThreads : prot = t <=> access[t] # NoAccess

(* What a thread has in its hands, and what it is about to do with it. *)
Empty(t, pool) == hand[t][pool] = NULL
Malloc(t) ==
    LET a == access[t]
    IN  /\ a.e = tab[a.pool] /\ Empty(t, a.pool)
        /\ \/ at[t] = "select" /\ a.pool = "pbuf" /\ a.then = "input"
           \/ at[t] = "input" /\ a.pool = "inpkt" /\ a.then = "post" /\ ~ Empty(t, "pbuf")
MempFree(t) ==
    LET a == access[t]
    IN  /\ ~ Empty(t, a.pool) /\ memp_next[hand[t][a.pool]] = tab[a.pool]
        /\ \/ at[t] = "post" /\ a.pool = "inpkt" /\ a.then = "drop"
           \/ at[t] = "drop" /\ a.pool = "pbuf" /\ a.then = "select"
           \/ at[t] = "core" /\ a.then = "core"

Handy(t) ==
    /\ at[t] \in {"select", "fetch"} => Empty(t, "pbuf") /\ Empty(t, "inpkt")
    /\ at[t] = "input" => Empty(t, "inpkt")
    /\ at[t] \in {"post", "drop"} => ~ Empty(t, "pbuf")
    /\ at[t] = "drop" => Empty(t, "inpkt")
    /\ access[t].op = "malloc" => Malloc(t)
    /\ access[t].op = "free" => MempFree(t)

(* Only messages in the mailbox carry a packet. *)
OnlyPosted == \A m \in Msgs : inp[m] # NULL => m \in Range(mbox)

TcpipIInv ==
    /\ PathTypes /\ AccessAlone /\ OnlyPosted
    /\ \A t \in NetThreads : Handy(t)
    /\ PbufsPlaced /\ MsgsPlaced

LEMMA PoolElements ==
    /\ Elements("pbuf") = Pbufs /\ Elements("inpkt") = Msgs /\ Pools = {"pbuf", "inpkt"}
    /\ NetThreads = {"tapif", "tcpip"} /\ NULL \notin Pbufs /\ NULL \notin Msgs
    /\ \A e \in Pbufs : e \notin Msgs
  BY TcpipAssumption DEF Elements, Pools, NetThreads

(* The first element is taken off a list. *)
Unlinks(S, e, next, next2) == \A x \in S : next2[x] = IF x = e THEN NULL ELSE next[x]

LEMMA LinksTake ==
    ASSUME NEW S, NULL \notin S, NEW c \in Seq(S), IsInjective(c), NEW next, NEW next2,
           NEW first, first # NULL, Links(c, first, next),
           Unlinks(S, first, next, next2)
    PROVE  /\ first \in Range(c) /\ first \in S
           /\ \E d \in Seq(S) : /\ IsInjective(d) /\ Links(d, next[first], next2)
                               /\ Range(d) = Range(c) \ {first}
  <1>1. c # <<>> /\ first = c[1] /\ first = Head(c)
    BY DEF Links
  <1>2. /\ Tail(c) \in Seq(S) /\ IsInjective(Tail(c))
        /\ Head(c) \in S /\ Head(c) \in Range(c) /\ Range(Tail(c)) = Range(c) \ {Head(c)}
    BY <1>1, TailFacts
  <1>3. /\ Len(Tail(c)) = Len(c) - 1 /\ \A i \in DOMAIN Tail(c) : Tail(c)[i] = c[i + 1] /\ i + 1 \in DOMAIN c
        /\ DOMAIN c = 1..Len(c) /\ DOMAIN Tail(c) = 1..Len(c) - 1 /\ Len(c) \in Nat \ {0}
        /\ \A i \in DOMAIN c : c[i] \in S
    BY <1>1
  <1>4. next[first] = IF Tail(c) = <<>> THEN NULL ELSE Tail(c)[1]
    BY <1>1, <1>2, <1>3 DEF Links
  <1>5. ASSUME NEW i \in DOMAIN Tail(c)
        PROVE  next2[Tail(c)[i]] = IF i = Len(Tail(c)) THEN NULL ELSE Tail(c)[i + 1]
    <2>1. Tail(c)[i] = c[i + 1] /\ i + 1 \in DOMAIN c /\ c[i + 1] \in S
      BY <1>3
    <2>2. c[i + 1] # first
      <3>1. 1 \in DOMAIN c /\ i + 1 # 1
        BY <1>3
      <3> QED BY <1>1, <2>1, <3>1 DEF IsInjective
    <2>3. next2[c[i + 1]] = next[c[i + 1]]
      BY <2>1, <2>2 DEF Unlinks
    <2>4. next[c[i + 1]] = IF i + 1 = Len(c) THEN NULL ELSE c[i + 2]
      BY <1>3, <2>1 DEF Links
    <2>5. i # Len(Tail(c)) => i + 1 \in DOMAIN Tail(c) /\ Tail(c)[i + 1] = c[i + 2]
      BY <1>3
    <2> QED BY <1>3, <2>1, <2>3, <2>4, <2>5
  <1>6. Links(Tail(c), next[first], next2)
    BY <1>4, <1>5 DEF Links
  <1> QED BY <1>1, <1>2, <1>6

(* An element that is linked before a list. *)
LEMMA LinksGive ==
    ASSUME NEW S, NEW c \in Seq(S), IsInjective(c), NEW next, NEW first,
           Links(c, first, next), NEW e \in S, e \notin Range(c), next[e] = first
    PROVE  LET g == <<e>> \o c
           IN  /\ g \in Seq(S) /\ IsInjective(g) /\ Links(g, e, next)
               /\ Range(g) = Range(c) \cup {e}
  <1> DEFINE g == <<e>> \o c
  <1>1. /\ g \in Seq(S) /\ Len(g) = Len(c) + 1 /\ g # <<>> /\ g[1] = e
        /\ \A i \in DOMAIN c : g[i + 1] = c[i] /\ i + 1 \in DOMAIN g
        /\ \A i \in DOMAIN g : i # 1 => i - 1 \in DOMAIN c /\ g[i] = c[i - 1]
        /\ DOMAIN c = 1..Len(c) /\ DOMAIN g = 1..Len(c) + 1 /\ Len(c) \in Nat
    OBVIOUS
  <1> HIDE DEF g
  <1>2. \A i \in DOMAIN c : c[i] # e
    BY DEF Range
  <1>3. IsInjective(g)
    <2> SUFFICES ASSUME NEW i \in DOMAIN g, NEW j \in DOMAIN g, g[i] = g[j] PROVE i = j
      BY DEF IsInjective
    <2>1. CASE i = 1 \/ j = 1
      BY <1>1, <1>2, <2>1
    <2>2. CASE i # 1 /\ j # 1
      <3>1. i - 1 \in DOMAIN c /\ j - 1 \in DOMAIN c /\ c[i - 1] = c[j - 1] /\ i \in Int /\ j \in Int
        BY <1>1, <2>2
      <3>2. i - 1 = j - 1
        BY <3>1 DEF IsInjective
      <3> QED BY <3>1, <3>2
    <2> QED BY <2>1, <2>2
  <1>4. Range(g) = Range(c) \cup {e}
    BY <1>1 DEF Range
  <1>5. ASSUME NEW i \in DOMAIN g
        PROVE  next[g[i]] = IF i = Len(g) THEN NULL ELSE g[i + 1]
    <2>1. CASE i = 1
      <3>1. CASE c = <<>>
        BY <1>1, <2>1, <3>1 DEF Links
      <3>2. CASE c # <<>>
        <4>1. 1 \in DOMAIN c /\ first = c[1]
          BY <1>1, <3>2 DEF Links
        <4>2. g[2] = c[1] /\ Len(g) # 1
          BY <1>1, <4>1
        <4>3. next[g[1]] = c[1]
          BY <1>1, <4>1
        <4> QED BY <2>1, <4>2, <4>3
      <3> QED BY <3>1, <3>2
    <2>2. CASE i # 1
      <3>1. i - 1 \in DOMAIN c /\ g[i] = c[i - 1] /\ i \in Int
        BY <1>1, <2>2
      <3>2. next[c[i - 1]] = IF i - 1 = Len(c) THEN NULL ELSE c[i - 1 + 1]
        BY <3>1 DEF Links
      <3>3. i - 1 # Len(c) => i \in DOMAIN c /\ g[i + 1] = c[i]
        BY <1>1, <3>1
      <3> QED BY <1>1, <3>1, <3>2, <3>3
    <2> QED BY <2>1, <2>2
  <1> QED BY <1>1, <1>3, <1>4, <1>5 DEF Links, g

(* A list is what it was as long as nobody writes to its elements. *)
LEMMA LinksKeep ==
    ASSUME NEW S, NEW c \in Seq(S), NEW next, NEW next2, NEW first, Links(c, first, next),
           \A e \in Range(c) : next2[e] = next[e]
    PROVE  Links(c, first, next2)
  <1>1. \A i \in DOMAIN c : c[i] \in Range(c)
    BY DEF Range
  <1> QED BY <1>1 DEF Links

(* What the walk along the list finds. *)
LEMMA FreeIsList ==
    ASSUME NEW pool \in Pools, NEW c, FreeList(pool, c)
    PROVE  Free(pool) = Range(c)
  <1> DEFINE n == Cardinality(Elements(pool))
             g == [i \in 0..n |-> IF i < Len(c) THEN c[i + 1] ELSE NULL]
             e[i \in 0..n] == IF i = 0 THEN tab[pool]
                              ELSE IF e[i - 1] = NULL THEN NULL ELSE memp_next[e[i - 1]]
  <1>1. /\ c \in Seq(Elements(pool)) /\ IsInjective(c) /\ Links(c, tab[pool], memp_next)
        /\ IsFiniteSet(Elements(pool)) /\ NULL \notin Elements(pool)
    BY TcpipAssumption DEF FreeList, Elements, Pools
  <1>2. n \in Nat /\ Len(c) \in Nat /\ Len(c) <= n /\ DOMAIN c = 1..Len(c)
    <2>1. Range(c) \subseteq Elements(pool)
      BY <1>1 DEF Range
    <2>2. IsFiniteSet(Range(c)) /\ Cardinality(Range(c)) = Len(c)
      BY <1>1, RangeCount
    <2> QED BY <1>1, <2>1, <2>2, FS_Subset, FS_CardinalityType
  <1>3. \A i \in DOMAIN c : c[i] # NULL /\ c[i] \in Elements(pool)
    BY <1>1
  <1> HIDE DEF n
  <1>4. ASSUME NEW i \in 0..n
        PROVE  g[i] = IF i = 0 THEN tab[pool] ELSE IF g[i - 1] = NULL THEN NULL ELSE memp_next[g[i - 1]]
    <2>1. CASE i = 0
      <3>1. CASE c = <<>>
        BY <1>1, <1>2, <2>1, <3>1 DEF Links
      <3>2. CASE c # <<>>
        <4>1. 0 < Len(c) /\ tab[pool] = c[1]
          BY <1>1, <1>2, <3>2 DEF Links
        <4> QED BY <1>2, <2>1, <4>1
      <3> QED BY <3>1, <3>2
    <2>2. CASE i # 0 /\ i - 1 < Len(c)
      <3>1. i \in DOMAIN c /\ g[i - 1] = c[i] /\ c[i] # NULL
        BY <1>2, <1>3, <2>2
      <3>2. memp_next[c[i]] = IF i = Len(c) THEN NULL ELSE c[i + 1]
        BY <1>1, <3>1 DEF Links
      <3>3. g[i] = IF i < Len(c) THEN c[i + 1] ELSE NULL
        OBVIOUS
      <3> HIDE DEF g
      <3>4. i \in Int /\ i # 0 /\ (i < Len(c) \/ i = Len(c)) /\ (i < Len(c) => i # Len(c))
        <4>1. i \in Int /\ Len(c) \in Int
          BY <1>2
        <4> HIDE DEF e
        <4> QED BY <2>2, <4>1
      <3> QED BY <3>1, <3>2, <3>3, <3>4
    <2>3. CASE i # 0 /\ ~ (i - 1 < Len(c))
      BY <1>2, <2>3
    <2> QED BY <2>1, <2>2, <2>3
  <1>5. g = [i \in 0..n |-> IF i = 0 THEN tab[pool] ELSE IF g[i - 1] = NULL THEN NULL ELSE memp_next[g[i - 1]]]
    <2>1. g = [i \in 0..n |-> g[i]]
      OBVIOUS
    <2> HIDE DEF g
    <2> QED BY <1>4, <2>1, Zenon
  <1>6. e = [i \in 0..n |-> IF i = 0 THEN tab[pool] ELSE IF e[i - 1] = NULL THEN NULL ELSE memp_next[e[i - 1]]]
    <2> HIDE DEF g
    <2> QED BY <1>5
  <1>7. Free(pool) = {e[i] : i \in 0..n} \ {NULL}
    BY DEF Free, n
  <1> HIDE DEF e
  <1>8. ASSUME NEW m \in 0..n PROVE e[m] = g[m]
    <2> DEFINE same == [i \in 0..n |-> IF e[i] = g[i] THEN 0 ELSE 1]
    <2>1. same[0] \in {0}
      <3>1. e[0] = tab[pool] /\ g[0] = tab[pool]
        <4> HIDE DEF g
        <4> QED BY <1>2, <1>4, <1>6
      <3> QED BY <1>2, <3>1
    <2>2. \A k \in 1..m : same[k - 1] \in {0} => same[k] \in {0}
      <3> SUFFICES ASSUME NEW k \in 1..m, same[k - 1] \in {0} PROVE same[k] \in {0}
        OBVIOUS
      <3>1. k \in 0..n /\ k - 1 \in 0..n /\ k # 0
        BY <1>2
      <3>2. e[k - 1] = g[k - 1]
        BY <3>1
      <3>3. e[k] = IF e[k - 1] = NULL THEN NULL ELSE memp_next[e[k - 1]]
        BY <1>6, <3>1
      <3>4. g[k] = IF g[k - 1] = NULL THEN NULL ELSE memp_next[g[k - 1]]
        <4> HIDE DEF g
        <4> QED BY <1>4, <3>1
      <3>5. e[k] = g[k]
        BY <3>2, <3>3, <3>4, Zenon
      <3> QED BY <3>1, <3>5
    <2>3. same[m] \in {0}
      <3>1. m \in Nat
        BY <1>2
      <3> DEFINE D == {0}
      <3>2. same[0] \in D /\ \A k \in 1..m : same[k - 1] \in D => same[k] \in D
        BY <2>1, <2>2
      <3>3. ASSUME same[m] \in D PROVE same[m] \in {0}
        BY <3>3
      <3> HIDE DEF same, g, D
      <3>4. same[m] \in D
        BY <3>1, <3>2, HoldsAlong
      <3> QED BY <3>3, <3>4
    <2> QED BY <2>3
  <1>9. {g[i] : i \in 0..n} \ {NULL} = Range(c)
    <2>1. ASSUME NEW i \in 0..n, g[i] # NULL PROVE g[i] \in Range(c)
      <3>1. i < Len(c) /\ g[i] = c[i + 1] /\ i + 1 \in DOMAIN c
        BY <1>2, <2>1
      <3> QED BY <3>1 DEF Range
    <2>2. ASSUME NEW i \in DOMAIN c PROVE \E j \in 0..n : g[j] = c[i] /\ c[i] # NULL
      <3>1. i - 1 \in 0..n /\ g[i - 1] = c[i]
        BY <1>2
      <3> QED BY <1>3, <3>1
    <2> HIDE DEF g
    <2> QED BY <2>1, <2>2 DEF Range
  <1> HIDE DEF g
  <1> QED BY <1>7, <1>8, <1>9

-----------------------------------------------------------------------------
(* Elements that stay, and elements that move.                              *)

LEMMA PathTypeFacts ==
    ASSUME PathTypes, NEW t \in NetThreads
    PROVE  /\ hand[t]["pbuf"] \in Pbufs \cup {NULL} /\ hand[t]["inpkt"] \in Msgs \cup {NULL}
           /\ tab["pbuf"] \in Pbufs \cup {NULL} /\ tab["inpkt"] \in Msgs \cup {NULL}
           /\ \A e \in Pbufs : memp_next[e] \in Pbufs \cup {NULL}
           /\ \A e \in Msgs : memp_next[e] \in Msgs \cup {NULL}
           /\ DOMAIN memp_next = Pbufs \cup Msgs /\ DOMAIN tab = Pools /\ DOMAIN hand = NetThreads
           /\ DOMAIN hand[t] = Pools /\ DOMAIN at = NetThreads /\ DOMAIN access = NetThreads
           /\ access[t] \in Accesses
  BY PoolElements DEF PathTypes, OrNull

LEMMA PbufsUnmoved ==
    ASSUME PbufsPlaced, tab'["pbuf"] = tab["pbuf"], inp' = inp, queued' = queued,
           \A t \in NetThreads : hand'[t]["pbuf"] = hand[t]["pbuf"],
           \A e \in Pbufs : memp_next'[e] = memp_next[e] \/ \E t \in NetThreads : hand[t]["pbuf"] = e
    PROVE  PbufsPlaced'
  <1>1. PICK c \in Seq(Pbufs), w \in [Pbufs -> PbufPlaces] : FreeList("pbuf", c) /\ PbufPlace(c, w)
    BY DEF PbufsPlaced
  <1>2. Range(c) \subseteq Pbufs
    BY DEF Range
  <1>3. \A e \in Range(c) : memp_next'[e] = memp_next[e]
    BY <1>1, <1>2 DEF PbufPlace, IsFree, IsHeld
  <1>4. Links(c, tab["pbuf"], memp_next) => Links(c, tab["pbuf"], memp_next')
    BY <1>3, LinksKeep
  <1>5. FreeList("pbuf", c)'
    BY <1>1, <1>4 DEF FreeList
  <1>6. PbufPlace(c, w)'
    BY <1>1 DEF PbufPlace
  <1> QED BY <1>5, <1>6 DEF PbufsPlaced

LEMMA MsgsUnmoved ==
    ASSUME MsgsPlaced, tab'["inpkt"] = tab["inpkt"], mbox' = mbox,
           \A t \in NetThreads : hand'[t]["inpkt"] = hand[t]["inpkt"],
           \A e \in Msgs : memp_next'[e] = memp_next[e] \/ \E t \in NetThreads : hand[t]["inpkt"] = e
    PROVE  MsgsPlaced'
  <1>1. PICK c \in Seq(Msgs), w \in [Msgs -> MsgPlaces] : FreeList("inpkt", c) /\ MsgPlace(c, w)
    BY DEF MsgsPlaced
  <1>2. Range(c) \subseteq Msgs
    BY DEF Range
  <1>3. \A e \in Range(c) : memp_next'[e] = memp_next[e]
    BY <1>1, <1>2 DEF MsgPlace, IsFree, IsHeld
  <1>4. Links(c, tab["inpkt"], memp_next) => Links(c, tab["inpkt"], memp_next')
    BY <1>3, LinksKeep
  <1>5. FreeList("inpkt", c)'
    BY <1>1, <1>4 DEF FreeList
  <1>6. MsgPlace(c, w)'
    BY <1>1 DEF MsgPlace
  <1> QED BY <1>5, <1>6 DEF MsgsPlaced

(* e moves to the place b, and the rest stays. *)
PbufMove(c, d, e, b) ==
    /\ \A x \in Pbufs : x # e =>
           /\ x \in Range(d) <=> x \in Range(c)
           /\ \A t \in NetThreads : hand'[t]["pbuf"] = x <=> hand[t]["pbuf"] = x
           /\ \A m \in Msgs : inp'[m] = x <=> inp[m] = x
           /\ x \in queued' <=> x \in queued
    /\ e \in Range(d) <=> b = IsFree
    /\ \A t \in NetThreads : hand'[t]["pbuf"] = e <=> b = IsHeld(t)
    /\ \A m \in Msgs : inp'[m] = e <=> b = IsCarried(m)
    /\ e \in queued' <=> b = IsQueued

MsgMove(c, d, e, b) ==
    /\ \A x \in Msgs : x # e =>
           /\ x \in Range(d) <=> x \in Range(c)
           /\ \A t \in NetThreads : hand'[t]["inpkt"] = x <=> hand[t]["inpkt"] = x
           /\ x \in Range(mbox') <=> x \in Range(mbox)
    /\ e \in Range(d) <=> b = IsFree
    /\ \A t \in NetThreads : hand'[t]["inpkt"] = e <=> b = IsHeld(t)
    /\ e \in Range(mbox') <=> b = IsPosted

LEMMA PbufMoves ==
    ASSUME NEW c, NEW w \in [Pbufs -> PbufPlaces], PbufPlace(c, w),
           NEW d \in Seq(Pbufs), FreeList("pbuf", d)', NEW e \in Pbufs, NEW b \in PbufPlaces,
           PbufMove(c, d, e, b)
    PROVE  PbufsPlaced'
  <1> DEFINE v == [w EXCEPT ![e] = b]
  <1>1. v \in [Pbufs -> PbufPlaces] /\ v[e] = b /\ \A x \in Pbufs : x # e => v[x] = w[x]
    OBVIOUS
  <1> HIDE DEF v
  <1>2. PbufPlace(d, v)'
    <2> SUFFICES ASSUME NEW x \in Pbufs
                 PROVE  /\ (x \in Range(d)) <=> (v[x] = IsFree)
                        /\ \A t \in NetThreads : (hand'[t]["pbuf"] = x) <=> (v[x] = IsHeld(t))
                        /\ \A m \in Msgs : (inp'[m] = x) <=> (v[x] = IsCarried(m))
                        /\ (x \in queued') <=> (v[x] = IsQueued)
      BY DEF PbufPlace, IsFree, IsHeld, IsCarried, IsQueued
    <2>1. CASE x = e
      BY <1>1, <2>1 DEF PbufMove
    <2>2. CASE x # e
      BY <1>1, <2>2 DEF PbufPlace, PbufMove
    <2> QED BY <2>1, <2>2
  <1> QED BY <1>1, <1>2 DEF PbufsPlaced, PbufPlaces, IsFree, IsHeld, IsCarried, IsQueued

LEMMA MsgMoves ==
    ASSUME NEW c, NEW w \in [Msgs -> MsgPlaces], MsgPlace(c, w), IsInjective(mbox'),
           NEW d \in Seq(Msgs), FreeList("inpkt", d)', NEW e \in Msgs, NEW b \in MsgPlaces,
           MsgMove(c, d, e, b)
    PROVE  MsgsPlaced'
  <1> DEFINE v == [w EXCEPT ![e] = b]
  <1>1. v \in [Msgs -> MsgPlaces] /\ v[e] = b /\ \A x \in Msgs : x # e => v[x] = w[x]
    OBVIOUS
  <1> HIDE DEF v
  <1>2. MsgPlace(d, v)'
    <2> SUFFICES ASSUME NEW x \in Msgs
                 PROVE  /\ (x \in Range(d)) <=> (v[x] = IsFree)
                        /\ \A t \in NetThreads : (hand'[t]["inpkt"] = x) <=> (v[x] = IsHeld(t))
                        /\ (x \in Range(mbox')) <=> (v[x] = IsPosted)
      BY DEF MsgPlace, IsFree, IsHeld, IsPosted
    <2>1. CASE x = e
      BY <1>1, <2>1 DEF MsgMove
    <2>2. CASE x # e
      BY <1>1, <2>2 DEF MsgPlace, MsgMove
    <2> QED BY <2>1, <2>2
  <1> QED BY <1>1, <1>2 DEF MsgsPlaced, MsgPlaces, IsFree, IsHeld, IsPosted

(* memp_malloc and memp_free. *)
LEMMA PbufTaken ==
    ASSUME PathTypes, PbufsPlaced, NEW t \in NetThreads, hand[t]["pbuf"] = NULL,
           NEW e, e = tab["pbuf"], e # NULL, tab'["pbuf"] = memp_next[e],
           \A x \in Pbufs : memp_next'[x] = IF x = e THEN NULL ELSE memp_next[x],
           hand'[t]["pbuf"] = e,
           \A u \in NetThreads : u # t => hand'[u]["pbuf"] = hand[u]["pbuf"],
           inp' = inp, queued' = queued
    PROVE  PbufsPlaced'
  <1>1. PICK c \in Seq(Pbufs), w \in [Pbufs -> PbufPlaces] : FreeList("pbuf", c) /\ PbufPlace(c, w)
    BY DEF PbufsPlaced
  <1>2. /\ e \in Range(c) /\ e \in Pbufs
        /\ \E d \in Seq(Pbufs) : /\ IsInjective(d) /\ Links(d, memp_next[e], memp_next')
                               /\ Range(d) = Range(c) \ {e}
    <2>1. IsInjective(c) /\ Links(c, e, memp_next) /\ NULL \notin Pbufs
      BY <1>1, PoolElements DEF FreeList
    <2>2. Unlinks(Pbufs, e, memp_next, memp_next')
      BY DEF Unlinks
    <2> QED BY <2>1, <2>2, LinksTake
  <1> PICK d \in Seq(Pbufs) : /\ IsInjective(d) /\ Links(d, memp_next[e], memp_next')
                          /\ Range(d) = Range(c) \ {e}
    BY <1>2
  <1>3. FreeList("pbuf", d)'
    BY <1>2, PoolElements DEF FreeList, Elements
  <1>4. /\ w[e] = IsFree /\ IsHeld(t) \in PbufPlaces /\ e \notin Range(d)
        /\ IsHeld(t) # IsFree /\ IsHeld(t) # IsQueued /\ \A m \in Msgs : IsHeld(t) # IsCarried(m)
        /\ \A u \in NetThreads : IsHeld(u) = IsHeld(t) <=> u = t
    BY <1>1, <1>2 DEF PbufPlace, PbufPlaces, IsFree, IsHeld, IsQueued, IsCarried
  <1>5. /\ \A u \in NetThreads : hand[u]["pbuf"] # e
        /\ \A m \in Msgs : inp[m] # e
        /\ e \notin queued
    BY <1>1, <1>2, <1>4 DEF PbufPlace, IsFree, IsHeld, IsQueued, IsCarried
  <1>6. \A x \in Pbufs : x # NULL
    BY PoolElements
  <1>7. \A u \in NetThreads : hand'[u]["pbuf"] = e <=> IsHeld(t) = IsHeld(u)
    BY <1>4, <1>5
  <1>8. \A x \in Pbufs : x # e =>
               /\ x \in Range(d) <=> x \in Range(c)
               /\ \A u \in NetThreads : hand'[u]["pbuf"] = x <=> hand[u]["pbuf"] = x
               /\ \A m \in Msgs : inp'[m] = x <=> inp[m] = x
               /\ x \in queued' <=> x \in queued
    BY <1>2, <1>6
  <1>9. \A m \in Msgs : inp'[m] = e <=> IsHeld(t) = IsCarried(m)
    BY <1>4, <1>5
  <1>10. PbufMove(c, d, e, IsHeld(t))
    BY <1>4, <1>5, <1>7, <1>8, <1>9 DEF PbufMove
  <1> QED BY <1>1, <1>2, <1>3, <1>4, <1>10, PbufMoves

LEMMA MsgTaken ==
    ASSUME PathTypes, MsgsPlaced, NEW t \in NetThreads, hand[t]["inpkt"] = NULL,
           NEW e, e = tab["inpkt"], e # NULL, tab'["inpkt"] = memp_next[e],
           \A x \in Msgs : memp_next'[x] = IF x = e THEN NULL ELSE memp_next[x],
           hand'[t]["inpkt"] = e,
           \A u \in NetThreads : u # t => hand'[u]["inpkt"] = hand[u]["inpkt"],
           mbox' = mbox
    PROVE  MsgsPlaced'
  <1>1. PICK c \in Seq(Msgs), w \in [Msgs -> MsgPlaces] : FreeList("inpkt", c) /\ MsgPlace(c, w)
    BY DEF MsgsPlaced
  <1>2. /\ e \in Range(c) /\ e \in Msgs
        /\ \E d \in Seq(Msgs) : /\ IsInjective(d) /\ Links(d, memp_next[e], memp_next')
                               /\ Range(d) = Range(c) \ {e}
    <2>1. IsInjective(c) /\ Links(c, e, memp_next) /\ NULL \notin Msgs
      BY <1>1, PoolElements DEF FreeList
    <2>2. Unlinks(Msgs, e, memp_next, memp_next')
      BY DEF Unlinks
    <2> QED BY <2>1, <2>2, LinksTake
  <1> PICK d \in Seq(Msgs) : /\ IsInjective(d) /\ Links(d, memp_next[e], memp_next')
                          /\ Range(d) = Range(c) \ {e}
    BY <1>2
  <1>3. FreeList("inpkt", d)'
    BY <1>2, PoolElements DEF FreeList, Elements
  <1>4. /\ w[e] = IsFree /\ IsHeld(t) \in MsgPlaces /\ e \notin Range(d)
        /\ IsHeld(t) # IsFree /\ IsHeld(t) # IsPosted
        /\ \A u \in NetThreads : IsHeld(u) = IsHeld(t) <=> u = t
    BY <1>1, <1>2 DEF MsgPlace, MsgPlaces, IsFree, IsHeld, IsPosted
  <1>5. /\ \A u \in NetThreads : hand[u]["inpkt"] # e
        /\ e \notin Range(mbox) /\ IsInjective(mbox)
    BY <1>1, <1>2, <1>4 DEF MsgPlace, IsFree, IsHeld, IsPosted, MsgsPlaced
  <1>6. \A x \in Msgs : x # NULL
    BY PoolElements
  <1>7. \A u \in NetThreads : hand'[u]["inpkt"] = e <=> IsHeld(t) = IsHeld(u)
    BY <1>4, <1>5
  <1>8. \A x \in Msgs : x # e =>
               /\ x \in Range(d) <=> x \in Range(c)
               /\ \A u \in NetThreads : hand'[u]["inpkt"] = x <=> hand[u]["inpkt"] = x
               /\ x \in Range(mbox') <=> x \in Range(mbox)
    BY <1>2, <1>6
  <1>9. MsgMove(c, d, e, IsHeld(t))
    BY <1>4, <1>5, <1>7, <1>8 DEF MsgMove
  <1> QED BY <1>1, <1>2, <1>3, <1>4, <1>5, <1>9, MsgMoves

LEMMA PbufGiven ==
    ASSUME PathTypes, PbufsPlaced, NEW t \in NetThreads,
           NEW e, e = hand[t]["pbuf"], e # NULL, memp_next[e] = tab["pbuf"],
           tab'["pbuf"] = e, memp_next' = memp_next, hand'[t]["pbuf"] = NULL,
           \A u \in NetThreads : u # t => hand'[u]["pbuf"] = hand[u]["pbuf"],
           inp' = inp, queued' = queued
    PROVE  PbufsPlaced'
  <1>1. PICK c \in Seq(Pbufs), w \in [Pbufs -> PbufPlaces] : FreeList("pbuf", c) /\ PbufPlace(c, w)
    BY DEF PbufsPlaced
  <1>2. e \in Pbufs /\ w[e] = IsHeld(t) /\ e \notin Range(c)
    BY <1>1, PathTypeFacts DEF PbufPlace, IsHeld, IsFree
  <1> DEFINE d == <<e>> \o c
  <1>3. d \in Seq(Pbufs) /\ IsInjective(d) /\ Links(d, e, memp_next) /\ Range(d) = Range(c) \cup {e}
    <2>1. IsInjective(c) /\ Links(c, tab["pbuf"], memp_next)
      BY <1>1 DEF FreeList
    <2> QED BY <1>2, <2>1, LinksGive
  <1> HIDE DEF d
  <1>4. FreeList("pbuf", d)'
    BY <1>3, PoolElements DEF FreeList, Elements
  <1>5. /\ IsFree \in PbufPlaces /\ IsFree # IsQueued
        /\ \A u \in NetThreads : IsFree # IsHeld(u)
        /\ \A m \in Msgs : IsFree # IsCarried(m)
    BY DEF PbufPlaces, IsFree, IsHeld, IsQueued, IsCarried
  <1>6. /\ \A u \in NetThreads : u # t => hand[u]["pbuf"] # e
        /\ \A m \in Msgs : inp[m] # e
        /\ e \notin queued
    BY <1>1, <1>2 DEF PbufPlace, IsFree, IsHeld, IsQueued, IsCarried
  <1>7. \A x \in Pbufs : x # NULL
    BY PoolElements
  <1>8. \A u \in NetThreads : hand'[u]["pbuf"] = e <=> IsFree = IsHeld(u)
    BY <1>2, <1>5, <1>6, <1>7
  <1>9. \A x \in Pbufs : x # e =>
               /\ x \in Range(d) <=> x \in Range(c)
               /\ \A u \in NetThreads : hand'[u]["pbuf"] = x <=> hand[u]["pbuf"] = x
               /\ \A m \in Msgs : inp'[m] = x <=> inp[m] = x
               /\ x \in queued' <=> x \in queued
    BY <1>3, <1>7
  <1>10. \A m \in Msgs : inp'[m] = e <=> IsFree = IsCarried(m)
    BY <1>5, <1>6
  <1>11. e \in Range(d)
    BY <1>3
  <1>12. PbufMove(c, d, e, IsFree)
    BY <1>5, <1>6, <1>8, <1>9, <1>10, <1>11 DEF PbufMove
  <1> QED BY <1>1, <1>2, <1>3, <1>4, <1>5, <1>12, PbufMoves

LEMMA MsgGiven ==
    ASSUME PathTypes, MsgsPlaced, NEW t \in NetThreads,
           NEW e, e = hand[t]["inpkt"], e # NULL, memp_next[e] = tab["inpkt"],
           tab'["inpkt"] = e, memp_next' = memp_next, hand'[t]["inpkt"] = NULL,
           \A u \in NetThreads : u # t => hand'[u]["inpkt"] = hand[u]["inpkt"],
           mbox' = mbox
    PROVE  MsgsPlaced'
  <1>1. PICK c \in Seq(Msgs), w \in [Msgs -> MsgPlaces] : FreeList("inpkt", c) /\ MsgPlace(c, w)
    BY DEF MsgsPlaced
  <1>2. e \in Msgs /\ w[e] = IsHeld(t) /\ e \notin Range(c)
    BY <1>1, PathTypeFacts DEF MsgPlace, IsHeld, IsFree
  <1> DEFINE d == <<e>> \o c
  <1>3. d \in Seq(Msgs) /\ IsInjective(d) /\ Links(d, e, memp_next) /\ Range(d) = Range(c) \cup {e}
    <2>1. IsInjective(c) /\ Links(c, tab["inpkt"], memp_next)
      BY <1>1 DEF FreeList
    <2> QED BY <1>2, <2>1, LinksGive
  <1> HIDE DEF d
  <1>4. FreeList("inpkt", d)'
    BY <1>3, PoolElements DEF FreeList, Elements
  <1>5. IsFree \in MsgPlaces /\ IsFree # IsPosted /\ \A u \in NetThreads : IsFree # IsHeld(u)
    BY DEF MsgPlaces, IsFree, IsHeld, IsPosted
  <1>6. /\ \A u \in NetThreads : u # t => hand[u]["inpkt"] # e
        /\ e \notin Range(mbox) /\ IsInjective(mbox)
    BY <1>1, <1>2 DEF MsgPlace, IsFree, IsHeld, IsPosted, MsgsPlaced
  <1>7. \A x \in Msgs : x # NULL
    BY PoolElements
  <1>8. \A u \in NetThreads : hand'[u]["inpkt"] = e <=> IsFree = IsHeld(u)
    BY <1>2, <1>5, <1>6, <1>7
  <1>9. \A x \in Msgs : x # e =>
               /\ x \in Range(d) <=> x \in Range(c)
               /\ \A u \in NetThreads : hand'[u]["inpkt"] = x <=> hand[u]["inpkt"] = x
               /\ x \in Range(mbox') <=> x \in Range(mbox)
    BY <1>3, <1>7
  <1>10. e \in Range(d)
    BY <1>3
  <1>11. MsgMove(c, d, e, IsFree)
    BY <1>5, <1>6, <1>8, <1>9, <1>10 DEF MsgMove
  <1> QED BY <1>1, <1>2, <1>3, <1>4, <1>5, <1>6, <1>11, MsgMoves
-----------------------------------------------------------------------------
(* The steps of a thread, which the other does not disturb.                 *)

LEMMA OtherIsIdle ==
    ASSUME TcpipIInv, NEW t \in NetThreads, NEW u \in NetThreads, u # t, Turn(t)
    PROVE  access[u] = NoAccess /\ prot # u
  BY TcpipAssumption DEF TcpipIInv, AccessAlone, Turn

LEMMA OtherStaysHandy ==
    ASSUME TcpipIInv, NEW t \in NetThreads, NEW u \in NetThreads, u # t, Turn(t),
           at'[u] = at[u], hand'[u] = hand[u], access'[u] = access[u]
    PROVE  Handy(u)'
  <1>1. access'[u].op = "none"
    BY OtherIsIdle DEF NoAccess
  <1>2. Handy(u)
    BY DEF TcpipIInv
  <1> QED BY <1>1, <1>2 DEF Handy, Empty

LEMMA MallocReadsKeeps ==
    ASSUME TcpipIInv, SYS_LIGHTWEIGHT_PROT, NEW t \in NetThreads, NEW pool \in Pools,
           NEW then \in TapifAt, Turn(t), access[t] = NoAccess, MallocReads(t, pool, then),
           UNCHANGED <<inp, mbox, queued, lock_tcpip_core, at>>, Empty(t, pool),
           \/ at[t] = "select" /\ pool = "pbuf" /\ then = "input"
           \/ at[t] = "input" /\ pool = "inpkt" /\ then = "post" /\ ~ Empty(t, "pbuf")
    PROVE  TcpipIInv'
  <1> DEFINE a == [op |-> "malloc", pool |-> pool, e |-> tab[pool], then |-> then]
  <1>1. /\ prot' = t /\ access' = [access EXCEPT ![t] = a]
        /\ tab' = tab /\ memp_next' = memp_next /\ hand' = hand
    BY DEF MallocReads, Protect
  <1>2. a \in Accesses /\ a # NoAccess /\ a.op = "malloc" /\ a.pool = pool /\ a.e = tab[pool] /\ a.then = then
    BY DEF Accesses, TcpipIInv, PathTypes, NoAccess
  <1> HIDE DEF a
  <1>3. access'[t] = a /\ \A u \in NetThreads : u # t => access'[u] = access[u] /\ access[u] = NoAccess
    BY <1>1, OtherIsIdle DEF TcpipIInv, PathTypes
  <1>4. PathTypes'
    BY <1>1, <1>2 DEF TcpipIInv, PathTypes, OrNull
  <1>5. AccessAlone'
    BY <1>1, <1>2, <1>3 DEF AccessAlone
  <1>6. OnlyPosted'
    BY DEF TcpipIInv, OnlyPosted
  <1>7. Handy(t)'
    <2>1. Handy(t)
      BY DEF TcpipIInv
    <2>2. Malloc(t)'
      BY <1>1, <1>2, <1>3 DEF Malloc, Empty
    <2> QED BY <1>1, <1>2, <1>3, <2>1, <2>2 DEF Handy, Empty
  <1>8. \A u \in NetThreads : Handy(u)'
    BY <1>1, <1>3, <1>7, OtherStaysHandy
  <1>9. PbufsPlaced' /\ MsgsPlaced'
    BY <1>1, PbufsUnmoved, MsgsUnmoved DEF TcpipIInv
  <1> QED BY <1>4, <1>5, <1>6, <1>8, <1>9 DEF TcpipIInv

LEMMA FreeLinksKeeps ==
    ASSUME TcpipIInv, SYS_LIGHTWEIGHT_PROT, NEW t \in NetThreads, NEW pool \in Pools,
           NEW then \in TapifAt, Turn(t), access[t] = NoAccess, FreeLinks(t, pool, then),
           UNCHANGED <<inp, mbox, queued, lock_tcpip_core, at>>, ~ Empty(t, pool),
           \/ at[t] = "post" /\ pool = "inpkt" /\ then = "drop"
           \/ at[t] = "drop" /\ pool = "pbuf" /\ then = "select"
           \/ at[t] = "core" /\ then = "core"
    PROVE  TcpipIInv'
  <1> DEFINE a == [op |-> "free", pool |-> pool, then |-> then]
             h == hand[t][pool]
  <1>1. /\ prot' = t /\ access' = [access EXCEPT ![t] = a] /\ tab' = tab /\ hand' = hand
        /\ memp_next' = [memp_next EXCEPT ![h] = tab[pool]]
    BY DEF FreeLinks, Protect
  <1>2. a \in Accesses /\ a # NoAccess /\ a.op = "free" /\ a.pool = pool /\ a.then = then
    BY DEF Accesses, NoAccess
  <1> HIDE DEF a
  <1>3. access'[t] = a /\ \A u \in NetThreads : u # t => access'[u] = access[u] /\ access[u] = NoAccess
    BY <1>1, OtherIsIdle DEF TcpipIInv, PathTypes
  <1>4. h \in Elements(pool) /\ tab[pool] \in OrNull(pool) /\ tab[pool] \in AnyElement
    BY DEF TcpipIInv, PathTypes, OrNull, Empty
  <1>5. /\ Elements(pool) \subseteq Pbufs \cup Msgs /\ memp_next'[h] = tab[pool]
        /\ \A e \in Pbufs \cup Msgs : e # h => memp_next'[e] = memp_next[e]
        /\ memp_next' \in [Pbufs \cup Msgs -> AnyElement]
    <2>1. Elements(pool) \subseteq Pbufs \cup Msgs
      BY DEF Elements
    <2> HIDE DEF h
    <2> QED BY <1>1, <1>4, <2>1 DEF TcpipIInv, PathTypes
  <1>6. \A q \in Pools : \A e \in Elements(q) : e = h => q = pool
    BY <1>4, PoolElements
  <1> HIDE DEF h
  <1>7. PathTypes'
    <2>1. \A q \in Pools : \A e \in Elements(q) : memp_next'[e] \in OrNull(q)
      <3> SUFFICES ASSUME NEW q \in Pools, NEW e \in Elements(q) PROVE memp_next'[e] \in OrNull(q)
        OBVIOUS
      <3>1. CASE e = h
        BY <1>4, <1>5, <1>6, <3>1
      <3>2. CASE e # h
        <4>1. e \in Pbufs \cup Msgs
          BY DEF Elements
        <4>2. memp_next[e] \in OrNull(q)
          BY DEF TcpipIInv, PathTypes
        <4> QED BY <1>5, <3>2, <4>1, <4>2
      <3> QED BY <3>1, <3>2
    <2>2. access' \in [NetThreads -> Accesses]
      BY <1>1, <1>2 DEF TcpipIInv, PathTypes
    <2> QED BY <1>1, <1>5, <2>1, <2>2 DEF TcpipIInv, PathTypes, OrNull
  <1>8. AccessAlone'
    BY <1>1, <1>2, <1>3 DEF AccessAlone
  <1>9. OnlyPosted'
    BY DEF TcpipIInv, OnlyPosted
  <1>10. Handy(t)'
    <2>1. Handy(t)
      BY DEF TcpipIInv
    <2>2. MempFree(t)'
      BY <1>1, <1>2, <1>3, <1>5 DEF MempFree, Empty, h
    <2> QED BY <1>1, <1>2, <1>3, <2>1, <2>2 DEF Handy, Empty
  <1>11. \A u \in NetThreads : Handy(u)'
    BY <1>1, <1>3, <1>10, OtherStaysHandy
  <1>12. /\ \A e \in Pbufs : memp_next'[e] = memp_next[e] \/ \E u \in NetThreads : hand[u]["pbuf"] = e
         /\ \A e \in Msgs : memp_next'[e] = memp_next[e] \/ \E u \in NetThreads : hand[u]["inpkt"] = e
    <2>1. \A e \in Pbufs : e = h => hand[t]["pbuf"] = e
      BY <1>6, PoolElements DEF h
    <2>2. \A e \in Msgs : e = h => hand[t]["inpkt"] = e
      BY <1>6, PoolElements DEF h
    <2> QED BY <1>5, <2>1, <2>2
  <1>13. PbufsPlaced' /\ MsgsPlaced'
    BY <1>1, <1>12, PbufsUnmoved, MsgsUnmoved DEF TcpipIInv
  <1> QED BY <1>7, <1>8, <1>9, <1>11, <1>13 DEF TcpipIInv

(* A thread goes on, and nothing moves. *)
MayGo(t, where) ==
    /\ where \in (IF t = "tapif" THEN TapifAt ELSE TcpipAt)
    /\ \/ where \in {"lock", "core"}
       \/ where \in {"select", "fetch"} /\ Empty(t, "pbuf") /\ Empty(t, "inpkt")
       \/ where = "drop" /\ ~ Empty(t, "pbuf") /\ Empty(t, "inpkt")

NothingMoves ==
    /\ UNCHANGED <<tab, memp_next, hand, inp, mbox, queued, access, prot>>
    /\ lock_tcpip_core' \in NetThreads \cup {NULL}

LEMMA GoesKeeps ==
    ASSUME TcpipIInv, NEW t \in NetThreads, Turn(t), access[t] = NoAccess,
           NEW where, Goes(t, where), MayGo(t, where), NothingMoves
    PROVE  TcpipIInv'
  <1> USE DEF MayGo, NothingMoves
  <1>1. at' = [at EXCEPT ![t] = where] /\ at'[t] = where /\ \A u \in NetThreads : u # t => at'[u] = at[u]
    BY DEF Goes, TcpipIInv, PathTypes
  <1>2. PathTypes'
    <2>1. at' \in [NetThreads -> TapifAt \cup TcpipAt] /\ at'["tapif"] \in TapifAt /\ at'["tcpip"] \in TcpipAt
      BY <1>1, PoolElements DEF TcpipIInv, PathTypes
    <2> QED BY <2>1 DEF TcpipIInv, PathTypes, OrNull
  <1>3. AccessAlone' /\ OnlyPosted'
    BY DEF TcpipIInv, AccessAlone, OnlyPosted
  <1>4. Handy(t)'
    BY <1>1 DEF Handy, Empty, NoAccess
  <1>5. \A u \in NetThreads : Handy(u)'
    BY <1>1, <1>4, OtherStaysHandy
  <1>6. PbufsPlaced' /\ MsgsPlaced'
    BY PbufsUnmoved, MsgsUnmoved DEF TcpipIInv
  <1> QED BY <1>2, <1>3, <1>5, <1>6 DEF TcpipIInv

LEMMA MallocTakesKeeps ==
    ASSUME TcpipIInv, NEW t \in NetThreads, MallocTakes(t)
    PROVE  TcpipIInv'
  <1> DEFINE a == access[t]
  <1>1. /\ Turn(t) /\ a.op = "malloc" /\ prot' = NULL
        /\ tab' = (IF a.e = NULL THEN tab ELSE [tab EXCEPT ![a.pool] = memp_next[a.e]])
        /\ memp_next' = [x \in DOMAIN memp_next |-> IF x = a.e THEN NULL ELSE memp_next[x]]
        /\ hand' = [hand EXCEPT ![t][a.pool] = a.e]
        /\ at' = [at EXCEPT ![t] = a.then]
        /\ access' = [access EXCEPT ![t] = NoAccess]
        /\ inp' = inp /\ mbox' = mbox /\ queued' = queued /\ lock_tcpip_core' = lock_tcpip_core
    BY DEF MallocTakes
  <1>2. /\ a \in Accesses /\ a.pool \in Pools /\ a.then \in TapifAt /\ a # NoAccess
    <2>1. a \in Accesses
      BY DEF TcpipIInv, PathTypes
    <2> HIDE DEF a
    <2> QED BY <1>1, <2>1 DEF Accesses, NoAccess
  <1>3. Handy(t) /\ Malloc(t)
    BY <1>1 DEF TcpipIInv, Handy
  <1> DEFINE pool == a.pool
             e == a.e
             then == a.then
  <1>4. /\ e = tab[pool] /\ e \in OrNull(pool) /\ Empty(t, pool)
        /\ \/ at[t] = "select" /\ pool = "pbuf" /\ then = "input"
           \/ at[t] = "input" /\ pool = "inpkt" /\ then = "post" /\ ~ Empty(t, "pbuf")
    BY <1>2, <1>3 DEF Malloc, TcpipIInv, PathTypes
  <1>5. t = "tapif"
    BY <1>4, PoolElements DEF TcpipIInv, PathTypes, TcpipAt
  <1> HIDE DEF a
  <1>6. /\ hand'[t][pool] = e /\ \A q \in Pools : q # pool => hand'[t][q] = hand[t][q]
        /\ \A u \in NetThreads : u # t => hand'[u] = hand[u]
        /\ hand' \in [NetThreads -> [Pools -> AnyElement]]
        /\ \A u \in NetThreads : \A q \in Pools : hand'[u][q] \in OrNull(q)
    <2>1. e \in AnyElement
      BY <1>4 DEF OrNull, AnyElement, Elements
    <2> QED BY <1>1, <1>2, <1>4, <2>1 DEF TcpipIInv, PathTypes
  <1>7. /\ at'[t] = then /\ access'[t] = NoAccess
        /\ \A u \in NetThreads : u # t => at'[u] = at[u] /\ access'[u] = access[u] /\ access[u] = NoAccess
    BY <1>1, OtherIsIdle DEF TcpipIInv, PathTypes
  <1>8. /\ memp_next' \in [Pbufs \cup Msgs -> AnyElement]
        /\ \A q \in Pools : \A x \in Elements(q) :
              memp_next'[x] = (IF x = e THEN NULL ELSE memp_next[x]) /\ memp_next'[x] \in OrNull(q)
    <2>1. /\ DOMAIN memp_next = Pbufs \cup Msgs /\ \A x \in Pbufs \cup Msgs : memp_next[x] \in AnyElement
          /\ \A q \in Pools : \A x \in Elements(q) : memp_next[x] \in OrNull(q)
      BY DEF TcpipIInv, PathTypes
    <2>2. NULL \in AnyElement /\ \A q \in Pools : NULL \in OrNull(q) /\ Elements(q) \subseteq Pbufs \cup Msgs
      BY DEF AnyElement, OrNull, Elements
    <2>3. \A x \in Pbufs \cup Msgs : memp_next'[x] = IF x = e THEN NULL ELSE memp_next[x]
      BY <1>1, <2>1
    <2>4. DOMAIN memp_next' = Pbufs \cup Msgs /\ memp_next' = [x \in DOMAIN memp_next' |-> memp_next'[x]]
      BY <1>1, <2>1
    <2>5. memp_next' \in [Pbufs \cup Msgs -> AnyElement]
      BY <2>1, <2>2, <2>3, <2>4
    <2> QED BY <2>1, <2>2, <2>3, <2>5
  <1>9. /\ tab' \in [Pools -> AnyElement] /\ \A q \in Pools : tab'[q] \in OrNull(q)
        /\ \A q \in Pools : q # pool => tab'[q] = tab[q]
        /\ e = NULL => tab' = tab
        /\ e # NULL => tab'[pool] = memp_next[e] /\ e \in Elements(pool)
    <2>1. CASE e = NULL
      BY <1>1, <2>1 DEF TcpipIInv, PathTypes
    <2>2. CASE e # NULL
      <3>1. e \in Elements(pool)
        BY <1>4, <2>2 DEF OrNull
      <3>2. memp_next[e] \in OrNull(pool) /\ memp_next[e] \in AnyElement
        <4>1. memp_next[e] \in OrNull(pool)
          BY <1>2, <3>1 DEF TcpipIInv, PathTypes
        <4> QED BY <4>1 DEF OrNull, AnyElement, Elements
      <3>3. tab' = [tab EXCEPT ![pool] = memp_next[e]]
        BY <1>1, <2>2
      <3> QED BY <1>2, <2>2, <3>1, <3>2, <3>3 DEF TcpipIInv, PathTypes
    <2> QED BY <2>1, <2>2
  <1> HIDE DEF pool, e, then
  <1>10. PathTypes'
    <2>1. access' \in [NetThreads -> Accesses]
      BY <1>1 DEF TcpipIInv, PathTypes, Accesses
    <2>2. at' \in [NetThreads -> TapifAt \cup TcpipAt] /\ at'["tapif"] \in TapifAt /\ at'["tcpip"] \in TcpipAt
      <3>1. then \in TapifAt
        BY <1>2 DEF then
      <3>2. at' = [at EXCEPT !["tapif"] = then]
        BY <1>1, <1>5 DEF then
      <3> QED BY <3>1, <3>2, PoolElements DEF TcpipIInv, PathTypes
    <2> QED BY <1>1, <1>6, <1>8, <1>9, <2>1, <2>2 DEF TcpipIInv, PathTypes, OrNull
  <1>11. AccessAlone'
    <2>1. \A u \in NetThreads : access'[u] = NoAccess
      BY <1>7
    <2> QED BY <1>1, <2>1, TcpipAssumption DEF AccessAlone
  <1>12. OnlyPosted'
    BY <1>1 DEF TcpipIInv, OnlyPosted
  <1>13. Handy(t)'
    BY <1>3, <1>4, <1>6, <1>7 DEF Handy, Empty, NoAccess, Pools
  <1>14. \A u \in NetThreads : Handy(u)'
    BY <1>1, <1>6, <1>7, <1>13, OtherStaysHandy
  <1>15. PbufsPlaced' /\ MsgsPlaced'
    <2>1. \A q \in Pools : q # pool => \A x \in Elements(q) : memp_next'[x] = memp_next[x]
      BY <1>4, <1>8, PoolElements DEF OrNull
    <2>2. e = NULL => \A q \in Pools : \A x \in Elements(q) : memp_next'[x] = memp_next[x]
      BY <1>8, PoolElements
    <2>3. \A u \in NetThreads : \A q \in Pools : e = NULL \/ q # pool => hand'[u][q] = hand[u][q]
      BY <1>4, <1>6 DEF Empty
    <2>4. CASE e = NULL
      <3>1. /\ \A u \in NetThreads : hand'[u]["pbuf"] = hand[u]["pbuf"] /\ hand'[u]["inpkt"] = hand[u]["inpkt"]
            /\ \A x \in Pbufs : memp_next'[x] = memp_next[x]
            /\ \A x \in Msgs : memp_next'[x] = memp_next[x]
        BY <2>2, <2>3, <2>4, PoolElements
      <3> QED BY <1>1, <1>9, <2>4, <3>1, PbufsUnmoved, MsgsUnmoved DEF TcpipIInv
    <2>5. CASE e # NULL /\ pool = "pbuf"
      <3>1. /\ \A u \in NetThreads : hand'[u]["inpkt"] = hand[u]["inpkt"]
            /\ \A x \in Msgs : memp_next'[x] = memp_next[x]
            /\ tab'["inpkt"] = tab["inpkt"]
        BY <1>9, <2>1, <2>3, <2>5, PoolElements
      <3>2. MsgsPlaced'
        BY <1>1, <3>1, MsgsUnmoved DEF TcpipIInv
      <3>3. /\ hand[t]["pbuf"] = NULL /\ e = tab["pbuf"] /\ tab'["pbuf"] = memp_next[e] /\ hand'[t]["pbuf"] = e
            /\ \A x \in Pbufs : memp_next'[x] = IF x = e THEN NULL ELSE memp_next[x]
            /\ \A u \in NetThreads : u # t => hand'[u]["pbuf"] = hand[u]["pbuf"]
        BY <1>4, <1>6, <1>8, <1>9, <2>5, PoolElements DEF Empty
      <3>4. PbufsPlaced'
        BY <1>1, <2>5, <3>3, PbufTaken DEF TcpipIInv
      <3> QED BY <3>2, <3>4
    <2>6. CASE e # NULL /\ pool = "inpkt"
      <3>1. /\ \A u \in NetThreads : hand'[u]["pbuf"] = hand[u]["pbuf"]
            /\ \A x \in Pbufs : memp_next'[x] = memp_next[x]
            /\ tab'["pbuf"] = tab["pbuf"]
        BY <1>9, <2>1, <2>3, <2>6, PoolElements
      <3>2. PbufsPlaced'
        BY <1>1, <3>1, PbufsUnmoved DEF TcpipIInv
      <3>3. /\ hand[t]["inpkt"] = NULL /\ e = tab["inpkt"] /\ tab'["inpkt"] = memp_next[e] /\ hand'[t]["inpkt"] = e
            /\ \A x \in Msgs : memp_next'[x] = IF x = e THEN NULL ELSE memp_next[x]
            /\ \A u \in NetThreads : u # t => hand'[u]["inpkt"] = hand[u]["inpkt"]
        BY <1>4, <1>6, <1>8, <1>9, <2>6, PoolElements DEF Empty
      <3>4. MsgsPlaced'
        BY <1>1, <2>6, <3>3, MsgTaken DEF TcpipIInv
      <3> QED BY <3>2, <3>4
    <2> QED BY <1>4, <2>4, <2>5, <2>6
  <1> QED BY <1>10, <1>11, <1>12, <1>14, <1>15 DEF TcpipIInv

LEMMA FreeStoresKeeps ==
    ASSUME TcpipIInv, NEW t \in NetThreads, FreeStores(t)
    PROVE  TcpipIInv'
  <1> DEFINE a == access[t]
  <1>1. /\ Turn(t) /\ a.op = "free" /\ prot' = NULL
        /\ tab' = [tab EXCEPT ![a.pool] = hand[t][a.pool]]
        /\ hand' = [hand EXCEPT ![t][a.pool] = NULL]
        /\ at' = [at EXCEPT ![t] = a.then]
        /\ access' = [access EXCEPT ![t] = NoAccess]
        /\ memp_next' = memp_next
        /\ inp' = inp /\ mbox' = mbox /\ queued' = queued /\ lock_tcpip_core' = lock_tcpip_core
    BY DEF FreeStores
  <1>2. a.pool \in Pools /\ a.then \in TapifAt /\ a # NoAccess
    <2>1. a \in Accesses
      BY DEF TcpipIInv, PathTypes
    <2> HIDE DEF a
    <2> QED BY <1>1, <2>1 DEF Accesses, NoAccess
  <1>3. Handy(t) /\ MempFree(t)
    BY <1>1 DEF TcpipIInv, Handy
  <1> DEFINE pool == a.pool
             then == a.then
             e == hand[t][pool]
  <1>4. /\ e # NULL /\ memp_next[e] = tab[pool] /\ e \in OrNull(pool) /\ e \in Elements(pool) /\ e \in AnyElement
        /\ \/ at[t] = "post" /\ pool = "inpkt" /\ then = "drop"
           \/ at[t] = "drop" /\ pool = "pbuf" /\ then = "select"
           \/ at[t] = "core" /\ then = "core"
    <2>1. e \in OrNull(pool)
      BY <1>2 DEF TcpipIInv, PathTypes
    <2>2. e # NULL /\ memp_next[e] = tab[pool]
      BY <1>3 DEF MempFree, Empty
    <2>3. \/ at[t] = "post" /\ pool = "inpkt" /\ then = "drop"
          \/ at[t] = "drop" /\ pool = "pbuf" /\ then = "select"
          \/ at[t] = "core" /\ then = "core"
      BY <1>3 DEF MempFree
    <2> HIDE DEF e, pool, then
    <2> QED BY <2>1, <2>2, <2>3 DEF OrNull, AnyElement, Elements
  <1> HIDE DEF a
  <1>5. /\ hand'[t][pool] = NULL /\ \A q \in Pools : q # pool => hand'[t][q] = hand[t][q]
        /\ \A u \in NetThreads : u # t => hand'[u] = hand[u]
        /\ hand' \in [NetThreads -> [Pools -> AnyElement]]
        /\ \A u \in NetThreads : \A q \in Pools : hand'[u][q] \in OrNull(q)
    <2>1. NULL \in AnyElement /\ \A q \in Pools : NULL \in OrNull(q)
      BY DEF OrNull, AnyElement
    <2> QED BY <1>1, <1>2, <2>1 DEF TcpipIInv, PathTypes
  <1>6. /\ at'[t] = then /\ access'[t] = NoAccess
        /\ \A u \in NetThreads : u # t => at'[u] = at[u] /\ access'[u] = access[u] /\ access[u] = NoAccess
    BY <1>1, OtherIsIdle DEF TcpipIInv, PathTypes
  <1>7. /\ tab' \in [Pools -> AnyElement] /\ \A q \in Pools : tab'[q] \in OrNull(q)
        /\ \A q \in Pools : q # pool => tab'[q] = tab[q]
        /\ tab'[pool] = e
    <2>1. tab' = [tab EXCEPT ![pool] = e]
      BY <1>1
    <2> HIDE DEF pool, e
    <2> QED BY <1>2, <1>4, <2>1 DEF TcpipIInv, PathTypes, pool
  <1> HIDE DEF pool, e, then
  <1>8. PathTypes'
    <2>1. access' \in [NetThreads -> Accesses]
      BY <1>1 DEF TcpipIInv, PathTypes, Accesses
    <2>2. at' \in [NetThreads -> TapifAt \cup TcpipAt] /\ at'["tapif"] \in TapifAt /\ at'["tcpip"] \in TcpipAt
      <3>1. then \in TapifAt /\ at' = [at EXCEPT ![t] = then]
        BY <1>1, <1>2 DEF then
      <3>2. t = "tcpip" => then \in TcpipAt
        BY <1>4 DEF TcpipIInv, PathTypes, TcpipAt
      <3> QED BY <3>1, <3>2, PoolElements DEF TcpipIInv, PathTypes
    <2> QED BY <1>1, <1>5, <1>7, <2>1, <2>2 DEF TcpipIInv, PathTypes, OrNull
  <1>9. AccessAlone'
    <2>1. \A u \in NetThreads : access'[u] = NoAccess
      BY <1>6
    <2> QED BY <1>1, <2>1, TcpipAssumption DEF AccessAlone
  <1>10. OnlyPosted'
    BY <1>1 DEF TcpipIInv, OnlyPosted
  <1>11. Handy(t)'
    BY <1>3, <1>4, <1>5, <1>6 DEF Handy, Empty, NoAccess, Pools
  <1>12. \A u \in NetThreads : Handy(u)'
    BY <1>1, <1>5, <1>6, <1>11, OtherStaysHandy
  <1>13. PbufsPlaced' /\ MsgsPlaced'
    <2>1. \A u \in NetThreads : \A q \in Pools : q # pool => hand'[u][q] = hand[u][q]
      BY <1>5
    <2>2. CASE pool = "pbuf"
      <3>1. /\ \A u \in NetThreads : hand'[u]["inpkt"] = hand[u]["inpkt"]
            /\ tab'["inpkt"] = tab["inpkt"]
        BY <1>7, <2>1, <2>2, PoolElements
      <3>2. MsgsPlaced'
        BY <1>1, <3>1, MsgsUnmoved DEF TcpipIInv
      <3>3. /\ e = hand[t]["pbuf"] /\ memp_next[e] = tab["pbuf"] /\ tab'["pbuf"] = e /\ hand'[t]["pbuf"] = NULL
            /\ \A u \in NetThreads : u # t => hand'[u]["pbuf"] = hand[u]["pbuf"]
        BY <1>4, <1>5, <1>7, <2>2, PoolElements DEF e
      <3>4. PbufsPlaced'
        BY <1>1, <1>4, <3>3, PbufGiven DEF TcpipIInv
      <3> QED BY <3>2, <3>4
    <2>3. CASE pool = "inpkt"
      <3>1. /\ \A u \in NetThreads : hand'[u]["pbuf"] = hand[u]["pbuf"]
            /\ tab'["pbuf"] = tab["pbuf"]
        BY <1>7, <2>1, <2>3, PoolElements
      <3>2. PbufsPlaced'
        BY <1>1, <3>1, PbufsUnmoved DEF TcpipIInv
      <3>3. /\ e = hand[t]["inpkt"] /\ memp_next[e] = tab["inpkt"] /\ tab'["inpkt"] = e /\ hand'[t]["inpkt"] = NULL
            /\ \A u \in NetThreads : u # t => hand'[u]["inpkt"] = hand[u]["inpkt"]
        BY <1>4, <1>5, <1>7, <2>3, PoolElements DEF e
      <3>4. MsgsPlaced'
        BY <1>1, <1>4, <3>3, MsgGiven DEF TcpipIInv
      <3> QED BY <3>2, <3>4
    <2> QED BY <1>2, <2>2, <2>3, PoolElements DEF pool
  <1> QED BY <1>8, <1>9, <1>10, <1>12, <1>13 DEF TcpipIInv

(* A packet the stack keeps, or takes back. *)
LEMMA QueuedKeeps ==
    ASSUME TcpipIInv, NEW t \in NetThreads, Turn(t), access[t] = NoAccess, at[t] = "core",
           NEW h, h = hand[t]["pbuf"],
           \/ h # NULL /\ queued' = queued \cup {h} /\ hand' = [hand EXCEPT ![t]["pbuf"] = NULL]
           \/ h = NULL /\ \E p \in queued : queued' = queued \ {p} /\ hand' = [hand EXCEPT ![t]["pbuf"] = p],
           UNCHANGED <<inp, mbox, lock_tcpip_core, at, tab, memp_next, prot, access>>
    PROVE  TcpipIInv'
  <1>1. PICK e \in Pbufs, x \in Pbufs \cup {NULL} :
           /\ hand' = [hand EXCEPT ![t]["pbuf"] = x]
           /\ \/ h = e /\ queued' = queued \cup {e} /\ x = NULL
              \/ h = NULL /\ e \in queued /\ queued' = queued \ {e} /\ x = e
    BY PathTypeFacts DEF TcpipIInv, PathTypes
  <1>2. /\ hand'[t]["pbuf"] = x /\ hand'[t]["inpkt"] = hand[t]["inpkt"]
        /\ \A u \in NetThreads : u # t => hand'[u] = hand[u]
        /\ hand' \in [NetThreads -> [Pools -> AnyElement]]
        /\ \A u \in NetThreads : \A q \in Pools : hand'[u][q] \in OrNull(q)
    <2>1. x \in AnyElement /\ x \in OrNull("pbuf") /\ "pbuf" \in Pools /\ "inpkt" \in Pools
      BY PoolElements DEF OrNull, AnyElement
    <2> QED BY <1>1, <2>1 DEF TcpipIInv, PathTypes
  <1>3. PathTypes'
    <2>1. queued' \subseteq Pbufs
      BY <1>1 DEF TcpipIInv, PathTypes
    <2> QED BY <1>2, <2>1 DEF TcpipIInv, PathTypes, OrNull
  <1>4. AccessAlone' /\ OnlyPosted'
    BY DEF TcpipIInv, AccessAlone, OnlyPosted
  <1>5. \A u \in NetThreads : Handy(u)'
    <2>1. Handy(t)'
      BY DEF Handy, NoAccess
    <2> QED BY <1>2, <2>1, OtherStaysHandy
  <1>6. MsgsPlaced'
    BY <1>2, MsgsUnmoved DEF TcpipIInv
  <1>7. PbufsPlaced'
    <2>1. PICK c \in Seq(Pbufs), w \in [Pbufs -> PbufPlaces] : FreeList("pbuf", c) /\ PbufPlace(c, w)
      BY DEF TcpipIInv, PbufsPlaced
    <2>2. FreeList("pbuf", c)'
      BY <2>1 DEF FreeList
    <2>3. /\ \A y \in Pbufs : y # e =>
               /\ \A u \in NetThreads : hand'[u]["pbuf"] = y <=> hand[u]["pbuf"] = y
               /\ \A m \in Msgs : inp'[m] = y <=> inp[m] = y
               /\ y \in queued' <=> y \in queued
      BY <1>1, <1>2, PoolElements
    <2>4. CASE h = e /\ queued' = queued \cup {e} /\ x = NULL
      <3>1. w[e] = IsHeld(t) /\ e \notin Range(c)
        <4>1. hand[t]["pbuf"] = e
          BY <2>4
        <4>2. w[e] = IsHeld(t) /\ (e \in Range(c) <=> w[e] = IsFree)
          BY <2>1, <4>1, Zenon DEF PbufPlace
        <4> QED BY <4>2 DEF IsHeld, IsFree
      <3>2. /\ IsQueued \in PbufPlaces /\ IsQueued # IsFree
            /\ \A u \in NetThreads : IsQueued # IsHeld(u)
            /\ \A m \in Msgs : IsQueued # IsCarried(m)
        BY DEF PbufPlaces, IsFree, IsHeld, IsQueued, IsCarried
      <3>3. /\ \A u \in NetThreads : u # t => hand[u]["pbuf"] # e
            /\ \A m \in Msgs : inp[m] # e
        BY <2>1, <3>1 DEF PbufPlace, IsFree, IsHeld, IsQueued, IsCarried
      <3>4. \A u \in NetThreads : hand'[u]["pbuf"] # e
        BY <1>2, <2>4, <3>3, PoolElements
      <3>5. PbufMove(c, c, e, IsQueued)
        BY <2>3, <2>4, <3>1, <3>2, <3>3, <3>4 DEF PbufMove
      <3> QED BY <2>1, <2>2, <3>2, <3>5, PbufMoves
    <2>5. CASE h = NULL /\ e \in queued /\ queued' = queued \ {e} /\ x = e
      <3>1. w[e] = IsQueued /\ e \notin Range(c)
        BY <2>1, <2>5 DEF PbufPlace, IsQueued, IsFree
      <3>2. /\ IsHeld(t) \in PbufPlaces /\ IsHeld(t) # IsFree /\ IsHeld(t) # IsQueued
            /\ \A u \in NetThreads : IsHeld(t) = IsHeld(u) <=> u = t
            /\ \A m \in Msgs : IsHeld(t) # IsCarried(m)
        BY DEF PbufPlaces, IsFree, IsHeld, IsQueued, IsCarried
      <3>3. /\ \A u \in NetThreads : hand[u]["pbuf"] # e
            /\ \A m \in Msgs : inp[m] # e
        BY <2>1, <3>1 DEF PbufPlace, IsFree, IsHeld, IsQueued, IsCarried
      <3>4. \A u \in NetThreads : hand'[u]["pbuf"] = e <=> u = t
        BY <1>2, <2>5, <3>3
      <3>5. PbufMove(c, c, e, IsHeld(t))
        BY <2>3, <2>5, <3>1, <3>2, <3>3, <3>4 DEF PbufMove
      <3> QED BY <2>1, <2>2, <3>2, <3>5, PbufMoves
    <2> QED BY <1>1, <2>4, <2>5
  <1> QED BY <1>3, <1>4, <1>5, <1>6, <1>7 DEF TcpipIInv

(* A message is posted with its packet, and fetched. *)
LEMMA PostKeeps ==
    ASSUME TcpipIInv, NEW t, t = "tapif", Turn(t), access[t] = NoAccess, at[t] = "post",
           NEW m, m = hand[t]["inpkt"], m # NULL, Len(mbox) # TCPIP_MBOX_SIZE,
           inp' = [inp EXCEPT ![m] = hand[t]["pbuf"]], mbox' = Append(mbox, m),
           hand' = [hand EXCEPT ![t] = [pool \in Pools |-> NULL]], Goes(t, "select"),
           UNCHANGED <<access, tab, memp_next, prot, queued, lock_tcpip_core>>
    PROVE  TcpipIInv'
  <1> DEFINE p == hand[t]["pbuf"]
  <1>1. /\ t \in NetThreads /\ m \in Msgs /\ p \in Pbufs
    <2>1. t \in NetThreads
      BY PoolElements
    <2>2. Handy(t)
      BY <2>1 DEF TcpipIInv
    <2>3. m \in Msgs /\ p # NULL
      BY <2>1, <2>2, PathTypeFacts DEF TcpipIInv, Handy, Empty
    <2> QED BY <2>1, <2>3, PathTypeFacts DEF TcpipIInv
  <1> HIDE DEF p
  <1>2. /\ \A u \in NetThreads : u # t => hand'[u] = hand[u]
        /\ \A q \in Pools : hand'[t][q] = NULL
        /\ hand'[t]["pbuf"] = NULL /\ hand'[t]["inpkt"] = NULL
        /\ hand' \in [NetThreads -> [Pools -> AnyElement]]
        /\ \A u \in NetThreads : \A q \in Pools : hand'[u][q] \in OrNull(q)
    <2>1. /\ NULL \in AnyElement /\ "pbuf" \in Pools /\ "inpkt" \in Pools
          /\ \A q \in Pools : NULL \in OrNull(q)
      BY PoolElements DEF OrNull, AnyElement
    <2> DEFINE r == [pool \in Pools |-> NULL]
    <2>2. r \in [Pools -> AnyElement] /\ \A q \in Pools : r[q] = NULL
      BY <2>1
    <2>3. hand' = [hand EXCEPT ![t] = r]
      OBVIOUS
    <2> HIDE DEF r
    <2>4. /\ hand'[t] = r /\ hand' \in [NetThreads -> [Pools -> AnyElement]]
          /\ \A u \in NetThreads : u # t => hand'[u] = hand[u]
      BY <1>1, <2>2, <2>3 DEF TcpipIInv, PathTypes
    <2>5. ASSUME NEW u \in NetThreads, NEW q \in Pools PROVE hand'[u][q] \in OrNull(q)
      <3>1. CASE u = t
        BY <2>1, <2>2, <2>4, <3>1
      <3>2. CASE u # t
        BY <2>4, <3>2 DEF TcpipIInv, PathTypes
      <3> QED BY <3>1, <3>2
    <2> QED BY <2>1, <2>2, <2>4, <2>5
  <1>3. at' = [at EXCEPT ![t] = "select"] /\ at'[t] = "select" /\ \A u \in NetThreads : u # t => at'[u] = at[u]
    BY <1>1 DEF Goes, TcpipIInv, PathTypes
  <1>4. PICK c \in Seq(Msgs), w \in [Msgs -> MsgPlaces] : FreeList("inpkt", c) /\ MsgPlace(c, w)
    BY DEF TcpipIInv, MsgsPlaced
  <1>5. w[m] = IsHeld(t) /\ m \notin Range(c) /\ m \notin Range(mbox)
    <2>1. hand[t]["inpkt"] = m
      OBVIOUS
    <2>2. w[m] = IsHeld(t) /\ (m \in Range(c) <=> w[m] = IsFree) /\ (m \in Range(mbox) <=> w[m] = IsPosted)
      BY <1>1, <1>4, <2>1, Zenon DEF MsgPlace
    <2> QED BY <2>2 DEF IsHeld, IsFree, IsPosted
  <1>6. /\ mbox' \in Seq(Msgs) /\ Len(mbox') <= TCPIP_MBOX_SIZE
        /\ Range(mbox') = Range(mbox) \cup {m} /\ IsInjective(mbox')
    <2>1. mbox \in Seq(Msgs) /\ IsInjective(mbox) /\ Len(mbox) <= TCPIP_MBOX_SIZE /\ TCPIP_MBOX_SIZE \in Nat
      BY TcpipAssumption DEF TcpipIInv, PathTypes, MsgsPlaced
    <2>2. mbox' \in Seq(Msgs) /\ Len(mbox') = Len(mbox) + 1 /\ Len(mbox) \in Nat
      BY <1>1, <2>1
    <2>3. Range(mbox') = Range(mbox) \cup {m} /\ IsInjective(mbox')
      BY <1>1, <1>5, <2>1, AppendFacts
    <2> QED BY <2>1, <2>2, <2>3
  <1>7. /\ inp' \in [Msgs -> Pbufs \cup {NULL}] /\ inp'[m] = p
        /\ \A k \in Msgs : k # m => inp'[k] = inp[k]
        /\ inp[m] = NULL
    <2>1. inp[m] = NULL
      BY <1>1, <1>5 DEF TcpipIInv, OnlyPosted
    <2>2. inp' = [inp EXCEPT ![m] = p]
      BY DEF p
    <2> QED BY <1>1, <2>1, <2>2 DEF TcpipIInv, PathTypes
  <1>8. PathTypes'
    <2>1. at' \in [NetThreads -> TapifAt \cup TcpipAt] /\ at'["tapif"] \in TapifAt /\ at'["tcpip"] \in TcpipAt
      <3>1. "select" \in TapifAt
        BY DEF TapifAt
      <3> QED BY <1>3, <3>1, PoolElements DEF TcpipIInv, PathTypes
    <2> QED BY <1>2, <1>6, <1>7, <2>1 DEF TcpipIInv, PathTypes, OrNull
  <1>9. AccessAlone'
    BY DEF TcpipIInv, AccessAlone
  <1>10. OnlyPosted'
    <2> SUFFICES ASSUME NEW k \in Msgs, inp'[k] # NULL PROVE k \in Range(mbox')
      BY DEF OnlyPosted
    <2> QED BY <1>6, <1>7 DEF TcpipIInv, OnlyPosted
  <1>11. \A u \in NetThreads : Handy(u)'
    <2>1. Handy(t)'
      BY <1>2, <1>3 DEF Handy, Empty, NoAccess
    <2> QED BY <1>1, <1>2, <1>3, <2>1, OtherStaysHandy
  <1>12. MsgsPlaced'
    <2>1. FreeList("inpkt", c)'
      BY <1>4 DEF FreeList
    <2>2. IsPosted \in MsgPlaces /\ IsPosted # IsFree /\ \A u \in NetThreads : IsPosted # IsHeld(u)
      BY DEF MsgPlaces, IsFree, IsHeld, IsPosted
    <2>3. \A u \in NetThreads : hand'[u]["inpkt"] # m
      <3>1. \A u \in NetThreads : u # t => hand[u]["inpkt"] # m
        BY <1>1, <1>4, <1>5 DEF MsgPlace, IsHeld
      <3> QED BY <1>1, <1>2, <3>1, PoolElements
    <2>4. \A x \in Msgs : x # m =>
               /\ \A u \in NetThreads : hand'[u]["inpkt"] = x <=> hand[u]["inpkt"] = x
               /\ x \in Range(mbox') <=> x \in Range(mbox)
      BY <1>2, <1>6, PoolElements
    <2>5. m \in Range(mbox')
      BY <1>6
    <2>6. MsgMove(c, c, m, IsPosted)
      BY <1>5, <2>2, <2>3, <2>4, <2>5 DEF MsgMove
    <2> QED BY <1>1, <1>4, <1>6, <2>1, <2>2, <2>6, MsgMoves
  <1>13. PbufsPlaced'
    <2>1. PICK d \in Seq(Pbufs), v \in [Pbufs -> PbufPlaces] : FreeList("pbuf", d) /\ PbufPlace(d, v)
      BY DEF TcpipIInv, PbufsPlaced
    <2>2. FreeList("pbuf", d)'
      BY <2>1 DEF FreeList
    <2>3. v[p] = IsHeld(t)
      BY <1>1, <2>1, Zenon DEF PbufPlace, p
    <2>4. p \notin Range(d) /\ p \notin queued
      BY <1>1, <2>1, <2>3 DEF PbufPlace, IsHeld, IsFree, IsQueued
    <2>5. /\ \A u \in NetThreads : u # t => hand[u]["pbuf"] # p
          /\ \A k \in Msgs : inp[k] # p
      BY <1>1, <2>1, <2>3 DEF PbufPlace, IsHeld, IsCarried
    <2>6. /\ IsCarried(m) \in PbufPlaces /\ IsCarried(m) # IsFree /\ IsCarried(m) # IsQueued
          /\ \A u \in NetThreads : IsCarried(m) # IsHeld(u)
          /\ \A k \in Msgs : IsCarried(m) = IsCarried(k) <=> k = m
      BY <1>1 DEF PbufPlaces, IsFree, IsHeld, IsQueued, IsCarried
    <2>7. \A u \in NetThreads : hand'[u]["pbuf"] # p
      BY <1>1, <1>2, <2>5, PoolElements
    <2>8. \A k \in Msgs : inp'[k] = p <=> k = m
      BY <1>1, <1>7, <2>5
    <2>9. \A x \in Pbufs : x # p =>
               /\ \A u \in NetThreads : hand'[u]["pbuf"] = x <=> hand[u]["pbuf"] = x
               /\ \A k \in Msgs : inp'[k] = x <=> inp[k] = x
      <3> SUFFICES ASSUME NEW x \in Pbufs, x # p
                   PROVE  /\ \A u \in NetThreads : hand'[u]["pbuf"] = x <=> hand[u]["pbuf"] = x
                          /\ \A k \in Msgs : inp'[k] = x <=> inp[k] = x
        OBVIOUS
      <3>1. x # NULL /\ hand[t]["pbuf"] # x
        BY PoolElements DEF p
      <3> QED BY <1>1, <1>2, <1>7, <3>1
    <2>10. PbufMove(d, d, p, IsCarried(m))
      BY <2>4, <2>6, <2>7, <2>8, <2>9 DEF PbufMove
    <2> QED BY <1>1, <2>1, <2>2, <2>6, <2>10, PbufMoves
  <1> QED BY <1>8, <1>9, <1>10, <1>11, <1>12, <1>13 DEF TcpipIInv

LEMMA FetchKeeps ==
    ASSUME TcpipIInv, NEW t, t = "tcpip", Turn(t), access[t] = NoAccess, at[t] = "fetch",
           mbox # <<>>, NEW m, m = Head(mbox), mbox' = Tail(mbox),
           hand' = [hand EXCEPT ![t]["inpkt"] = m, ![t]["pbuf"] = inp[m]],
           inp' = [inp EXCEPT ![m] = NULL], Goes(t, "lock"),
           UNCHANGED <<access, tab, memp_next, prot, queued, lock_tcpip_core>>
    PROVE  TcpipIInv'
  <1> DEFINE p == inp[m]
  <1>1. /\ t \in NetThreads /\ mbox \in Seq(Msgs) /\ IsInjective(mbox) /\ Len(mbox) <= TCPIP_MBOX_SIZE
        /\ hand[t]["inpkt"] = NULL /\ hand[t]["pbuf"] = NULL
    <2>1. t \in NetThreads
      BY PoolElements
    <2>2. Handy(t)
      BY <2>1 DEF TcpipIInv
    <2> QED BY <2>1, <2>2 DEF TcpipIInv, PathTypes, MsgsPlaced, Handy, Empty
  <1>2. /\ mbox' \in Seq(Msgs) /\ IsInjective(mbox') /\ m \in Msgs /\ m \in Range(mbox)
        /\ Range(mbox') = Range(mbox) \ {m} /\ Len(mbox') <= TCPIP_MBOX_SIZE
    <2>1. /\ mbox' \in Seq(Msgs) /\ IsInjective(mbox') /\ m \in Msgs /\ m \in Range(mbox)
          /\ Range(mbox') = Range(mbox) \ {m}
      BY <1>1, TailFacts
    <2>2. Len(mbox') = Len(mbox) - 1 /\ Len(mbox) \in Nat
      BY <1>1
    <2> QED BY <1>1, <2>1, <2>2, TcpipAssumption
  <1>3. p \in Pbufs \cup {NULL}
    BY <1>2 DEF TcpipIInv, PathTypes
  <1>4. /\ inp' \in [Msgs -> Pbufs \cup {NULL}] /\ inp'[m] = NULL
        /\ \A k \in Msgs : k # m => inp'[k] = inp[k]
    BY <1>2 DEF TcpipIInv, PathTypes
  <1>5. /\ hand'[t]["pbuf"] = p /\ hand'[t]["inpkt"] = m
        /\ \A u \in NetThreads : u # t => hand'[u] = hand[u]
        /\ hand' \in [NetThreads -> [Pools -> AnyElement]]
        /\ \A u \in NetThreads : \A q \in Pools : hand'[u][q] \in OrNull(q)
    <2> HIDE DEF p
    <2>1. /\ p \in AnyElement /\ p \in OrNull("pbuf") /\ m \in AnyElement /\ m \in OrNull("inpkt")
          /\ "pbuf" \in Pools /\ "inpkt" \in Pools /\ \A q \in Pools : q = "pbuf" \/ q = "inpkt"
      BY <1>2, <1>3, PoolElements DEF OrNull, AnyElement
    <2>2. hand' = [hand EXCEPT ![t] = [hand[t] EXCEPT !["inpkt"] = m, !["pbuf"] = p]]
      BY <1>1 DEF TcpipIInv, PathTypes, p
    <2> DEFINE r == [hand[t] EXCEPT !["inpkt"] = m, !["pbuf"] = p]
    <2>3. r \in [Pools -> AnyElement] /\ r["pbuf"] = p /\ r["inpkt"] = m
      BY <1>1, <2>1 DEF TcpipIInv, PathTypes
    <2> HIDE DEF r
    <2>4. /\ hand' \in [NetThreads -> [Pools -> AnyElement]] /\ hand'[t] = r
          /\ \A u \in NetThreads : u # t => hand'[u] = hand[u]
      BY <1>1, <2>2, <2>3 DEF TcpipIInv, PathTypes, r
    <2>5. \A q \in Pools : r[q] \in OrNull(q)
      BY <2>1, <2>3
    <2> QED BY <2>3, <2>4, <2>5 DEF TcpipIInv, PathTypes
  <1> HIDE DEF p
  <1>6. at' = [at EXCEPT ![t] = "lock"] /\ at'[t] = "lock" /\ \A u \in NetThreads : u # t => at'[u] = at[u]
    BY <1>1 DEF Goes, TcpipIInv, PathTypes
  <1>7. PathTypes'
    <2>1. at' \in [NetThreads -> TapifAt \cup TcpipAt] /\ at'["tapif"] \in TapifAt /\ at'["tcpip"] \in TcpipAt
      <3>1. "lock" \in TcpipAt
        BY DEF TcpipAt
      <3> QED BY <1>6, <3>1, PoolElements DEF TcpipIInv, PathTypes
    <2> QED BY <1>2, <1>4, <1>5, <2>1 DEF TcpipIInv, PathTypes, OrNull
  <1>8. AccessAlone'
    BY DEF TcpipIInv, AccessAlone
  <1>9. OnlyPosted'
    <2> SUFFICES ASSUME NEW k \in Msgs, inp'[k] # NULL PROVE k \in Range(mbox')
      BY DEF OnlyPosted
    <2> QED BY <1>2, <1>4 DEF TcpipIInv, OnlyPosted
  <1>10. \A u \in NetThreads : Handy(u)'
    <2>1. Handy(t)'
      BY <1>6 DEF Handy, NoAccess
    <2> QED BY <1>1, <1>5, <1>6, <2>1, OtherStaysHandy
  <1>11. MsgsPlaced'
    <2>1. PICK c \in Seq(Msgs), w \in [Msgs -> MsgPlaces] : FreeList("inpkt", c) /\ MsgPlace(c, w)
      BY DEF TcpipIInv, MsgsPlaced
    <2>2. FreeList("inpkt", c)'
      BY <2>1 DEF FreeList
    <2>3. w[m] = IsPosted
      BY <1>2, <2>1 DEF MsgPlace
    <2>4. m \notin Range(c) /\ \A u \in NetThreads : hand[u]["inpkt"] # m
      BY <1>2, <2>1, <2>3 DEF MsgPlace, IsHeld, IsFree, IsPosted
    <2>5. /\ IsHeld(t) \in MsgPlaces /\ IsHeld(t) # IsFree /\ IsHeld(t) # IsPosted
          /\ \A u \in NetThreads : IsHeld(t) = IsHeld(u) <=> u = t
      BY <1>1 DEF MsgPlaces, IsFree, IsHeld, IsPosted
    <2>6. \A u \in NetThreads : hand'[u]["inpkt"] = m <=> u = t
      BY <1>5, <2>4
    <2>7. \A x \in Msgs : x # m =>
               /\ \A u \in NetThreads : hand'[u]["inpkt"] = x <=> hand[u]["inpkt"] = x
               /\ x \in Range(mbox') <=> x \in Range(mbox)
      BY <1>1, <1>2, <1>5, PoolElements
    <2>8. MsgMove(c, c, m, IsHeld(t))
      BY <1>2, <2>4, <2>5, <2>6, <2>7 DEF MsgMove
    <2> QED BY <1>2, <2>1, <2>2, <2>5, <2>8, MsgMoves
  <1>12. PbufsPlaced'
    <2>1. PICK d \in Seq(Pbufs), v \in [Pbufs -> PbufPlaces] : FreeList("pbuf", d) /\ PbufPlace(d, v)
      BY DEF TcpipIInv, PbufsPlaced
    <2>2. FreeList("pbuf", d)'
      BY <2>1 DEF FreeList
    <2>3. \A x \in Pbufs : x # p =>
               /\ \A u \in NetThreads : hand'[u]["pbuf"] = x <=> hand[u]["pbuf"] = x
               /\ \A k \in Msgs : inp'[k] = x <=> inp[k] = x
      <3> SUFFICES ASSUME NEW x \in Pbufs, x # p
                   PROVE  /\ \A u \in NetThreads : hand'[u]["pbuf"] = x <=> hand[u]["pbuf"] = x
                          /\ \A k \in Msgs : inp'[k] = x <=> inp[k] = x
        OBVIOUS
      <3>1. x # NULL /\ inp[m] # x
        BY PoolElements DEF p
      <3> QED BY <1>1, <1>4, <1>5, <3>1
    <2>4. CASE p = NULL
      <3>1. PbufPlace(d, v)'
        <4> SUFFICES ASSUME NEW x \in Pbufs
                     PROVE  /\ (x \in Range(d)) <=> (v[x] = IsFree)
                            /\ \A u \in NetThreads : (hand'[u]["pbuf"] = x) <=> (v[x] = IsHeld(u))
                            /\ \A k \in Msgs : (inp'[k] = x) <=> (v[x] = IsCarried(k))
                            /\ (x \in queued') <=> (v[x] = IsQueued)
          BY DEF PbufPlace, IsFree, IsHeld, IsCarried, IsQueued
        <4>1. x # p
          BY <2>4, PoolElements
        <4>2. /\ (x \in Range(d)) <=> (v[x] = IsFree)
              /\ \A u \in NetThreads : (hand[u]["pbuf"] = x) <=> (v[x] = IsHeld(u))
              /\ \A k \in Msgs : (inp[k] = x) <=> (v[x] = IsCarried(k))
              /\ (x \in queued) <=> (v[x] = IsQueued)
          BY <2>1, Zenon DEF PbufPlace
        <4>3. /\ \A u \in NetThreads : hand'[u]["pbuf"] = x <=> hand[u]["pbuf"] = x
              /\ \A k \in Msgs : inp'[k] = x <=> inp[k] = x
          BY <2>3, <4>1, Zenon
        <4>4. queued' = queued
          OBVIOUS
        <4> QED BY <4>2, <4>3, <4>4, Zenon
      <3> QED BY <2>2, <3>1 DEF PbufsPlaced
    <2>5. CASE p \in Pbufs
      <3>1. v[p] = IsCarried(m)
        BY <1>2, <2>1, <2>5, Zenon DEF PbufPlace, p
      <3>2. p \notin Range(d) /\ p \notin queued
        BY <2>1, <2>5, <3>1 DEF PbufPlace, IsCarried, IsFree, IsQueued
      <3>3. /\ \A u \in NetThreads : hand[u]["pbuf"] # p
            /\ \A k \in Msgs : k # m => inp[k] # p
        BY <1>2, <2>1, <2>5, <3>1 DEF PbufPlace, IsHeld, IsCarried
      <3>4. /\ IsHeld(t) \in PbufPlaces /\ IsHeld(t) # IsFree /\ IsHeld(t) # IsQueued
            /\ \A u \in NetThreads : IsHeld(t) = IsHeld(u) <=> u = t
            /\ \A k \in Msgs : IsHeld(t) # IsCarried(k)
        BY <1>1 DEF PbufPlaces, IsFree, IsHeld, IsQueued, IsCarried
      <3>5. \A u \in NetThreads : hand'[u]["pbuf"] = p <=> u = t
        BY <1>5, <3>3
      <3>6. \A k \in Msgs : inp'[k] # p
        BY <1>4, <2>5, <3>3, PoolElements
      <3>7. PbufMove(d, d, p, IsHeld(t))
        BY <2>3, <3>2, <3>4, <3>5, <3>6 DEF PbufMove
      <3> QED BY <2>1, <2>2, <2>5, <3>4, <3>7, PbufMoves
    <2> QED BY <1>3, <2>4, <2>5
  <1> QED BY <1>7, <1>8, <1>9, <1>10, <1>11, <1>12 DEF TcpipIInv

-----------------------------------------------------------------------------
(* The initial state: memp_init has linked all elements of each pool.       *)

LEMMA OrderLists ==
    ASSUME NEW pool \in Pools
    PROVE  /\ Order(pool) \in Seq(Elements(pool)) /\ IsInjective(Order(pool))
           /\ Range(Order(pool)) = Elements(pool) /\ Len(Order(pool)) # 0
  <1> DEFINE S == Elements(pool)
             n == Cardinality(S)
             o == Order(pool)
  <1>1. IsFiniteSet(S) /\ S # {}
    BY TcpipAssumption DEF Elements
  <1>2. n \in Nat /\ n # 0
    BY <1>1, FS_CardinalityType, FS_EmptySet
  <1>3. \E f : f \in Bijection(1..n, S)
    BY <1>1, FS_CardinalityType DEF ExistsBijection
  <1>4. \E f \in [1..n -> S] : \A i, j \in DOMAIN f : f[i] = f[j] => i = j
    <2>1. PICK f : f \in Bijection(1..n, S)
      BY <1>3
    <2> QED BY <2>1 DEF Bijection, Injection, IsInjective, Surjection
  <1>5. o \in [1..n -> S] /\ \A i, j \in DOMAIN o : o[i] = o[j] => i = j
    BY <1>4 DEF Order
  <1> HIDE DEF o, n
  <1>6. o \in Seq(S) /\ Len(o) = n /\ IsInjective(o)
    BY <1>2, <1>5 DEF IsInjective
  <1>7. Range(o) \subseteq S /\ IsFiniteSet(Range(o)) /\ Cardinality(Range(o)) = n
    BY <1>5, <1>6, RangeCount DEF Range
  <1>8. Range(o) = S
    BY <1>1, <1>7, FS_Subset DEF n
  <1> QED BY <1>2, <1>6, <1>8 DEF o

LEMMA LinkedLinks ==
    ASSUME NEW pool \in Pools
    PROVE  /\ Links(Order(pool), Order(pool)[1], Linked(pool))
           /\ Linked(pool) \in [Elements(pool) -> OrNull(pool)]
  <1> DEFINE o == Order(pool)
             place(e) == CHOOSE k \in DOMAIN o : o[k] = e
             l == Linked(pool)
  <1>1. /\ o \in Seq(Elements(pool)) /\ IsInjective(o) /\ Range(o) = Elements(pool) /\ Len(o) # 0
    BY OrderLists
  <1>2. l = [e \in Elements(pool) |-> IF place(e) + 1 \in DOMAIN o THEN o[place(e) + 1] ELSE NULL]
    BY DEF Linked
  <1>3. /\ DOMAIN o = 1..Len(o) /\ Len(o) \in Nat /\ o # <<>>
        /\ \A i \in DOMAIN o : o[i] \in Elements(pool)
    BY <1>1
  <1> HIDE DEF o, l
  <1>4. ASSUME NEW i \in DOMAIN o PROVE l[o[i]] = IF i = Len(o) THEN NULL ELSE o[i + 1]
    <2>1. place(o[i]) = i
      <3>1. place(o[i]) \in DOMAIN o /\ o[place(o[i])] = o[i]
        BY <1>4
      <3> HIDE DEF place
      <3> QED BY <1>1, <3>1 DEF IsInjective
    <2>2. l[o[i]] = IF place(o[i]) + 1 \in DOMAIN o THEN o[place(o[i]) + 1] ELSE NULL
      BY <1>2, <1>3
    <2> HIDE DEF place
    <2>3. l[o[i]] = IF i + 1 \in DOMAIN o THEN o[i + 1] ELSE NULL
      BY <2>1, <2>2
    <2> QED BY <1>3, <2>3
  <1>5. l \in [Elements(pool) -> OrNull(pool)]
    <2>1. ASSUME NEW e \in Elements(pool) PROVE l[e] \in OrNull(pool)
      <3>1. PICK i \in DOMAIN o : e = o[i]
        BY <1>1 DEF Range
      <3> QED BY <1>3, <1>4, <3>1 DEF OrNull
    <2> HIDE DEF place
    <2> QED BY <1>2, <2>1
  <1> QED BY <1>3, <1>4, <1>5 DEF Links, o, l

LEMMA TcpipStarts == TcpipInit => TcpipIInv
  <1> SUFFICES ASSUME TcpipInit PROVE TcpipIInv
    OBVIOUS
  <1> DEFINE op == Order("pbuf")
             om == Order("inpkt")
             lp == Linked("pbuf")
             lm == Linked("inpkt")
  <1>1. /\ op \in Seq(Pbufs) /\ IsInjective(op) /\ Range(op) = Pbufs /\ Links(op, op[1], lp)
        /\ om \in Seq(Msgs) /\ IsInjective(om) /\ Range(om) = Msgs /\ Links(om, om[1], lm)
        /\ Len(op) # 0 /\ Len(om) # 0
        /\ lp \in [Pbufs -> Pbufs \cup {NULL}] /\ lm \in [Msgs -> Msgs \cup {NULL}]
    BY OrderLists, LinkedLinks, PoolElements DEF OrNull
  <1>2. tab = [pool \in Pools |-> Order(pool)[1]] /\ memp_next = [e \in Pbufs \cup Msgs |-> IF e \in Pbufs THEN lp[e] ELSE lm[e]]
    BY DEF TcpipInit
  <1> HIDE DEF lp, lm
  <1>3. /\ DOMAIN memp_next = Pbufs \cup Msgs
        /\ memp_next = [e \in Pbufs \cup Msgs |-> memp_next[e]]
        /\ \A e \in Pbufs : memp_next[e] = lp[e]
        /\ \A e \in Msgs : memp_next[e] = lm[e]
    BY <1>1, <1>2, PoolElements
  <1>4. tab["pbuf"] = op[1] /\ tab["inpkt"] = om[1]
    BY <1>2, PoolElements
  <1> HIDE DEF op, om
  <1>5. /\ op[1] \in Pbufs /\ om[1] \in Msgs
        /\ \A i \in DOMAIN op : op[i] \in Pbufs
        /\ \A i \in DOMAIN om : om[i] \in Msgs
    BY <1>1
  <1>6. /\ inp = [m \in Msgs |-> NULL] /\ mbox = <<>> /\ queued = {}
        /\ lock_tcpip_core = NULL /\ prot = NULL
        /\ at = [t \in NetThreads |-> IF t = "tapif" THEN "select" ELSE "fetch"]
        /\ hand = [t \in NetThreads |-> [pool \in Pools |-> NULL]]
        /\ access = [t \in NetThreads |-> NoAccess]
    BY DEF TcpipInit
  <1>7. PathTypes
    <2>1. tab \in [Pools -> AnyElement] /\ \A pool \in Pools : tab[pool] \in OrNull(pool)
      <3>1. \A pool \in Pools : tab[pool] \in OrNull(pool) /\ OrNull(pool) \subseteq AnyElement
        BY <1>4, <1>5, PoolElements DEF OrNull, AnyElement
      <3>2. DOMAIN tab = Pools /\ tab = [pool \in Pools |-> tab[pool]]
        BY <1>2
      <3> QED BY <3>1, <3>2
    <2>2. memp_next \in [Pbufs \cup Msgs -> AnyElement]
      <3>1. \A e \in Pbufs \cup Msgs : memp_next[e] \in AnyElement
        BY <1>1, <1>3 DEF AnyElement
      <3> QED BY <1>3, <3>1
    <2>3. \A pool \in Pools : \A e \in Elements(pool) : memp_next[e] \in OrNull(pool)
      BY <1>1, <1>3, PoolElements DEF OrNull
    <2>4. /\ hand \in [NetThreads -> [Pools -> AnyElement]]
          /\ \A t \in NetThreads : \A pool \in Pools : hand[t][pool] \in OrNull(pool)
      BY <1>6 DEF AnyElement, OrNull
    <2>5. inp \in [Msgs -> Pbufs \cup {NULL}] /\ queued \subseteq Pbufs
      BY <1>6
    <2>6. mbox \in Seq(Msgs) /\ Len(mbox) <= TCPIP_MBOX_SIZE
      BY <1>6, TcpipAssumption
    <2>7. /\ at \in [NetThreads -> TapifAt \cup TcpipAt] /\ at["tapif"] \in TapifAt /\ at["tcpip"] \in TcpipAt
          /\ access \in [NetThreads -> Accesses]
      BY <1>6, PoolElements DEF TapifAt, TcpipAt, Accesses
    <2> QED BY <1>6, <2>1, <2>2, <2>3, <2>4, <2>5, <2>6, <2>7 DEF PathTypes
  <1>8. AccessAlone
    BY <1>6, TcpipAssumption DEF AccessAlone
  <1>9. OnlyPosted
    BY <1>6 DEF OnlyPosted
  <1>10. \A t \in NetThreads : Handy(t)
    BY <1>6, PoolElements DEF Handy, Empty, NoAccess
  <1>11. PbufsPlaced
    <2> DEFINE w == [e \in Pbufs |-> IsFree]
    <2>1. FreeList("pbuf", op)
      <3>1. Links(op, op[1], memp_next)
        BY <1>1, <1>3, <1>5 DEF Links
      <3> QED BY <1>1, <1>4, <3>1, PoolElements DEF FreeList
    <2>2. w \in [Pbufs -> PbufPlaces] /\ \A e \in Pbufs : w[e] = IsFree
      BY DEF PbufPlaces
    <2> HIDE DEF w
    <2>3. PbufPlace(op, w)
      BY <1>1, <1>6, <2>2, PoolElements DEF PbufPlace, IsFree, IsHeld, IsCarried, IsQueued
    <2> QED BY <1>1, <2>1, <2>2, <2>3 DEF PbufsPlaced
  <1>12. MsgsPlaced
    <2> DEFINE w == [e \in Msgs |-> IsFree]
    <2>1. FreeList("inpkt", om)
      <3>1. Links(om, om[1], memp_next)
        BY <1>1, <1>3, <1>5 DEF Links
      <3> QED BY <1>1, <1>4, <3>1, PoolElements DEF FreeList
    <2>2. w \in [Msgs -> MsgPlaces] /\ \A e \in Msgs : w[e] = IsFree
      BY DEF MsgPlaces
    <2> HIDE DEF w
    <2>3. Range(mbox) = {} /\ IsInjective(mbox)
      BY <1>6 DEF Range, IsInjective
    <2>4. MsgPlace(om, w)
      BY <1>1, <1>6, <2>2, <2>3, PoolElements DEF MsgPlace, IsFree, IsHeld, IsPosted
    <2> QED BY <1>1, <2>1, <2>2, <2>3, <2>4 DEF MsgsPlaced
  <1> QED BY <1>7, <1>8, <1>9, <1>10, <1>11, <1>12 DEF TcpipIInv

LEMMA TcpipKeeps ==
    ASSUME SYS_LIGHTWEIGHT_PROT, TcpipIInv, [TcpipNext]_netVars
    PROVE  TcpipIInv'
  <1> USE PoolElements
  <1>1. CASE UNCHANGED netVars
    <2>1. UNCHANGED <<tab, memp_next, inp, mbox, queued, lock_tcpip_core, prot, at, hand, access>>
      BY <1>1 DEF netVars
    <2>2. PathTypes'
      BY <2>1 DEF TcpipIInv, PathTypes, OrNull
    <2>3. AccessAlone' /\ OnlyPosted'
      BY <2>1 DEF TcpipIInv, AccessAlone, OnlyPosted
    <2>4. \A t \in NetThreads : Handy(t)'
      BY <2>1 DEF TcpipIInv, Handy, Malloc, MempFree, Empty
    <2>5. PbufsPlaced' /\ MsgsPlaced'
      BY <2>1, PbufsUnmoved, MsgsUnmoved DEF TcpipIInv
    <2> QED BY <2>2, <2>3, <2>4, <2>5 DEF TcpipIInv
  <1>2. CASE PacketArrives
    <2>1. Handy("tapif") /\ at["tapif"] = "select"
      BY <1>2 DEF PacketArrives, Runs, TcpipIInv
    <2>2. Empty("tapif", "pbuf") /\ "input" \in TapifAt
      BY <2>1 DEF Handy, TapifAt
    <2> QED BY <1>2, <2>1, <2>2, MallocReadsKeeps DEF PacketArrives, Runs
  <1>3. CASE tcpip_inpkt
    <2>1. Handy("tapif") /\ at["tapif"] = "input" /\ Turn("tapif") /\ access["tapif"] = NoAccess
      BY <1>3 DEF tcpip_inpkt, Runs, TcpipIInv
    <2>2. Empty("tapif", "inpkt")
      BY <2>1 DEF Handy
    <2>3. CASE hand["tapif"]["pbuf"] = NULL
      <3>1. Goes("tapif", "select") /\ NothingMoves
        BY <1>3, <2>3 DEF tcpip_inpkt, NothingMoves, TcpipIInv, PathTypes
      <3>2. MayGo("tapif", "select")
        BY <2>2, <2>3 DEF MayGo, Empty, TapifAt
      <3> QED BY <2>1, <3>1, <3>2, GoesKeeps
    <2>4. CASE hand["tapif"]["pbuf"] # NULL /\ locking_input
      <3>1. Goes("tapif", "lock") /\ NothingMoves
        BY <1>3, <2>4 DEF tcpip_inpkt, NothingMoves, TcpipIInv, PathTypes
      <3>2. MayGo("tapif", "lock")
        BY DEF MayGo, TapifAt
      <3> QED BY <2>1, <3>1, <3>2, GoesKeeps
    <2>5. CASE hand["tapif"]["pbuf"] # NULL /\ ~ locking_input
      <3>1. /\ MallocReads("tapif", "inpkt", "post") /\ UNCHANGED <<inp, mbox, queued, lock_tcpip_core, at>>
            /\ "post" \in TapifAt /\ ~ Empty("tapif", "pbuf")
        BY <1>3, <2>5 DEF tcpip_inpkt, TapifAt, Empty
      <3> QED BY <2>1, <2>2, <3>1, MallocReadsKeeps
    <2> QED BY <2>3, <2>4, <2>5
  <1>4. CASE Post
    <2>1. Handy("tapif") /\ at["tapif"] = "post" /\ Turn("tapif") /\ access["tapif"] = NoAccess
      BY <1>4 DEF Post, Runs, TcpipIInv
    <2> DEFINE m == hand["tapif"]["inpkt"]
    <2>2. CASE m = NULL
      <3>1. Goes("tapif", "drop") /\ NothingMoves
        BY <1>4, <2>2 DEF Post, NothingMoves, TcpipIInv, PathTypes
      <3>2. MayGo("tapif", "drop")
        BY <2>1, <2>2 DEF MayGo, Handy, Empty, TapifAt
      <3> QED BY <2>1, <3>1, <3>2, GoesKeeps
    <2>3. CASE m # NULL /\ Len(mbox) = TCPIP_MBOX_SIZE
      <3>1. /\ FreeLinks("tapif", "inpkt", "drop") /\ "drop" \in TapifAt /\ ~ Empty("tapif", "inpkt")
            /\ UNCHANGED <<inp, mbox, queued, lock_tcpip_core, at>>
        BY <1>4, <2>3 DEF Post, Refused, TapifAt, Empty
      <3> QED BY <2>1, <3>1, FreeLinksKeeps
    <2>4. CASE m # NULL /\ Len(mbox) # TCPIP_MBOX_SIZE
      <3>1. /\ inp' = [inp EXCEPT ![m] = hand["tapif"]["pbuf"]] /\ mbox' = Append(mbox, m)
            /\ hand' = [hand EXCEPT !["tapif"] = [pool \in Pools |-> NULL]] /\ Goes("tapif", "select")
            /\ UNCHANGED <<access, tab, memp_next, prot, queued, lock_tcpip_core>>
        BY <1>4, <2>4 DEF Post
      <3> HIDE DEF m
      <3>2. m = hand["tapif"]["inpkt"] /\ m # NULL /\ Len(mbox) # TCPIP_MBOX_SIZE
        BY <2>4 DEF m
      <3> QED BY <2>1, <3>1, <3>2, PostKeeps
    <2> QED BY <2>2, <2>3, <2>4
  <1>5. CASE Drop
    <2>1. Handy("tapif") /\ at["tapif"] = "drop" /\ Turn("tapif") /\ access["tapif"] = NoAccess
      BY <1>5 DEF Drop, Runs, TcpipIInv
    <2>2. ~ Empty("tapif", "pbuf") /\ "select" \in TapifAt
      BY <2>1 DEF Handy, TapifAt
    <2> QED BY <1>5, <2>1, <2>2, FreeLinksKeeps DEF Drop
  <1>6. CASE FetchMessage
    <2> DEFINE m == Head(mbox)
    <2>1. at["tcpip"] = "fetch" /\ Turn("tcpip") /\ access["tcpip"] = NoAccess /\ mbox # <<>>
      BY <1>6 DEF FetchMessage, Runs
    <2>2. /\ mbox' = Tail(mbox) /\ inp' = [inp EXCEPT ![m] = NULL] /\ Goes("tcpip", "lock")
          /\ hand' = [hand EXCEPT !["tcpip"]["inpkt"] = m, !["tcpip"]["pbuf"] = inp[m]]
          /\ UNCHANGED <<access, tab, memp_next, prot, queued, lock_tcpip_core>>
      BY <1>6 DEF FetchMessage
    <2>3. m = Head(mbox)
      OBVIOUS
    <2> HIDE DEF m
    <2> QED BY <2>1, <2>2, <2>3, FetchKeeps
  <1>7. CASE TimerExpires
    <2>1. /\ at["tcpip"] = "fetch" /\ Turn("tcpip") /\ access["tcpip"] = NoAccess /\ Goes("tcpip", "lock")
          /\ NothingMoves
      BY <1>7 DEF TimerExpires, Runs, NothingMoves, TcpipIInv, PathTypes
    <2>2. MayGo("tcpip", "lock")
      BY DEF MayGo, TcpipAt
    <2> QED BY <2>1, <2>2, GoesKeeps
  <1>8. ASSUME NEW t \in NetThreads, LockCore(t) PROVE TcpipIInv'
    <2>1. Turn(t) /\ access[t] = NoAccess /\ Goes(t, "core") /\ NothingMoves
      BY <1>8 DEF LockCore, Runs, NothingMoves
    <2>2. MayGo(t, "core")
      BY DEF MayGo, TcpipAt, TapifAt
    <2> QED BY <2>1, <2>2, GoesKeeps
  <1>9. ASSUME NEW t \in NetThreads, CoreWorks(t) PROVE TcpipIInv'
    <2>1. at[t] = "core" /\ Turn(t) /\ access[t] = NoAccess
      BY <1>9 DEF CoreWorks, Runs
    <2>2. CASE hand[t]["pbuf"] # NULL /\ FreeLinks(t, "pbuf", "core") /\ UNCHANGED <<at, queued>>
      <3>1. ~ Empty(t, "pbuf") /\ "core" \in TapifAt /\ UNCHANGED <<inp, mbox, queued, lock_tcpip_core, at>>
        BY <1>9, <2>2 DEF CoreWorks, Empty, TapifAt
      <3> QED BY <2>1, <2>2, <3>1, FreeLinksKeeps
    <2>3. CASE ~ (hand[t]["pbuf"] # NULL /\ FreeLinks(t, "pbuf", "core") /\ UNCHANGED <<at, queued>>)
      <3> DEFINE h == hand[t]["pbuf"]
      <3>1. /\ \/ h # NULL /\ queued' = queued \cup {h} /\ hand' = [hand EXCEPT ![t]["pbuf"] = NULL]
               \/ h = NULL /\ \E p \in queued : queued' = queued \ {p} /\ hand' = [hand EXCEPT ![t]["pbuf"] = p]
            /\ UNCHANGED <<inp, mbox, lock_tcpip_core, at, tab, memp_next, prot, access>>
        BY <1>9, <2>3 DEF CoreWorks
      <3>2. h = hand[t]["pbuf"]
        OBVIOUS
      <3> HIDE DEF h
      <3> QED BY <2>1, <3>1, <3>2, QueuedKeeps
    <2> QED BY <2>2, <2>3
  <1>10. ASSUME NEW t \in NetThreads, CoreEnds(t) PROVE TcpipIInv'
    <2>1. at[t] = "core" /\ Turn(t) /\ access[t] = NoAccess /\ Empty(t, "pbuf")
      BY <1>10 DEF CoreEnds, Runs, Empty
    <2>2. CASE hand[t]["inpkt"] # NULL
      <3>1. /\ FreeLinks(t, "inpkt", "core") /\ ~ Empty(t, "inpkt") /\ "core" \in TapifAt
            /\ UNCHANGED <<inp, mbox, queued, lock_tcpip_core, at>>
        BY <1>10, <2>2 DEF CoreEnds, Empty, TapifAt
      <3> QED BY <2>1, <3>1, FreeLinksKeeps
    <2>3. CASE hand[t]["inpkt"] = NULL
      <3> DEFINE where == IF t = "tapif" THEN "select" ELSE "fetch"
      <3>1. Goes(t, where) /\ NothingMoves
        BY <1>10, <2>3 DEF CoreEnds, NothingMoves
      <3>2. MayGo(t, where)
        BY <2>1, <2>3 DEF MayGo, Empty, TapifAt, TcpipAt
      <3> HIDE DEF where
      <3> QED BY <2>1, <3>1, <3>2, GoesKeeps
    <2> QED BY <2>2, <2>3
  <1> QED BY <1>1, <1>2, <1>3, <1>4, <1>5, <1>6, <1>7, <1>8, <1>9, <1>10, MallocTakesKeeps, FreeStoresKeeps
          DEF TcpipNext

LEMMA PbufHasOnePlace ==
    ASSUME PathTypes, PbufsPlaced, NEW e \in Pbufs
    PROVE  Places("pbuf", e) = 1
  <1>1. PICK c \in Seq(Pbufs), w \in [Pbufs -> PbufPlaces] : FreeList("pbuf", c) /\ PbufPlace(c, w)
    BY DEF PbufsPlaced
  <1> DEFINE free == {"free" : x \in Free("pbuf") \cap {e}}
             held == {t \in NetThreads : hand[t]["pbuf"] = e}
             carried == {m \in Msgs : inp[m] = e}
             kept == {"queued" : x \in queued \cap {e}}
             S == free \cup held \cup (carried \cup kept)
  <1>2. Free("pbuf") = Range(c)
    BY <1>1, FreeIsList, PoolElements
  <1>3. /\ (e \in Free("pbuf")) <=> (w[e] = IsFree)
        /\ \A t \in NetThreads : (hand[t]["pbuf"] = e) <=> (w[e] = IsHeld(t))
        /\ \A m \in Msgs : (inp[m] = e) <=> (w[e] = IsCarried(m))
        /\ (e \in queued) <=> (w[e] = IsQueued)
    BY <1>1, <1>2, Zenon DEF PbufPlace
  <1>4. w[e] \in PbufPlaces
    OBVIOUS
  <1>5. \E y : S = {y}
    <2>1. CASE w[e] = IsFree
      <3>1. free = {"free"} /\ held = {} /\ carried = {} /\ kept = {}
        BY <1>3, <2>1 DEF IsFree, IsHeld, IsCarried, IsQueued
      <3> QED BY <3>1
    <2>2. CASE w[e] = IsQueued
      <3>1. free = {} /\ held = {} /\ carried = {} /\ kept = {"queued"}
        BY <1>3, <2>2 DEF IsFree, IsHeld, IsCarried, IsQueued
      <3> QED BY <3>1
    <2>3. ASSUME NEW t \in NetThreads, w[e] = IsHeld(t) PROVE S = {t}
      <3>1. free = {} /\ held = {t} /\ carried = {} /\ kept = {}
        BY <1>3, <2>3 DEF IsFree, IsHeld, IsCarried, IsQueued
      <3> QED BY <3>1
    <2>4. ASSUME NEW m \in Msgs, w[e] = IsCarried(m) PROVE S = {m}
      <3>1. free = {} /\ held = {} /\ carried = {m} /\ kept = {}
        BY <1>3, <2>4 DEF IsFree, IsHeld, IsCarried, IsQueued
      <3> QED BY <3>1
    <2> HIDE DEF S
    <2> QED BY <1>4, <2>1, <2>2, <2>3, <2>4 DEF PbufPlaces
  <1>6. Places("pbuf", e) = Cardinality(S)
    BY DEF Places
  <1> HIDE DEF S
  <1> QED BY <1>5, <1>6, FS_Singleton

LEMMA MsgHasOnePlace ==
    ASSUME PathTypes, MsgsPlaced, NEW e \in Msgs
    PROVE  Places("inpkt", e) = 1
  <1>1. PICK c \in Seq(Msgs), w \in [Msgs -> MsgPlaces] : FreeList("inpkt", c) /\ MsgPlace(c, w)
    BY DEF MsgsPlaced
  <1> DEFINE free == {"free" : x \in Free("inpkt") \cap {e}}
             held == {t \in NetThreads : hand[t]["inpkt"] = e}
             posted == {<<"mbox", i>> : i \in {j \in 1..Len(mbox) : mbox[j] = e}}
             S == free \cup held \cup posted
  <1>2. Free("inpkt") = Range(c)
    BY <1>1, FreeIsList, PoolElements
  <1>3. /\ (e \in Free("inpkt")) <=> (w[e] = IsFree)
        /\ \A t \in NetThreads : (hand[t]["inpkt"] = e) <=> (w[e] = IsHeld(t))
        /\ (e \in Range(mbox)) <=> (w[e] = IsPosted)
    BY <1>1, <1>2, Zenon DEF MsgPlace
  <1>4. w[e] \in MsgPlaces /\ mbox \in Seq(Msgs) /\ IsInjective(mbox) /\ DOMAIN mbox = 1..Len(mbox)
    BY DEF MsgsPlaced, PathTypes
  <1>5. \E y : S = {y}
    <2>1. e \notin Range(mbox) => posted = {}
      BY <1>4 DEF Range
    <2>2. CASE w[e] = IsFree
      <3>1. free = {"free"} /\ held = {} /\ posted = {}
        BY <1>3, <2>1, <2>2 DEF IsFree, IsHeld, IsPosted
      <3> QED BY <3>1
    <2>3. CASE w[e] = IsPosted
      <3>1. free = {} /\ held = {}
        BY <1>3, <2>3 DEF IsFree, IsHeld, IsPosted
      <3>2. PICK i \in DOMAIN mbox : mbox[i] = e
        BY <1>3, <2>3 DEF Range
      <3>3. {j \in 1..Len(mbox) : mbox[j] = e} = {i}
        BY <1>4, <3>2 DEF IsInjective
      <3>4. posted = {<<"mbox", i>>}
        BY <3>3
      <3> QED BY <3>1, <3>4
    <2>4. ASSUME NEW t \in NetThreads, w[e] = IsHeld(t) PROVE S = {t}
      <3>1. free = {} /\ held = {t} /\ posted = {}
        BY <1>3, <2>1, <2>4 DEF IsFree, IsHeld, IsPosted
      <3> QED BY <3>1
    <2> HIDE DEF S
    <2> QED BY <1>4, <2>2, <2>3, <2>4 DEF MsgPlaces
  <1>6. Places("inpkt", e) = Cardinality(S)
    BY PoolElements DEF Places
  <1> HIDE DEF S
  <1> QED BY <1>5, <1>6, FS_Singleton

LEMMA TcpipIInvSuffices == ASSUME TcpipIInv PROVE EveryElementHasOnePlace
  <1>1. TcpipTypeOK
    <2>1. \A pool \in Pools : \A e \in Elements(pool) : memp_next[e] \in Elements(pool) \cup {NULL}
      BY DEF TcpipIInv, PathTypes, OrNull
    <2> QED BY <2>1 DEF TcpipIInv, PathTypes, TcpipTypeOK, OrNull
  <1>2. \A pool \in Pools : \A e \in Elements(pool) : Places(pool, e) = 1
    BY PoolElements, PbufHasOnePlace, MsgHasOnePlace DEF TcpipIInv
  <1> QED BY <1>1, <1>2 DEF EveryElementHasOnePlace

(* No packet and no message of the input path is lost, used twice, or in    *)
(* use and free, whatever the two threads do to the pools at once, for      *)
(* pools and mailboxes of any size, with both ways a packet is handed on:   *)
(* SYS_LIGHTWEIGHT_PROT makes it so (memp.c:297, memp.c:411).               *)
THEOREM ElementsAlwaysPlaced ==
    ASSUME SYS_LIGHTWEIGHT_PROT
    PROVE  TcpipSpec => []EveryElementHasOnePlace
  <1>1. TcpipInit => TcpipIInv
    BY TcpipStarts
  <1>2. TcpipIInv /\ [TcpipNext]_netVars => TcpipIInv'
    BY TcpipKeeps
  <1>3. TcpipIInv => EveryElementHasOnePlace
    BY TcpipIInvSuffices
  <1> QED BY <1>1, <1>2, <1>3, PTL DEF TcpipSpec
=============================================================================
