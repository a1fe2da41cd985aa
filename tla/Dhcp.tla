-------------------------------- MODULE Dhcp --------------------------------
(***************************************************************************)
(* The DHCP client of the interface (lwip/src/core/ipv4/dhcp.c).  Every    *)
(* function runs under the core lock: a reply, an ARP reply, a timer or a  *)
(* change of the link is one step.                                         *)
(*                                                                         *)
(* Messages to servers may be lost, and a reply that does not match the    *)
(* transaction changes nothing: a reply is an input that may come whenever *)
(* the client listens.  Offers carry the id of their server, as they must. *)
(* How long a request waits is abstract, only that it waits is kept: the   *)
(* time-out comes at some call of dhcp_fine_tmr.  Leases are counted in    *)
(* calls of dhcp_coarse_tmr, one a minute, as dhcp_bind rounds them; they  *)
(* end, or none of their timers is set.  The quirks of a lease of infinite *)
(* time whose t1 and t2 are computed are in the README.                    *)
(***************************************************************************)
EXTENDS Integers

CONSTANTS
    Leases,                      \* the triples of t0, t1, t2 servers give
    LWIP_DHCP_AUTOIP_COOP_TRIES, REBOOT_TRIES,
    MAX_TRIES,                   \* 255: tries is a u8_t that stops there
    TimeModulus                  \* 65536: the lease counters are u16_t

ASSUME DhcpAssumption ==
    /\ Leases \subseteq [t0 : 0..TimeModulus - 1, t1 : 0..TimeModulus - 1,
                         t2 : 0..TimeModulus - 1]
    /\ MAX_TRIES \in Nat /\ TimeModulus \in Nat \ {0}

VARIABLES
    dhcp,         \* struct dhcp, with the address of the interface
    lease_left,   \* coarse ticks that the lease of the address has left
    silent        \* the network has fallen silent for good

dhcpVars == <<dhcp, lease_left, silent>>

Unlimited == 0                 \* in a lease: 0xffffffff, no timer is set
NoLease == [t0 |-> Unlimited, t1 |-> Unlimited, t2 |-> Unlimited]
LeaseOver == -1
Supplied == {"BOUND", "RENEWING", "REBINDING"}

-----------------------------------------------------------------------------
(* What the functions make of a client d.                                  *)
dhcp_set_state(d, new_state) ==
    IF d.state = new_state THEN d
    ELSE [d EXCEPT !.state = new_state, !.tries = 0, !.request_timeout = FALSE]

(* Every request counts as a try and starts the time-out.                  *)
Request(d, new_state) ==
    [dhcp_set_state(d, new_state) EXCEPT
        !.tries = IF @ < MAX_TRIES THEN @ + 1 ELSE @, !.request_timeout = TRUE]

dhcp_select(d) == Request(d, "REQUESTING")
dhcp_check(d) == Request(d, "CHECKING")
dhcp_decline(d) == Request(d, "BACKING_OFF")
dhcp_renew(d) == Request(d, "RENEWING")
dhcp_rebind(d) == Request(d, "REBINDING")
dhcp_reboot(d) == Request(d, "REBOOTING")

dhcp_stop(d) == [dhcp_set_state(d, "OFF") EXCEPT !.pcb_allocated = FALSE]

(* Slip: the client stops and leaves the interface as it is. *)
DiscoverStops(d) ==
    LET tried == Request(d, "SELECTING")
    IN IF tried.tries < LWIP_DHCP_AUTOIP_COOP_TRIES THEN tried
       ELSE [dhcp_stop(tried) EXCEPT !.request_timeout = TRUE]

(* After some tries this repository stops the client and configures the    *)
(* static address; the time-out then started finds the state OFF.          *)
dhcp_discover(d) ==
    LET tried == Request(d, "SELECTING")
    IN IF tried.tries < LWIP_DHCP_AUTOIP_COOP_TRIES THEN tried
       ELSE [dhcp_stop(tried) EXCEPT !.request_timeout = TRUE, !.address = "static"]

dhcp_release(d) ==
    [dhcp_set_state(d, "OFF") EXCEPT
        !.t0_timeout = 0, !.t1_renew_time = 0, !.t2_rebind_time = 0, !.lease_used = 0,
        !.offered = NoLease,
        !.address = IF d.state \in Supplied THEN "none" ELSE @]

Kept(new, old) == IF new = Unlimited THEN old ELSE new

(* Slip: the time used of the last lease counts for the new one. *)
BindKeepsUsed(d) ==
    [dhcp_set_state(d, "BOUND") EXCEPT
        !.t0_timeout = Kept(d.offered.t0, @),
        !.t1_renew_time = Kept(d.offered.t1, @),
        !.t2_timeout = Kept(d.offered.t2, @),
        !.t2_rebind_time = Kept(d.offered.t2, @),
        !.address = "leased"]

(* A lease without end leaves the timers of the lease before it running.   *)
dhcp_bind(d) ==
    [dhcp_set_state(d, "BOUND") EXCEPT
        !.lease_used = 0,
        !.t0_timeout = Kept(d.offered.t0, @),
        !.t1_renew_time = Kept(d.offered.t1, @),
        !.t2_timeout = Kept(d.offered.t2, @),
        !.t2_rebind_time = Kept(d.offered.t2, @),
        !.address = "leased"]

dhcp_handle_nak(d) ==
    dhcp_discover([dhcp_set_state(d, "BACKING_OFF") EXCEPT !.address = "none"])

dhcp_t1_timeout(d) ==
    IF d.state \notin {"REQUESTING", "BOUND", "RENEWING"} THEN d
    ELSE LET next == (d.t2_timeout - d.lease_used) \div 2
         IN [dhcp_renew(d) EXCEPT !.t1_renew_time = IF next >= 1 THEN next ELSE @]

dhcp_t2_timeout(d) ==
    IF d.state \notin {"REQUESTING"} \cup Supplied THEN d
    ELSE LET next == (d.t0_timeout - d.lease_used) \div 2
         IN [dhcp_rebind(d) EXCEPT !.t2_rebind_time = IF next >= 1 THEN next ELSE @]

dhcp_timeout(d) ==
    CASE d.state \in {"BACKING_OFF", "SELECTING"} -> dhcp_discover(d)
      [] d.state = "REQUESTING" ->
            IF d.tries <= 5 THEN dhcp_select(d) ELSE dhcp_discover(dhcp_release(d))
      [] d.state = "CHECKING" -> IF d.tries <= 1 THEN dhcp_check(d) ELSE dhcp_bind(d)
      [] d.state = "REBOOTING" ->
            IF d.tries < REBOOT_TRIES THEN dhcp_reboot(d) ELSE dhcp_discover(d)
      [] OTHER -> d

-----------------------------------------------------------------------------
(* A lease that is bound begins.                                           *)
ClientBecomes(d) ==
    /\ dhcp' = d
    /\ lease_left' = IF d.address # "leased" THEN Unlimited
               ELSE IF d.state = "BOUND" /\ dhcp.state # "BOUND" THEN d.offered.t0
               ELSE lease_left

NoClient == [state |-> "OFF", tries |-> 0, request_timeout |-> FALSE,
         pcb_allocated |-> FALSE, t0_timeout |-> 0, t1_renew_time |-> 0,
         t2_timeout |-> 0, t2_rebind_time |-> 0, lease_used |-> 0,
         offered |-> NoLease, address |-> "none"]

(* dhcp_start: nothing is configured and discovery begins.                 *)
DhcpInit ==
    /\ dhcp = dhcp_discover([NoClient EXCEPT !.pcb_allocated = TRUE])
    /\ lease_left = Unlimited
    /\ silent = FALSE

dhcp_fine_tmr ==
    /\ dhcp.request_timeout
    /\ ClientBecomes(dhcp_timeout([dhcp EXCEPT !.request_timeout = FALSE]))
    /\ UNCHANGED silent

(* One timer at a call: the end of the lease, else t2, else t1.            *)
OneMinute(d) ==
    LET used == IF d.t0_timeout = 0 THEN d
                ELSE [d EXCEPT !.lease_used = (@ + 1) % TimeModulus]
        t2 == [used EXCEPT !.t2_rebind_time = @ - 1]
        t1(c) == [c EXCEPT !.t1_renew_time = @ - 1]
        rest == IF d.t2_rebind_time = 0 THEN used ELSE t2
    IN IF d.t0_timeout # 0 /\ used.lease_used = d.t0_timeout
       THEN dhcp_discover(dhcp_release(used))
       ELSE IF d.t2_rebind_time = 1 THEN dhcp_t2_timeout(t2)
       ELSE IF d.t1_renew_time = 0 THEN rest
       ELSE IF d.t1_renew_time = 1 THEN dhcp_t1_timeout(t1(rest))
       ELSE t1(rest)

dhcp_coarse_tmr ==
    /\ dhcp' = IF dhcp.state = "OFF" THEN dhcp ELSE OneMinute(dhcp)
    /\ lease_left' = IF dhcp'.address # "leased" THEN Unlimited
               ELSE IF lease_left > 1 THEN lease_left - 1
               ELSE IF lease_left = 1 THEN LeaseOver ELSE lease_left
    /\ UNCHANGED silent

(* dhcp_recv, by the type of the reply.                                    *)
Listens == ~ silent /\ dhcp.pcb_allocated

RecvOffer ==
    /\ Listens /\ dhcp.state = "SELECTING"
    /\ ClientBecomes(dhcp_select(dhcp))
    /\ UNCHANGED silent

(* A new lease is checked for an address in use, a renewed one is bound.   *)
RecvAck ==
    /\ Listens
    /\ \E lease \in Leases :
          LET d == [dhcp EXCEPT !.offered = lease]
          IN \/ dhcp.state = "REQUESTING" /\ ClientBecomes(dhcp_check(d))
             \/ /\ dhcp.state \in {"REBOOTING", "REBINDING", "RENEWING"}
                /\ ClientBecomes(dhcp_bind(d))
    /\ UNCHANGED silent

RecvNak ==
    /\ Listens /\ dhcp.state \in {"REBOOTING", "REQUESTING", "REBINDING", "RENEWING"}
    /\ ClientBecomes(dhcp_handle_nak(dhcp))
    /\ UNCHANGED silent

dhcp_arp_reply ==
    /\ ~ silent /\ dhcp.state = "CHECKING"
    /\ ClientBecomes(dhcp_decline(dhcp))
    /\ UNCHANGED silent

(* The driver finds the link again.                                        *)
dhcp_network_changed ==
    /\ ~ silent /\ dhcp.state # "OFF"
    /\ LET again == [dhcp EXCEPT !.tries = 0]
       IN ClientBecomes(IF dhcp.state \in {"REBOOTING"} \cup Supplied THEN dhcp_reboot(again)
                  ELSE dhcp_discover(again))
    /\ UNCHANGED silent

(* From here on no server answers and nothing changes on the network.      *)
FallSilent == ~ silent /\ silent' = TRUE /\ UNCHANGED <<dhcp, lease_left>>

DhcpNext ==
    \/ dhcp_fine_tmr \/ dhcp_coarse_tmr
    \/ RecvOffer \/ RecvAck \/ RecvNak \/ dhcp_arp_reply \/ dhcp_network_changed
    \/ FallSilent

(* Both timers are cyclic time-outs, which go on as long as the program.   *)
DhcpFairness == WF_dhcpVars(dhcp_fine_tmr) /\ WF_dhcpVars(dhcp_coarse_tmr)

DhcpSpec == DhcpInit /\ [][DhcpNext]_dhcpVars /\ DhcpFairness

-----------------------------------------------------------------------------
Ticks == 0..TimeModulus - 1

Client ==
    [state : {"OFF", "SELECTING", "REQUESTING", "CHECKING", "BACKING_OFF", "REBOOTING"}
                \cup Supplied,
     tries : 0..MAX_TRIES, request_timeout : BOOLEAN, pcb_allocated : BOOLEAN,
     t0_timeout : Ticks, t1_renew_time : Ticks, t2_timeout : Ticks,
     t2_rebind_time : Ticks, lease_used : Ticks,
     offered : [t0 : Ticks, t1 : Ticks, t2 : Ticks],
     address : {"none", "leased", "static"}]

DhcpTypeOK ==
    /\ dhcp \in Client
    /\ lease_left \in Ticks \cup {LeaseOver}
    /\ silent \in BOOLEAN

(* While the client says the address is supplied by DHCP, its lease is not *)
(* over, whatever leases followed each other, and whichever timers of an   *)
(* earlier one still run (dhcp.c:421).                                     *)
LeaseLasts ==
    /\ DhcpTypeOK
    /\ dhcp.state \in Supplied /\ dhcp.address = "leased" => lease_left # LeaseOver

(* When the servers fall silent, in the middle of any exchange, the        *)
(* interface ends with an address all the same: a leased one for as long   *)
(* as its lease lasts, then the static one (dhcp.c:1021).                  *)
AddressInTheEnd == silent ~> [](dhcp.address # "none" /\ lease_left # LeaseOver)
=============================================================================
