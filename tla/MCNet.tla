-------------------------------- MODULE MCNet --------------------------------
(* Model checking of parts of the network stack that share no state here:  *)
(* its time-outs, the input path, the ARP cache, reassembly and the DNS    *)
(* client.  In a behaviour one of them moves, chosen at the start, the     *)
(* others rest in an initial state.                                        *)
EXTENDS MCTimeouts, Tcpip, Etharp, IpReassembly, Dns

Lengths == [d \in Datagrams |-> 4]

VARIABLE which

partVars == <<timeoutVars, netVars, arpVars, reassVars, dnsVars, which>>

Parts == {"time-outs", "packets", "ARP", "fragments", "DNS"}

NetInit ==
    /\ which \in Parts
    /\ TimeoutsInit /\ TcpipInit /\ ArpInit /\ ReassInit /\ DnsInit
    /\ which # "packets" => locking_input
    /\ which # "time-outs" =>
          next_timeout[1].h = CHOOSE h \in cyclic_timers :
                                  \A g \in cyclic_timers : Interval[h] <= Interval[g]

NetNext ==
    /\ UNCHANGED which
    /\ \/ which = "time-outs" /\ TimeoutsNext
          /\ UNCHANGED <<netVars, arpVars, reassVars, dnsVars>>
       \/ which = "packets" /\ TcpipNext
          /\ UNCHANGED <<timeoutVars, arpVars, reassVars, dnsVars>>
       \/ which = "ARP" /\ ArpNext
          /\ UNCHANGED <<timeoutVars, netVars, reassVars, dnsVars>>
       \/ which = "fragments" /\ ReassNext
          /\ UNCHANGED <<timeoutVars, netVars, arpVars, dnsVars>>
       \/ which = "DNS" /\ DnsNext
          /\ UNCHANGED <<timeoutVars, netVars, arpVars, reassVars>>

NetSpec == NetInit /\ [][NetNext]_partVars

Symmetry == Permutations(Hosts) \cup Permutations(Macs) \cup Permutations(Datagrams)
=============================================================================
