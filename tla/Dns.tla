-------------------------------- MODULE Dns --------------------------------
(***************************************************************************)
(* The DNS client (lwip/src/core/dns.c): its table of queries and answers, *)
(* the requests of callers that share a query, the source ports, retries   *)
(* and servers.  Everything runs under the core lock, a call is one step.  *)
(*                                                                         *)
(* A caller is a callback with its argument.  Callbacks do not call the    *)
(* client again: it is not written for that, see the README.  Transaction  *)
(* ids are unique, so a response stands for the query it belongs to; a     *)
(* response with another id, name, question or sender changes nothing.     *)
(***************************************************************************)
EXTENDS Integers, SequencesExt

CONSTANTS
    Names, Callers,
    DNS_TABLE_SIZE, DNS_MAX_REQUESTS, DNS_MAX_SOURCE_PORTS,
    DNS_MAX_SERVERS, DNS_MAX_RETRIES,
    Ttls,               \* times to live of answers, in calls of dns_tmr
    SeqModulus          \* 256: dns_seqno is a u8_t

Nothing == "nothing"

\* dns_call_found looks at one entry for each request there may be.
ASSUME DnsAssumption ==
    /\ DNS_TABLE_SIZE \in Nat /\ DNS_MAX_REQUESTS \in 0..DNS_TABLE_SIZE
    /\ DNS_MAX_SOURCE_PORTS \in Nat \ {0} /\ DNS_MAX_SERVERS \in Nat \ {0}
    /\ DNS_MAX_RETRIES \in Nat \ {0} /\ SeqModulus \in Nat \ {0}
    /\ Ttls \subseteq Nat /\ Nothing \notin Names \cup Callers

VARIABLES
    dns_table, dns_requests,
    dns_pcbs,           \* the source ports that are open
    dns_last_pcb_idx,
    dns_servers,        \* by index: whether the server is configured
    dns_seqno,
    waiting             \* by caller: the name it asked for and was not told

dnsVars == <<dns_table, dns_requests, dns_pcbs, dns_last_pcb_idx, dns_servers,
             dns_seqno, waiting>>

Queries == 1..DNS_TABLE_SIZE
Requests == 1..DNS_MAX_REQUESTS

\* As long as nobody defines DNS_MAX_REQUESTS (dns.c:144).
OneRequestEach == DNS_MAX_REQUESTS = DNS_TABLE_SIZE

SourcePorts == 1..DNS_MAX_SOURCE_PORTS

UNUSED == [state |-> "UNUSED"]
NoRequest == [found |-> Nothing]

(* An entry just asked of the first server; age counts the calls of        *)
(* dns_tmr since then.                                                     *)
NewQuery(name, port) ==
    [state |-> "ASKING", name |-> name, seqno |-> dns_seqno, pcb_idx |-> port,
     server_idx |-> 1, tmr |-> 1, retries |-> 0, age |-> 0]

DnsInit ==
    /\ dns_table = [i \in Queries |-> UNUSED]
    /\ dns_requests = [r \in Requests |-> NoRequest]
    /\ dns_pcbs = {} /\ dns_last_pcb_idx = 1
    /\ dns_servers = [n \in 1..DNS_MAX_SERVERS |-> FALSE]
    /\ dns_seqno = 0
    /\ waiting = [c \in Callers |-> Nothing]

-----------------------------------------------------------------------------
(* What a call changes besides the servers and the two counters.           *)
DnsClient == [table |-> dns_table, requests |-> dns_requests, pcbs |-> dns_pcbs,
              waiting |-> waiting]

Becomes(d) ==
    /\ dns_table' = d.table /\ dns_requests' = d.requests
    /\ dns_pcbs' = d.pcbs /\ waiting' = d.waiting

AskingOf(table) == {i \in Queries : table[i].state = "ASKING"}
RequestsOf(d, i) == {r \in Requests : d.requests[r] # NoRequest /\ d.requests[r].idx = i}

(* Every callback of the query is called, and its port is closed unless    *)
(* another query uses it, among the first DNS_MAX_REQUESTS entries; the    *)
(* entry becomes e.                                                        *)
dns_call_found(d, i, e) ==
    LET port == d.table[i].pcb_idx
        told == {d.requests[r].found : r \in RequestsOf(d, i)}
    IN [table |-> [d.table EXCEPT ![i] = e],
        requests |-> [r \in Requests |-> IF r \in RequestsOf(d, i) THEN NoRequest
                                         ELSE d.requests[r]],
        pcbs |-> IF \E j \in (AskingOf(d.table) \cap Requests) \ {i} :
                       d.table[j].pcb_idx = port
                 THEN d.pcbs ELSE d.pcbs \ {port},
        waiting |-> [c \in Callers |-> IF c \in told THEN Nothing ELSE d.waiting[c]]]

(* The query is given up when its server is no longer configured.          *)
dns_send(d, i, e) ==
    IF dns_servers[e.server_idx] THEN [d EXCEPT !.table[i] = e]
    ELSE dns_call_found(d, i, UNUSED)

(* Slip: the next server is asked with the retries of the last one. *)
AnotherServer(e) == [e EXCEPT !.server_idx = @ + 1, !.tmr = 1]

NextServer(e) == [e EXCEPT !.server_idx = @ + 1, !.tmr = 1, !.retries = 0]

(* The time of e is up, once more.                                         *)
dns_retry(d, i, e) ==
    IF e.retries # DNS_MAX_RETRIES
    THEN dns_send(d, i, [e EXCEPT !.tmr = e.retries])
    ELSE IF e.server_idx < DNS_MAX_SERVERS /\ dns_servers[e.server_idx + 1]
    THEN dns_send(d, i, NextServer(e))
    ELSE dns_call_found(d, i, UNUSED)

dns_check_entry(d, i) ==
    LET e == d.table[i]
    IN CASE e.state = "ASKING" /\ e.tmr > 1 ->
                [d EXCEPT !.table[i].tmr = @ - 1, !.table[i].age = @ + 1]
         [] e.state = "ASKING" /\ e.tmr = 1 ->
                dns_retry(d, i, [e EXCEPT !.retries = @ + 1, !.age = @ + 1])
         [] e.state = "DONE" /\ e.ttl > 1 -> [d EXCEPT !.table[i].ttl = @ - 1]
         [] e.state = "DONE" /\ e.ttl = 1 -> [d EXCEPT !.table[i] = UNUSED]
         [] OTHER -> d

dns_check_entries ==
    LET checked[i \in 0..DNS_TABLE_SIZE] ==
            IF i = 0 THEN DnsClient ELSE dns_check_entry(checked[i - 1], i)
    IN checked[DNS_TABLE_SIZE]

dns_tmr ==
    /\ Becomes(dns_check_entries)
    /\ UNCHANGED <<dns_last_pcb_idx, dns_servers, dns_seqno>>

(* An answer is kept for as long as it may live; an error is told and      *)
(* forgotten, as is an answer that may not be kept.                        *)
dns_recv(i, ttl) ==
    LET e == dns_table[i]
    IN /\ e.state = "ASKING" /\ dns_servers[e.server_idx]
       /\ Becomes(dns_call_found(DnsClient, i,
              IF ttl = 0 THEN UNUSED
              ELSE [state |-> "DONE", name |-> e.name, seqno |-> e.seqno, ttl |-> ttl]))
       /\ UNCHANGED <<dns_last_pcb_idx, dns_servers, dns_seqno>>

-----------------------------------------------------------------------------
FreeRequests == {r \in Requests : dns_requests[r] = NoRequest}
AskedFor(name) == {i \in AskingOf(dns_table) : dns_table[i].name = name}

Register(c, name, i) ==
    /\ dns_requests' = [dns_requests EXCEPT ![Min(FreeRequests)] = [found |-> c, idx |-> i]]
    /\ waiting' = [waiting EXCEPT ![c] = name]

JoinQuery(c, name) ==
    /\ Register(c, name, Min(AskedFor(name)))
    /\ UNCHANGED <<dns_table, dns_pcbs, dns_last_pcb_idx, dns_seqno>>

(* The age is a u8_t too: an answer exactly SeqModulus requests old is     *)
(* passed over.                                                            *)
AgeOf(i) == (dns_seqno - dns_table[i].seqno) % SeqModulus
AgedAnswers == {i \in Queries : dns_table[i].state = "DONE" /\ AgeOf(i) > 0}
OldestDone == Min({i \in AgedAnswers : \A j \in AgedAnswers : AgeOf(j) <= AgeOf(i)})
Unused == {i \in Queries : dns_table[i].state = "UNUSED"}
Slot == IF Unused # {} THEN Min(Unused) ELSE OldestDone

(* A port of its own, or, when the UDP control blocks are used up, the     *)
(* next of those that are open.                                            *)
OwnPort(p) ==
    /\ dns_pcbs # SourcePorts
    /\ p = Min(SourcePorts \ dns_pcbs)

SharedPort(p) ==
    /\ p \in dns_pcbs
    /\ \A q \in dns_pcbs :
          (p - dns_last_pcb_idx - 1) % DNS_MAX_SOURCE_PORTS
             <= (q - dns_last_pcb_idx - 1) % DNS_MAX_SOURCE_PORTS

dns_alloc_pcb(p) ==
    /\ OwnPort(p) \/ SharedPort(p)
    /\ dns_pcbs' = dns_pcbs \cup {p}
    /\ dns_last_pcb_idx' = p

StartQuery(c, name) ==
    /\ Register(c, name, Slot)
    /\ \E p \in SourcePorts :
          /\ dns_alloc_pcb(p)
          /\ dns_table' = [dns_table EXCEPT ![Slot] = NewQuery(name, p)]
    /\ dns_seqno' = (dns_seqno + 1) % SeqModulus

(* Without any port the entry is lost, with the answer it held.            *)
NoPort ==
    /\ dns_pcbs = {}
    /\ dns_table' = [dns_table EXCEPT ![Slot] = UNUSED]
    /\ UNCHANGED <<dns_requests, dns_pcbs, dns_last_pcb_idx, dns_seqno, waiting>>

(* dns_enqueue: ERR_MEM without a free request or entry.                   *)
dns_enqueue(c, name) ==
    /\ FreeRequests # {}
    /\ IF AskedFor(name) # {} THEN JoinQuery(c, name)
       ELSE /\ Unused \cup AgedAnswers # {}
            /\ StartQuery(c, name) \/ NoPort

(* A name in the cache, or no server, is answered at once.                 *)
dns_gethostbyname(c, name) ==
    /\ waiting[c] = Nothing
    /\ \A i \in Queries : dns_table[i].state = "DONE" => dns_table[i].name # name
    /\ dns_servers[1]
    /\ dns_enqueue(c, name)
    /\ UNCHANGED dns_servers

dns_setserver(n, set) ==
    /\ dns_servers[n] # set
    /\ dns_servers' = [dns_servers EXCEPT ![n] = set]
    /\ UNCHANGED <<dns_table, dns_requests, dns_pcbs, dns_last_pcb_idx, dns_seqno, waiting>>

DnsNext ==
    \/ dns_tmr
    \/ \E i \in Queries, ttl \in Ttls \cup {0} : dns_recv(i, ttl)
    \/ \E c \in Callers, name \in Names : dns_gethostbyname(c, name)
    \/ \E n \in 1..DNS_MAX_SERVERS, set \in BOOLEAN : dns_setserver(n, set)

DnsSpec == DnsInit /\ [][DnsNext]_dnsVars

-----------------------------------------------------------------------------
(* The calls of dns_tmr within which one server answers or is given up.    *)
Patience == 1 + (DNS_MAX_RETRIES * (DNS_MAX_RETRIES - 1)) \div 2

DnsTypeOK ==
    /\ \A i \in Queries : dns_table[i].state \in {"UNUSED", "ASKING", "DONE"}
    /\ \A r \in Requests : dns_requests[r].found \in Callers \cup {Nothing}
    /\ dns_pcbs \subseteq SourcePorts /\ dns_last_pcb_idx \in SourcePorts
    /\ dns_servers \in [1..DNS_MAX_SERVERS -> BOOLEAN]
    /\ dns_seqno \in 0 .. SeqModulus - 1
    /\ waiting \in [Callers -> Names \cup {Nothing}]

(* Whoever asks is told once, of the name asked for, and in bounded time,  *)
(* however queries are shared, retried, moved to other servers or given    *)
(* up: a caller that waits has one request, of a query for its name that   *)
(* runs on an open port, and no port stays open without a query            *)
(* (dns.c:903, dns.c:1028, dns.c:1313).                                    *)
EveryRequestIsAnswered ==
    LET asking == AskingOf(dns_table)
        pending == Requests \ FreeRequests
    IN /\ DnsTypeOK
       /\ \A c \in Callers : waiting[c] # Nothing =>
             \E r \in pending : dns_requests[r].found = c
       /\ \A r \in pending :
             /\ dns_requests[r].idx \in asking
             /\ waiting[dns_requests[r].found] = dns_table[dns_requests[r].idx].name
             /\ \A s \in pending \ {r} : dns_requests[s].found # dns_requests[r].found
       /\ \A i \in asking : /\ RequestsOf(DnsClient, i) # {}
                            /\ dns_table[i].age < DNS_MAX_SERVERS * Patience
       /\ dns_pcbs = {dns_table[i].pcb_idx : i \in asking}
=============================================================================
