--------------------------------- MODULE Tcp ---------------------------------
(***************************************************************************)
(* A TCP connection between two ends that both run lwIP                    *)
(* (lwip/src/core/tcp.c, tcp_in.c, tcp_out.c): a client connects to a      *)
(* server that listens, both write, read and close; the network loses,     *)
(* repeats and reorders segments.                                          *)
(*                                                                         *)
(* A call, a segment that arrives and a tick of a timer are one step: all  *)
(* of them run under the core lock.  Sequence numbers do not wrap here.  A *)
(* unit is half an MSS, which has the proportions of the configuration     *)
(* (TCP_WND = TCP_SND_BUF = 2 * TCP_MSS).  Left out: options, urgent data, *)
(* keep-alives, data the application refuses, and lack of memory.  A timer *)
(* that runs may expire at any slow tick.  What an application does in a   *)
(* callback is a step of its own behind it.                                *)
(***************************************************************************)
EXTENDS Integers, Sequences, SequencesExt, FiniteSets, FiniteSetsExt

CONSTANTS
    Connections,            \* units each end writes, and whether it may close before;
                            \* bounds: segments under way, how many are lost or
                            \* repeated, connections the listener opens
    TCP_MSS, TCP_WND, TCP_SND_BUF, TCP_MAXRTX, TCP_SYNMAXRTX

VARIABLES
    pcb,                    \* by end; in state CLOSED there is none
    net,                    \* segments under way
    app,                    \* by end: what the application wrote, read and was told
    opens,                  \* connections opened by each end
    connection, faults         \* one of Connections, and segments lost or repeated so far

tcpVars == <<pcb, net, app, opens, connection, faults>>

Ends == {"client", "server"}
Peer(e) == IF e = "client" THEN "server" ELSE "client"

-----------------------------------------------------------------------------
(* A protocol control block.  rtime and persist_backoff say only whether   *)
(* the timer runs; ack holds those of TF_ACK_DELAY and TF_ACK_NOW that are *)
(* set; cwnd is one MSS after a time-out, and else no less than TCP_WND.   *)
Pcb(state, iss, irs) ==
    [state |-> state, snd_nxt |-> iss, lastack |-> iss, snd_lbb |-> iss,
     snd_wnd |-> TCP_WND, cwnd |-> TCP_WND, snd_wl1 |-> irs - 1, snd_wl2 |-> iss,
     unsent |-> <<>>, unacked |-> <<>>, rtime |-> FALSE, nrtx |-> 0,
     persist_backoff |-> FALSE, dupacks |-> 0, TF_INFR |-> FALSE,
     rcv_nxt |-> irs + 1, rcv_wnd |-> TCP_WND, rcv_ann_wnd |-> TCP_WND,
     rcv_ann_right_edge |-> irs + 1, ack |-> {}, TF_RXCLOSED |-> FALSE, TF_FIN |-> FALSE]

NoPcb == Pcb("CLOSED", 0, 0)

(* Segments on the queues of a pcb; header and data are made when sent.    *)
Segment(seqno, data, SYN, FIN) == [seqno |-> seqno, data |-> data, SYN |-> SYN, FIN |-> FIN]
TCP_TCPLEN(s) == Len(s.data) + (IF s.SYN \/ s.FIN THEN 1 ELSE 0)
EndOf(s) == s.seqno + TCP_TCPLEN(s)

UnackedBytes(p) == FoldSeq(LAMBDA s, n : Len(s.data) + n, 0, p.unacked \o p.unsent)
snd_buf(p) == TCP_SND_BUF - UnackedBytes(p)

(* The purged pcb: nothing is sent again, no timer runs.                   *)
tcp_pcb_purge(p) ==
    [p EXCEPT !.unsent = <<>>, !.unacked = <<>>, !.rtime = FALSE]

-----------------------------------------------------------------------------
(* What a step has done so far at an end: the pcb, the segments it put on  *)
(* the wire, and what tcp_input will tell the application.                 *)
Work(p) == [p |-> p, out |-> {}, recv_data |-> <<>>, recv_acked |-> 0, recv_flags |-> {}]

Wire(e, p, s, ACK) ==
    [to |-> Peer(e), seqno |-> s.seqno, data |-> s.data, SYN |-> s.SYN, FIN |-> s.FIN,
     RST |-> FALSE, ACK |-> ACK, ackno |-> IF ACK THEN p.rcv_nxt ELSE 0, wnd |-> p.rcv_ann_wnd]

tcp_rst(e, seqno, ackno) ==
    [to |-> Peer(e), seqno |-> seqno, data |-> <<>>, SYN |-> FALSE, FIN |-> FALSE,
     RST |-> TRUE, ACK |-> TRUE, ackno |-> ackno, wnd |-> TCP_WND]

Announced(p) == [p EXCEPT !.rcv_ann_right_edge = p.rcv_nxt + p.rcv_ann_wnd]

tcp_send_empty_ack(e, w) ==
    [w EXCEPT !.p = [Announced(w.p) EXCEPT !.ack = {}],
              !.out = @ \cup {Wire(e, w.p, Segment(w.p.snd_nxt, <<>>, FALSE, FALSE), TRUE)}]

InsertSorted(q, s) ==
    SelectSeq(q, LAMBDA t : t.seqno < s.seqno) \o <<s>>
        \o SelectSeq(q, LAMBDA t : t.seqno >= s.seqno)

Fits(p, s) == s.seqno - p.lastack + Len(s.data) \in 0..Min({p.snd_wnd, p.cwnd})

(* tcp_do_output_nagle, for segment i of unsent when those before are sent *)
Nagle(p, i) ==
    \/ p.TF_FIN \/ p.TF_INFR
    \/ i = 1 /\ p.unacked = <<>>
    \/ i < Len(p.unsent)
    \/ Len(p.unsent[i].data) >= TCP_MSS
    \/ snd_buf(p) = 0

SegmentsOut(p) ==
    Max({n \in 0..Len(p.unsent) : \A i \in 1..n : Fits(p, p.unsent[i]) /\ Nagle(p, i)})

(* Slip: a segment that does not fit waits for the window to open. *)
ProbesNever(p) == FALSE

(* The next segment does not fit into a window that is open, and nothing   *)
(* is under way whose acknowledgement would tell of a larger one.          *)
Probes(p) ==
    /\ p.unsent # <<>> /\ ~Fits(p, p.unsent[1])
    /\ p.snd_wnd \in 1..p.cwnd /\ p.unacked = <<>>

(* The first n unsent segments go out.                                     *)
SendSegments(e, w, p, n) ==
    LET sent == SubSeq(p.unsent, 1, n)
    IN  IF n = 0 THEN w
        ELSE [w EXCEPT
               !.out = @ \cup {Wire(e, p, sent[i], p.state # "SYN_SENT") : i \in 1..n},
               !.p = [Announced(p) EXCEPT
                        !.unsent = SubSeq(@, n + 1, Len(@)),
                        !.unacked = FoldLeft(InsertSorted, @, sent),
                        !.snd_nxt = Max({@} \cup {EndOf(sent[i]) : i \in 1..n}),
                        !.rtime = TRUE,
                        !.ack = IF p.state # "SYN_SENT" THEN {} ELSE @]]

(* Whatever the window allows is sent, or the persist timer is started.    *)
tcp_output(e, w) ==
    LET p == w.p
    IN  IF "TF_ACK_NOW" \in p.ack /\ (p.unsent = <<>> \/ ~Fits(p, p.unsent[1]))
        THEN tcp_send_empty_ack(e, w)
        ELSE IF Probes(p) THEN [w EXCEPT !.p.persist_backoff = TRUE]
        ELSE SendSegments(e, w, p, SegmentsOut(p))

(* What nrtx counts beyond the larger limit makes no difference.           *)
OneMore(nrtx) == Min({nrtx + 1, Max({TCP_MAXRTX, TCP_SYNMAXRTX})})

tcp_rexmit(p) ==
    IF p.unacked = <<>> THEN p
    ELSE [p EXCEPT !.unsent = InsertSorted(@, Head(p.unacked)),
                   !.unacked = Tail(@), !.nrtx = OneMore(@)]

tcp_rexmit_rto(p) ==
    IF p.unacked = <<>> THEN p
    ELSE [p EXCEPT !.unsent = p.unacked \o @, !.unacked = <<>>, !.nrtx = OneMore(@)]

tcp_rexmit_fast(p) ==
    IF p.unacked = <<>> \/ p.TF_INFR THEN p
    ELSE [tcp_rexmit(p) EXCEPT !.TF_INFR = TRUE, !.rtime = TRUE, !.cwnd = TCP_WND]

(* One byte of the next segment, or its FIN, sent into a closed window.    *)
tcp_zero_window_probe(e, w) ==
    LET p == w.p
        queue == p.unacked \o p.unsent
        s == Head(queue)
        FIN == s.FIN /\ s.data = <<>>
        probe == Segment(s.seqno, IF FIN THEN <<>> ELSE <<Head(s.data)>>, FALSE, FIN)
    IN  IF queue = <<>> THEN w
        ELSE [w EXCEPT !.p = [Announced(p) EXCEPT !.snd_nxt = Max({@, s.seqno + 1})],
                       !.out = @ \cup {Wire(e, p, probe, TRUE)}]

-----------------------------------------------------------------------------
(* tcp_receive, first part: what the acknowledgement says.                 *)

MoreToAnnounce(p) ==
    p.rcv_nxt + p.rcv_wnd >= p.rcv_ann_right_edge + Min({TCP_WND \div 2, TCP_MSS})

tcp_update_rcv_ann_wnd(p) ==
    IF MoreToAnnounce(p) THEN [p EXCEPT !.rcv_ann_wnd = p.rcv_wnd]
    ELSE [p EXCEPT !.rcv_ann_wnd = Max({0, p.rcv_ann_right_edge - p.rcv_nxt})]

UpdatesWindow(p, s) ==
    \/ p.snd_wl1 < s.seqno
    \/ p.snd_wl1 = s.seqno /\ p.snd_wl2 < s.ackno
    \/ p.snd_wl2 = s.ackno /\ s.wnd > p.snd_wnd

WindowUpdate(p, s) ==
    IF UpdatesWindow(p, s)
    THEN [p EXCEPT !.snd_wnd = s.wnd, !.snd_wl1 = s.seqno, !.snd_wl2 = s.ackno,
                   !.persist_backoff = (s.wnd = 0)]
    ELSE p

FastRecovery(p) ==
    IF p.dupacks = 3 THEN tcp_rexmit_fast(p)
    ELSE IF p.dupacks = 4 THEN [p EXCEPT !.cwnd = TCP_WND]
    ELSE p

(* p before and q after the window update; s acknowledges nothing new.     *)
DuplicateAck(p, q, s) ==
    LET dup == /\ TCP_TCPLEN(s) = 0
               /\ q.snd_wl2 + q.snd_wnd = p.snd_wl2 + p.snd_wnd
               /\ p.rtime /\ p.lastack = s.ackno
    IN  FastRecovery([q EXCEPT !.dupacks = IF dup THEN Min({@ + 1, 4}) ELSE 0])

Acknowledged(q, ackno) == {i \in DOMAIN q : \A j \in 1..i : EndOf(q[j]) <= ackno}
StillUnacked(q, ackno) == SubSeq(q, Cardinality(Acknowledged(q, ackno)) + 1, Len(q))

NewAck(p, ackno) ==
    LET unacked == StillUnacked(p.unacked, ackno)
    IN  [p EXCEPT !.TF_INFR = FALSE, !.nrtx = 0, !.dupacks = 0, !.cwnd = TCP_WND, !.lastack = ackno,
                  !.unacked = unacked, !.rtime = unacked # <<>>]

(* q is the pcb p after the window update.                                 *)
AckQueue(e, w, q, s) ==
    LET p == w.p
    IN  IF s.ackno <= p.lastack THEN [w EXCEPT !.p = DuplicateAck(p, q, s)]
        ELSE IF s.ackno <= p.snd_nxt THEN [w EXCEPT !.p = NewAck(q, s.ackno)]
        ELSE tcp_send_empty_ack(e, [w EXCEPT !.p = q])

AckUnsent(w, s) ==
    IF s.ackno <= w.p.snd_nxt THEN [w EXCEPT !.p.unsent = StillUnacked(@, s.ackno)] ELSE w

CountAcked(p, w) == [w EXCEPT !.recv_acked = UnackedBytes(p) - UnackedBytes(w.p)]

ReceiveAck(e, w, s) ==
    CountAcked(w.p, AckUnsent(AckQueue(e, w, WindowUpdate(w.p, s), s), s))

-----------------------------------------------------------------------------
(* tcp_receive, second part: data and FIN, in sequence or not at all.      *)

InWindow(p, seqno) == seqno \in p.rcv_nxt..(p.rcv_nxt + p.rcv_wnd - 1)

(* Slip: the sequence number moves on, and the data does not. *)
TrimmedInName(p, s) ==
    IF s.seqno < p.rcv_nxt /\ p.rcv_nxt < EndOf(s) THEN [s EXCEPT !.seqno = p.rcv_nxt] ELSE s

(* What was received before is cut off in front.                           *)
Trimmed(p, s) ==
    IF s.seqno < p.rcv_nxt /\ p.rcv_nxt < EndOf(s)
    THEN [s EXCEPT !.seqno = p.rcv_nxt, !.data = SubSeq(@, p.rcv_nxt - s.seqno + 1, Len(@))]
    ELSE s

(* What does not fit into the window is cut off behind, the FIN first.     *)
Cut(p, s) ==
    IF TCP_TCPLEN(s) > p.rcv_wnd
    THEN [s EXCEPT !.FIN = FALSE, !.data = SubSeq(@, 1, p.rcv_wnd)]
    ELSE s

tcp_ack_now(p) == [p EXCEPT !.ack = @ \cup {"TF_ACK_NOW"}]

tcp_ack(p) ==
    IF "TF_ACK_DELAY" \in p.ack THEN [p EXCEPT !.ack = {"TF_ACK_NOW"}]
    ELSE [p EXCEPT !.ack = @ \cup {"TF_ACK_DELAY"}]

InSequence(w, s) ==
    LET q == [w.p EXCEPT !.rcv_nxt = @ + TCP_TCPLEN(s), !.rcv_wnd = @ - TCP_TCPLEN(s)]
    IN  [w EXCEPT !.p = tcp_ack(tcp_update_rcv_ann_wnd(q)), !.recv_data = s.data,
                  !.recv_flags = IF s.FIN THEN @ \cup {"TF_GOT_FIN"} ELSE @]

OutOfSequence(e, w, s) ==
    tcp_send_empty_ack(e,
        [w EXCEPT !.p = IF s.seqno < @.rcv_nxt THEN tcp_ack_now(@) ELSE @])

PlaceData(e, w, s) ==
    IF InWindow(w.p, s.seqno) /\ s.seqno = w.p.rcv_nxt
    THEN InSequence(w, Cut(w.p, s))
    ELSE OutOfSequence(e, w, s)

ReceiveData(e, w, s) ==
    IF TCP_TCPLEN(s) > 0 /\ w.p.state \in {"ESTABLISHED", "FIN_WAIT_1", "FIN_WAIT_2"}
    THEN PlaceData(e, w, Trimmed(w.p, s))
    ELSE IF InWindow(w.p, s.seqno) THEN w
    ELSE [w EXCEPT !.p = tcp_ack_now(@)]

tcp_receive(e, w, s) ==
    ReceiveData(e, IF s.ACK THEN ReceiveAck(e, w, s) ELSE w, s)

-----------------------------------------------------------------------------
(* tcp_process: the state machine.                                         *)

Answer(s, e) == tcp_rst(e, s.ackno, EndOf(s))

ReceiveReset(w, s) ==
    LET p == w.p
        acceptable == IF p.state = "SYN_SENT" THEN s.ackno = p.snd_nxt ELSE s.seqno = p.rcv_nxt
    IN  IF acceptable THEN [w EXCEPT !.recv_flags = {"TF_RESET"}]
        ELSE IF p.state # "SYN_SENT" /\ s.seqno \in p.rcv_nxt..(p.rcv_nxt + p.rcv_wnd)
        THEN [w EXCEPT !.p = tcp_ack_now(@)]
        ELSE w

(* The SYN is the only segment the pcb has, on one of its queues.          *)
Connected(p, s) ==
    [p EXCEPT !.rcv_nxt = s.seqno + 1, !.rcv_ann_right_edge = s.seqno + 1,
              !.lastack = s.ackno, !.snd_wnd = s.wnd, !.snd_wl1 = s.seqno - 1,
              !.state = "ESTABLISHED", !.cwnd = TCP_WND,
              !.unacked = <<>>, !.unsent = <<>>, !.rtime = FALSE]

ProcessSynSent(e, w, s) ==
    LET p == w.p
        refused == [w EXCEPT !.out = @ \cup {Answer(s, e)}]
    IN  IF ~s.ACK THEN w
        ELSE IF s.SYN /\ s.ackno = p.lastack + 1
        THEN [w EXCEPT !.p = tcp_ack_now(Connected(p, s))]
        ELSE IF p.nrtx < TCP_SYNMAXRTX
        THEN [refused EXCEPT !.p = [tcp_rexmit_rto(p) EXCEPT !.rtime = TRUE]]
        ELSE refused

Accepted(w) ==
    IF "TF_GOT_FIN" \in w.recv_flags
    THEN [w EXCEPT !.p = [tcp_ack_now(@) EXCEPT !.state = "CLOSE_WAIT", !.cwnd = TCP_WND]]
    ELSE [w EXCEPT !.p.cwnd = TCP_WND]

ProcessSynRcvd(e, w, s) ==
    LET p == w.p
    IN  IF s.ACK /\ s.ackno \in (p.lastack + 1)..p.snd_nxt
        THEN Accepted(tcp_receive(e, [w EXCEPT !.p.state = "ESTABLISHED"], s))
        ELSE IF s.ACK THEN [w EXCEPT !.out = @ \cup {Answer(s, e)}]
        ELSE IF s.SYN /\ s.seqno = p.rcv_nxt - 1 THEN [w EXCEPT !.p = tcp_rexmit(@)]
        ELSE w

(* The next state when a FIN came (fin), or all was acknowledged (all).    *)
Closer(state, fin, all) ==
    CASE state \in {"ESTABLISHED", "CLOSE_WAIT"} -> IF fin THEN "CLOSE_WAIT" ELSE state
      [] state = "FIN_WAIT_1" -> IF fin /\ all THEN "TIME_WAIT" ELSE IF fin THEN "CLOSING"
                                 ELSE IF all THEN "FIN_WAIT_2" ELSE state
      [] state = "FIN_WAIT_2" -> IF fin THEN "TIME_WAIT" ELSE state
      [] state = "CLOSING" -> IF all THEN "TIME_WAIT" ELSE state
      [] OTHER -> state

Entered(p, state) ==
    [(IF state = "TIME_WAIT" THEN tcp_pcb_purge(p) ELSE p) EXCEPT !.state = state]

(* The state changes after tcp_receive, if at all.                         *)
Closing(w, s) ==
    LET p == w.p
        fin == "TF_GOT_FIN" \in w.recv_flags
        all == s.ACK /\ s.ackno = p.snd_nxt /\ p.unsent = <<>>
    IN  [w EXCEPT
           !.p = Entered(IF fin THEN tcp_ack_now(p) ELSE p, Closer(p.state, fin, all)),
           !.recv_flags = IF p.state = "LAST_ACK" /\ all THEN @ \cup {"TF_CLOSED"} ELSE @]

ProcessSynchronized(e, w, s) == Closing(tcp_receive(e, w, s), s)

tcp_process(e, w, s) ==
    IF s.RST THEN ReceiveReset(w, s)
    ELSE IF w.p.state = "SYN_SENT" THEN ProcessSynSent(e, w, s)
    ELSE IF w.p.state = "SYN_RCVD" THEN ProcessSynRcvd(e, w, s)
    ELSE IF s.SYN THEN [w EXCEPT !.p = tcp_ack_now(@)]
    ELSE ProcessSynchronized(e, w, s)

-----------------------------------------------------------------------------
(* Steps.  What work w of end e leaves behind; a and n are the new values  *)
(* of app[e] and of the segments under way besides those sent.             *)

StepEnds(e, w, a, n) ==
    /\ pcb' = [pcb EXCEPT ![e] = w.p]
    /\ app' = [app EXCEPT ![e] = a]
    /\ net' = n \cup w.out
    /\ Cardinality(net') <= connection.flight

Freed(w) == [w EXCEPT !.p = NoPcb]

(* A connection is given up, with a reset.                                 *)
tcp_abort(e, w) ==
    IF w.p.state = "TIME_WAIT" THEN Freed(w)
    ELSE [Freed(w) EXCEPT !.out = @ \cup {tcp_rst(e, w.p.snd_nxt, w.p.rcv_nxt)}]

(* The callbacks of tcp_input.                                             *)
Told(a, w) ==
    [a EXCEPT !.acked = @ + w.recv_acked, !.got = @ \o w.recv_data,
              !.unread = @ + Len(w.recv_data), !.eof = @ \/ "TF_GOT_FIN" \in w.recv_flags]

AfterFin(p) == [p EXCEPT !.rcv_wnd = IF @ # TCP_WND THEN @ + 1 ELSE @]

(* What tcp_input does when tcp_process returns.                           *)
Processed(e, w, n) ==
    LET a == [app[e] EXCEPT !.acked = @ + w.recv_acked]
        v == IF "TF_GOT_FIN" \in w.recv_flags THEN [w EXCEPT !.p = AfterFin(@)] ELSE w
    IN  IF "TF_RESET" \in w.recv_flags THEN StepEnds(e, Freed(w), app[e], n)
        ELSE IF "TF_CLOSED" \in w.recv_flags THEN StepEnds(e, Freed(w), a, n)
        ELSE IF w.recv_data # <<>> /\ w.p.TF_RXCLOSED THEN StepEnds(e, tcp_abort(e, w), a, n)
        ELSE StepEnds(e, tcp_output(e, v), Told(app[e], w), n)

tcp_input(e, s, n) == Processed(e, tcp_process(e, Work(pcb[e]), s), n)

tcp_timewait_input(e, s, n) ==
    LET p == pcb[e]
        inside == s.seqno \in p.rcv_nxt..(p.rcv_nxt + p.rcv_wnd)
        w == IF s.RST \/ TCP_TCPLEN(s) = 0 THEN Work(p)
             ELSE IF s.SYN /\ inside THEN [Work(p) EXCEPT !.out = {Answer(s, e)}]
             ELSE tcp_output(e, Work(tcp_ack_now(p)))
    IN  StepEnds(e, w, app[e], n)

(* No pcb: a SYN makes one when somebody listens, and its connection gets  *)
(* sequence numbers of its own; what acknowledges something is reset.      *)
tcp_listen_input(e, s, n) ==
    LET iss == 10 * (opens[e] + 1)
        new == [Pcb("SYN_RCVD", iss, s.seqno) EXCEPT
                  !.snd_wnd = s.wnd, !.snd_lbb = iss + 1,
                  !.unsent = <<Segment(iss, <<>>, TRUE, FALSE)>>]
        opened == ~s.RST /\ ~s.ACK /\ s.SYN
        w == IF opened THEN tcp_output(e, Work(new))
             ELSE IF ~s.RST /\ s.ACK THEN [Work(NoPcb) EXCEPT !.out = {Answer(s, e)}]
             ELSE Work(NoPcb)
    IN  /\ opened => opens[e] < connection.opens
        /\ opens' = IF opened THEN [opens EXCEPT ![e] = @ + 1] ELSE opens
        /\ StepEnds(e, w, app[e], n)

NoMatch(e, s, n) ==
    StepEnds(e, IF s.RST THEN Work(NoPcb) ELSE [Work(NoPcb) EXCEPT !.out = {Answer(s, e)}],
           app[e], n)

(* A segment arrives; one that stays under way will arrive once more.      *)
Arrive(s, again) ==
    LET e == s.to
        n == IF again THEN net ELSE net \ {s}
    IN  /\ again => faults < connection.faults
        /\ faults' = IF again THEN faults + 1 ELSE faults
        /\ UNCHANGED connection
        /\ \/ /\ pcb[e].state \notin {"CLOSED", "TIME_WAIT"}
              /\ tcp_input(e, s, n) /\ UNCHANGED opens
           \/ /\ pcb[e].state = "TIME_WAIT"
              /\ tcp_timewait_input(e, s, n) /\ UNCHANGED opens
           \/ /\ pcb[e].state = "CLOSED" /\ e = "server"
              /\ tcp_listen_input(e, s, n)
           \/ /\ pcb[e].state = "CLOSED" /\ e = "client"
              /\ NoMatch(e, s, n) /\ UNCHANGED opens

Lose(s) ==
    /\ faults < connection.faults
    /\ net' = net \ {s} /\ faults' = faults + 1
    /\ UNCHANGED <<pcb, app, opens, connection>>

-----------------------------------------------------------------------------
(* Calls of the applications.                                              *)

tcp_connect(e) ==
    LET new == [Pcb("SYN_SENT", 0, -1) EXCEPT
                  !.snd_nxt = 1, !.snd_lbb = 1, !.unsent = <<Segment(0, <<>>, TRUE, FALSE)>>]
    IN  /\ e = "client" /\ opens[e] = 0
        /\ opens' = [opens EXCEPT ![e] = 1]
        /\ StepEnds(e, tcp_output(e, Work(new)), app[e], net)
        /\ UNCHANGED <<connection, faults>>

(* The last unsent segment is filled up first.                             *)
Appended(p, data) ==
    LET last == Len(p.unsent)
        k == IF last = 0 THEN 0
             ELSE Min({TCP_MSS - Len(p.unsent[last].data), Len(data)})
        filled == IF k = 0 THEN p.unsent
                  ELSE [p.unsent EXCEPT ![last].data = @ \o SubSeq(data, 1, k)]
        rest == SubSeq(data, k + 1, Len(data))
        new == [j \in 1..((Len(rest) + TCP_MSS - 1) \div TCP_MSS) |->
                   Segment(p.snd_lbb + k + (j - 1) * TCP_MSS,
                           SubSeq(rest, (j - 1) * TCP_MSS + 1, Min({j * TCP_MSS, Len(rest)})),
                           FALSE, FALSE)]
    IN  [p EXCEPT !.unsent = filled \o new, !.snd_lbb = @ + Len(data)]

tcp_write(e, k) ==
    LET p == pcb[e]
        data == [i \in 1..k |-> app[e].wrote + i]
    IN  /\ p.state \in {"ESTABLISHED", "CLOSE_WAIT"}
        /\ k <= snd_buf(p) /\ app[e].wrote + k <= connection.units[e]
        /\ StepEnds(e, tcp_output(e, Work(Appended(p, data))),
                  [app[e] EXCEPT !.wrote = @ + k], net)
        /\ UNCHANGED <<opens, connection, faults>>

tcp_recved(e, k) ==
    LET p == [pcb[e] EXCEPT !.rcv_wnd = Min({@ + k, TCP_WND})]
        q == tcp_update_rcv_ann_wnd(p)
        inflation == IF MoreToAnnounce(p) THEN p.rcv_nxt + p.rcv_wnd - p.rcv_ann_right_edge ELSE 0
    IN  /\ p.state # "CLOSED" /\ ~p.TF_RXCLOSED /\ k <= app[e].unread
        /\ StepEnds(e, IF inflation >= Min({TCP_WND \div 4, 4 * TCP_MSS})
                     THEN tcp_output(e, Work(tcp_ack_now(q))) ELSE Work(q),
                  [app[e] EXCEPT !.unread = @ - k], net)
        /\ UNCHANGED <<opens, connection, faults>>

(* The FIN joins the last unsent segment or goes in one of its own.        *)
tcp_send_fin(p) ==
    LET last == Len(p.unsent)
    IN  IF p.unsent # <<>> /\ ~p.unsent[last].SYN
        THEN [p EXCEPT !.unsent[last].FIN = TRUE, !.TF_FIN = TRUE]
        ELSE [p EXCEPT !.unsent = Append(@, Segment(p.snd_lbb, <<>>, FALSE, TRUE)),
                       !.snd_lbb = @ + 1, !.TF_FIN = TRUE]

tcp_close_shutdown_fin(p) ==
    [tcp_send_fin(p) EXCEPT !.state = IF @ = "CLOSE_WAIT" THEN "LAST_ACK" ELSE "FIN_WAIT_1"]

(* A patient application closes when it has written and, except by         *)
(* tcp_shutdown, read everything.                                          *)
MayClose(e, reads) ==
    \/ connection.hasty
    \/ app[e].wrote = connection.units[e] /\ (reads => app[e].eof)

tcp_close(e) ==
    LET p == [pcb[e] EXCEPT !.TF_RXCLOSED = TRUE]
        reset == [Work(p) EXCEPT !.out = {tcp_rst(e, p.snd_nxt, p.rcv_nxt)}]
        a == [app[e] EXCEPT !.closed = TRUE]
    IN  /\ ~app[e].closed /\ MayClose(e, TRUE) /\ UNCHANGED <<opens, connection, faults>>
        /\ \/ /\ p.state \in {"ESTABLISHED", "CLOSE_WAIT"} /\ p.rcv_wnd # TCP_WND
              /\ StepEnds(e, IF p.state = "CLOSE_WAIT" THEN Freed(reset)
                           ELSE [reset EXCEPT !.p = [tcp_pcb_purge(p) EXCEPT !.state = "TIME_WAIT"]],
                        a, net)
           \/ /\ p.state \in {"ESTABLISHED", "CLOSE_WAIT"} /\ p.rcv_wnd = TCP_WND
              /\ StepEnds(e, tcp_output(e, Work(tcp_close_shutdown_fin(p))), a, net)
           \/ /\ p.state = "SYN_SENT"
              /\ StepEnds(e, Work(NoPcb), a, net)
           \/ /\ p.state \in {"FIN_WAIT_1", "FIN_WAIT_2", "CLOSING", "LAST_ACK", "TIME_WAIT"}
              /\ StepEnds(e, Work(p), a, net)

(* tcp_shutdown of the sending side.                                       *)
tcp_shutdown(e) ==
    /\ MayClose(e, FALSE)
    /\ pcb[e].state \in {"ESTABLISHED", "CLOSE_WAIT"}
    /\ StepEnds(e, tcp_output(e, Work(tcp_close_shutdown_fin(pcb[e]))), app[e], net)
    /\ UNCHANGED <<opens, connection, faults>>

-----------------------------------------------------------------------------
(* The timers.  A slow tick ends with tcp_output for every pcb.            *)

SlowTick(e, w) ==
    /\ pcb[e].state \notin {"CLOSED", "TIME_WAIT"}
    /\ StepEnds(e, w, app[e], net)
    /\ UNCHANGED <<opens, connection, faults>>

GivesUp(p) ==
    \/ p.state = "SYN_SENT" /\ p.nrtx >= TCP_SYNMAXRTX
    \/ p.nrtx >= TCP_MAXRTX

(* Too many retransmissions, or too long in a state that should pass.      *)
RemovePcb(e) ==
    LET p == pcb[e]
    IN  /\ \/ GivesUp(p)
           \/ p.state = "FIN_WAIT_2" /\ p.TF_RXCLOSED
           \/ p.state \in {"SYN_RCVD", "LAST_ACK"}
        /\ SlowTick(e, Freed(Work(p)))

Persist(e) ==
    LET p == pcb[e]
    IN  /\ ~GivesUp(p) /\ p.persist_backoff
        /\ SlowTick(e, tcp_output(e, tcp_zero_window_probe(e, Work(p))))

Retransmit(e) ==
    LET p == pcb[e]
    IN  /\ ~GivesUp(p) /\ ~p.persist_backoff /\ p.unacked # <<>> /\ p.rtime
        /\ SlowTick(e, tcp_output(e, Work([tcp_rexmit_rto(p) EXCEPT !.cwnd = TCP_MSS])))

SendOnTick(e) ==
    LET w == tcp_output(e, Work(pcb[e]))
    IN  ~GivesUp(pcb[e]) /\ w # Work(pcb[e]) /\ SlowTick(e, w)

TimeWaitEnds(e) ==
    /\ pcb[e].state = "TIME_WAIT"
    /\ StepEnds(e, Work(NoPcb), app[e], net)
    /\ UNCHANGED <<opens, connection, faults>>

(* The delayed acknowledgement; the flags are cleared, sent or not.        *)
tcp_fasttmr(e) ==
    LET w == tcp_output(e, Work(tcp_ack_now(pcb[e])))
    IN  /\ "TF_ACK_DELAY" \in pcb[e].ack
        /\ SlowTick(e, [w EXCEPT !.p.ack = {}])

-----------------------------------------------------------------------------
TcpInit ==
    /\ connection \in Connections
    /\ pcb = [e \in Ends |-> NoPcb]
    /\ net = {}
    /\ opens = [e \in Ends |-> 0] /\ faults = 0
    /\ app = [e \in Ends |-> [wrote |-> 0, acked |-> 0, got |-> <<>>, unread |-> 0,
                              eof |-> FALSE, closed |-> FALSE]]

TcpTimers(e) ==
    \/ RemovePcb(e) \/ Persist(e) \/ Retransmit(e) \/ SendOnTick(e)
    \/ TimeWaitEnds(e) \/ tcp_fasttmr(e)

TcpNext ==
    \/ \E s \in net : Lose(s) \/ \E again \in BOOLEAN : Arrive(s, again)
    \/ \E e \in Ends :
          \/ tcp_connect(e) \/ tcp_close(e) \/ tcp_shutdown(e) \/ TcpTimers(e)
          \/ \E k \in 1..TCP_SND_BUF : tcp_write(e, k)
          \/ \E k \in 1..TCP_WND : tcp_recved(e, k)

TcpSpec == TcpInit /\ [][TcpNext]_tcpVars

-----------------------------------------------------------------------------
TcpTypeOK ==
    \A e \in Ends :
        /\ pcb[e].rcv_wnd \in 0..TCP_WND /\ pcb[e].rcv_ann_wnd \in 0..TCP_WND
        /\ snd_buf(pcb[e]) \in 0..TCP_SND_BUF
        /\ pcb[e].ack \subseteq {"TF_ACK_DELAY", "TF_ACK_NOW"}

(* Each application reads a prefix of what its peer wrote, is told of the  *)
(* end only when it has read all of it, and is told that something it      *)
(* wrote arrived only when its peer has it: whatever is lost, repeated,    *)
(* reordered, cut, closed or opened once more.                             *)
StreamsIntact ==
    \A e \in Ends :
        LET n == Len(app[e].got)
        IN  /\ TcpTypeOK
            /\ app[e].got = [i \in 1..n |-> i]
            /\ n <= app[Peer(e)].wrote
            /\ app[e].eof => n = app[Peer(e)].wrote
            /\ app[Peer(e)].acked <= n

(* Data never waits without a timer: a pcb that has something queued has a *)
(* retransmission or a probe coming, or the next tick will send it.        *)
NeverStalls ==
    \A e \in Ends :
        LET p == pcb[e]
        IN  p.unacked \o p.unsent # <<>> =>
               \/ p.unacked # <<>> /\ p.rtime
               \/ p.persist_backoff
               \/ tcp_output(e, Work(p)) # Work(p)
=============================================================================
