SPECIFICATION TcpipSpec
CONSTANTS
    Pbufs = {p1, p2, p3}
    Msgs = {m1, m2}
    NULL = NULL
    TCPIP_MBOX_SIZE = 1
    SYS_LIGHTWEIGHT_PROT = FALSE
INVARIANT EveryElementHasOnePlace
CHECK_DEADLOCK FALSE
