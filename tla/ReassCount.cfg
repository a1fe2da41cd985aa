SPECIFICATION NetSpec
CONSTANTS
    cyclic_timers = {"a", "b"}
    Interval <- Intervals
    OneShots = {"o"}
    Msecs = {2}
    ClockModulus = 16
    MaxLate = 1
    MaxUntil = 6
    Pbufs = {p1, p2, p3}
    Msgs = {m1, m2}
    NULL = NULL
    TCPIP_MBOX_SIZE = 1
    SYS_LIGHTWEIGHT_PROT = TRUE
    Hosts = {h1, h2, h3}
    Macs = {x, y}
    ARP_TABLE_SIZE = 2
    ARP_MAXAGE = 3
    ARP_MAXPENDING = 2
    ARP_AGE_REREQUEST_USED_UNICAST = 1
    ARP_AGE_REREQUEST_USED_BROADCAST = 2
    MEMP_NUM_ARP_QUEUE = 2
    ARP_QUEUE_LEN = 2
    MaxPackets = 3
    Datagrams = {d1, d2, d3}
    Length <- Lengths
    FragmentSizes = {1, 2, 3}
    IP_REASS_MAX_PBUFS = 5
    MEMP_NUM_REASSDATA = 2
    IP_REASS_MAXAGE = 2
    MaxMiscounted = 2
    Names = {h1, h2, h3}
    Callers = {c1, c2}
    DNS_TABLE_SIZE = 2
    DNS_MAX_REQUESTS = 2
    DNS_MAX_SOURCE_PORTS = 2
    DNS_MAX_SERVERS = 2
    DNS_MAX_RETRIES = 2
    Ttls = {2}
    SeqModulus = 3
SYMMETRY Symmetry
INVARIANT PbufsAreCounted
CHECK_DEADLOCK FALSE
