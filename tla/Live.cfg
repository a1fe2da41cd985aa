SPECIFICATION LiveSpec
CONSTANTS
    Tasks <- Peers
    Prio <- PeersPrio
    Programs <- LivePrograms
    Waits = {2, 3}
    MaxDelay = 3
    LockMax = 127
    MaxLocked = 1
    MaxPended = 1
    End = End
    Leases <- SomeLeases
    LWIP_DHCP_AUTOIP_COOP_TRIES = 3
    REBOOT_TRIES = 2
    MAX_TRIES = 6
    TimeModulus = 8
INVARIANTS LeaseLasts
PROPERTIES TimedCallsReturn ItemsMeetReceivers PeersTakeTurns DelaysEnd AddressInTheEnd
