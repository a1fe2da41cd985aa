SPECIFICATION SignalsSpec
CONSTANTS
    timer1 = t1
    timer2 = t2
    Timers = {t1, t2}
    Programs <- MCPrograms
    TickMod = 6
    QueueLength = 2
    MaxBehind = 1
    Masks = {0, 1, 3}
    SyncTasks = {s1, s2}
    WaitTasks = {w1, w2}
    FlagBits = {b1, b2}
    MaxRounds = 2
    MaxPended = 1
    Connections <- MCConnections
    TCP_MSS = 2
    TCP_WND = 4
    TCP_SND_BUF = 4
    TCP_MAXRTX = 1
    TCP_SYNMAXRTX = 1
SYMMETRY Symmetry
INVARIANTS ListsKeepTime NoneForgotten SleepsForAReason NobodyWaitsInVain SyncIsABarrier StreamsIntact NeverStalls
PROPERTIES NeverEarly
CHECK_DEADLOCK FALSE
