SPECIFICATION TimersSpec
CONSTANTS
    timer1 = t1
    timer2 = t2
    Timers = {t1, t2}
    Programs <- PeriodicPrograms
    TickMod = 8
    QueueLength = 2
    MaxBehind = 2
INVARIANT StoppedStaysStopped
CHECK_DEADLOCK FALSE
