SPECIFICATION TimeoutsInputSpec
CONSTANTS
    cyclic_timers = {"a", "b"}
    Interval <- Intervals
    OneShots = {"o"}
    Msecs = {1, 3}
    ClockModulus = 16
    MaxLate = 1
    MaxUntil = 6
INVARIANT TcpTimerRuns
CHECK_DEADLOCK FALSE
