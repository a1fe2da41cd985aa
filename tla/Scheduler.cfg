SPECIFICATION MCSpec
CONSTANTS
    Tasks <- MCTasks
    Idle = "idle"
    TopPriority = 2
    Programs <- MCPrograms
    Delays = {1, 3}
    Increment = 2
    TickMod = 4
    End = End
    MaxPended = 2
    MaxNesting = 2
    MAX_NUMBER_OF_TASKS = 3
    Casts <- MCCasts
INVARIANTS OneStateList DelaysAreExact HighestPriorityRuns NeverAhead OneTaskRuns
