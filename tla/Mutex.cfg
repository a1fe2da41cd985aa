SPECIFICATION FairSpec
CONSTANTS
    mutex = mutex
    recursive = recursive
    Tasks <- MCTasks
    Mutexes = {mutex, recursive}
    Recursive = {recursive}
    Priorities <- MCPriorities
    Programs <- MCPrograms
    MaxDepth = 2
INVARIANTS HoldersAgree NoLostWakeup HoldersHurryInTurn RestoredAtLast
PROPERTY InversionBounded
CHECK_DEADLOCK FALSE
