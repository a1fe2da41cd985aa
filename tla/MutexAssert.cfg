SPECIFICATION Spec
CONSTANTS
    mutex = mutex
    recursive = recursive
    Tasks <- MCTasks
    Mutexes = {mutex, recursive}
    Recursive = {recursive}
    Priorities <- MCPriorities
    Programs <- SinglePrograms
    MaxDepth = 2
INVARIANT NothingInherited
CHECK_DEADLOCK FALSE
