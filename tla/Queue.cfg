SPECIFICATION Spec
CONSTANTS
    Tasks <- MCTasks
    Prio <- MCPrio
    Programs <- MCPrograms
    Waits = {2, 3}
    MaxDelay = 3
    LockMax = 127
    MaxLocked = 2
    MaxPended = 1
INVARIANTS ListsConsistent NoLostWakeup NeverEarly
