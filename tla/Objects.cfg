SPECIFICATION ObjectsSpec
CONSTANTS
    NULL = NULL
    MaxDelay = 1
    Items = {i1, i2, i3}
    Lists = {l1, l2}
    Lengths = {1, 2, 3}
    Values = {v1, v2}
    None = None
    HeapUnits = 11
    xHeapStructSize = 1
    WantedSizes = {0, 1, 2, 3}
INVARIANTS WellLinked PointersAgree
PROPERTIES ImplementsRing TurnNeverSlips ImplementsDeque ImplementsMemory
CHECK_DEADLOCK FALSE
