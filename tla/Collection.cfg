SPECIFICATION All
CONSTANTS
    TreeKeys = {1, 2, 3, 4, 5, 6}
    StaticCapacity = 4
    StaticKeys = {1, 2, 3}
    HeapOps = 4
    LeftistCapacity = 5
    LeftistKeys = {1, 2}
    HeapItems = {1, 2, 3, 4}
    HeapCosts = {0, 1, 2}
    ArrayLength = 3
    ArrayMax = 2
    Amounts = {1, 2}
    Nodes = {1, 2, 3}
    Lists = {1, 2}
    Sorted = {2}
    Values = {1, 2, 3}
    Vertices = 3
    MaxCapacity = 2
    MaxText = 6
    Reach = 5
    MaxFrequency = 4
INVARIANTS
    SearchTreesSound
    HeapsOrdered
    ListsSound
    IndexedHeapSound
    SumsRight
    GraphsAnswered
    TextsAnswered
    NumbersAndCodesRight
PROPERTY
    KeepsElements
    ImplementsLists
    ImplementsQueue
CHECK_DEADLOCK FALSE
