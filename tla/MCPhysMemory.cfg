SPECIFICATION Spec
CONSTANTS
    PageSize = 4
    WordBits = 4
    TotalBlocks = 22
    AddressSpace = 92
    FirstSection = 8
    LastSection = 13
    InfoStart = 33
    InfoEnd = 36
    MultibootMap <- SomeMap
    HeapBytes = 8
    Sizes = {0, 2, 3}
INVARIANTS
    TypeOK
    BitmapIsOwnership
    CounterDoesNotDrift
