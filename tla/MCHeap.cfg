SPECIFICATION Spec
CONSTANTS
    HeapStart = 3
    HeapSize = 13
    Hdr = 2
    Sizes = {0, 1, 4}
    Counts = {2, 5}
    SizeMod = 16
INVARIANTS
    TypeOK
    HeapTiled
    Coalesced
    LiveBlocksSound
    AllFreedRestoresHeap
PROPERTIES
    ImplementsArena
