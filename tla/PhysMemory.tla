----------------------------- MODULE PhysMemory -----------------------------
(***************************************************************************)
(* The physical memory manager of phys_mm.c: a bitmap with one bit for     *)
(* each page-sized block, a count of the blocks in use, the marking of     *)
(* reserved memory at boot, and the allocation of one block or several.    *)
(* `memory_map' is the set of the bits that are set; the bitmap is twice   *)
(* as long as it has to be and cleared, so bits behind the last block can  *)
(* be read, and set.                                                       *)
(***************************************************************************)
EXTENDS Integers, Sequences, FiniteSets

CONSTANTS
    PageSize,       \* PAGE_SIZE, in bytes
    WordBits,       \* bits in a word of the bitmap
    TotalBlocks,    \* MAX_MEMORY_ADDRESS / PAGE_SIZE
    AddressSpace,   \* 2^32: addresses are uint32_t, but for those of the memory map
    FirstSection,   \* the address of the kernel's first ELF section
    LastSection,    \* the highest address at which a section begins
    InfoStart,      \* where the multiboot information starts ...
    InfoEnd,        \* ... and ends
    MultibootMap,   \* the memory map: a sequence of [addr, len, available]
    HeapBytes,      \* the size of the kernel heap, malloc_size
    Sizes           \* the numbers of blocks that callers ask for

ASSUME PhysMemoryAssumption ==
    /\ PageSize \in Nat \ {0}
    /\ WordBits \in Nat \ {0}
    /\ TotalBlocks \in Nat \ {0}
    /\ AddressSpace \in Nat /\ TotalBlocks * PageSize < AddressSpace
    /\ FirstSection \in Nat /\ LastSection \in Nat /\ FirstSection <= LastSection
    /\ InfoStart \in Nat /\ InfoEnd \in Nat
    /\ MultibootMap \in Seq([addr : Nat, len : Nat, available : BOOLEAN])
    /\ HeapBytes \in Nat
    /\ Sizes \subseteq Nat

VARIABLES
    phase,          \* "boot", "heap", "run" or "hung"
    memory_map,     \* the bits that are set
    used_blocks,
    held            \* first block -> number of blocks, of what callers hold

vars == <<phase, memory_map, used_blocks, held>>

Blocks == 0..(TotalBlocks - 1)

-----------------------------------------------------------------------------
(* What boot reserves.                                                     *)

RoundPageUp(a) == ((a + PageSize - 1) \div PageSize) * PageSize

\* read_elf_sections looks at where the sections begin.
kernel_start == FirstSection

kernel_end == RoundPageUp(LastSection)

\* The bitmap follows the kernel, and the heap follows the bitmap.
BitsetSize == (TotalBlocks + 4) \div 4

heap_start == kernel_end + BitsetSize

\* The page at a begins or ends in lo..hi.
Touches(a, lo, hi) == a \in lo..hi \/ a + PageSize \in lo..hi

\* Where an entry of the memory map begins and ends, cut to 32 bits: one that
\* reaches the end of the address space ends at 0, and has no address.
EntryStart(e) == e.addr % AddressSpace

EntryEnd(e) == (EntryStart(e) + e.len) % AddressSpace

\* The entries that have address a, their ends included.
Entries(a) ==
    {i \in 1..Len(MultibootMap) :
        a \in EntryStart(MultibootMap[i])..EntryEnd(MultibootMap[i])}

\* check_multiboot_info_memory_state: the first entry decides.
MapState(a) ==
    IF Entries(a) = {} THEN "invalid"
    ELSE LET e == MultibootMap[CHOOSE i \in Entries(a) : \A j \in Entries(a) : i <= j]
         IN  IF e.available /\ a + PageSize <= EntryEnd(e) THEN "free" ELSE "reserved"

\* check_memory_state.
MemoryState(a) ==
    IF \/ a <= PageSize
       \/ Touches(a, InfoStart, InfoEnd)
       \/ Touches(a, kernel_start, kernel_end)
    THEN "reserved"
    ELSE MapState(a)

\* The blocks of a region as phys_mm_set_blocks computes them: base and size
\* are each rounded down.
Region(base, size) ==
    LET first == base \div PageSize
    IN  first..(first + size \div PageSize - 1)

\* mark_reserved_sections: memory that is not in the map is left free.
ReservedBlocks == {b \in Blocks : MemoryState(b * PageSize) = "reserved"}

-----------------------------------------------------------------------------
(* The searches.  Each stops at one block, or at none.                     *)

FirstOf(S) == {b \in S : \A c \in S : b <= c}

\* The blocks of the bitmap's full words; the others are not looked at.
Searched == 0..((TotalBlocks \div WordBits) * WordBits - 1)

FreeBlocks == Searched \ memory_map

find_first_free == FirstOf(FreeBlocks)

Run(b, n) == b..(b + n - 1)

\* The search for several blocks stays in the first word with a free block:
\* that word is scanned again and again until it has no free block left.
WordOf(b) == b \div WordBits

InFirstWord == {b \in FreeBlocks : \A c \in find_first_free : WordOf(b) = WordOf(c)}

\* Slip: the last block of the run is not looked at.
RunStartsShort(n) == {b \in InFirstWord : Run(b, n - 1) \cap memory_map = {}}

RunStarts(n) == {b \in InFirstWord : Run(b, n) \cap memory_map = {}}

Endless(n) == n > 1 /\ FreeBlocks # {} /\ RunStarts(n) = {}

\* Slip: no test for a request of no blocks.
find_first_free_blocks_any(n) ==
    IF n = 1 THEN find_first_free ELSE FirstOf(RunStarts(n))

find_first_free_blocks(n) ==
    IF n = 0 THEN {}
    ELSE IF n = 1 THEN find_first_free
    ELSE FirstOf(RunStarts(n))

-----------------------------------------------------------------------------
(* The operations.                                                         *)

Init ==
    /\ phase = "boot"
    /\ memory_map = {} /\ used_blocks = 0
    /\ held = [b \in {} |-> 0]

\* phys_mm_init: three markings, each of which counts the blocks it marks
\* whether or not they are marked already.
PhysMMInit ==
    /\ phase = "boot" /\ phase' = "heap"
    /\ LET bitmap == Region(kernel_end, BitsetSize)
           kernel == Region(kernel_start, kernel_end - kernel_start)
       IN  /\ memory_map' = bitmap \cup ReservedBlocks \cup kernel
           /\ used_blocks' = Cardinality(bitmap) + Cardinality(ReservedBlocks)
                               + Cardinality(kernel)
    /\ UNCHANGED held

\* kernel_main sets the heap's blocks.
HeapInit ==
    /\ phase = "heap" /\ phase' = "run"
    /\ memory_map' = memory_map \cup Region(heap_start, HeapBytes)
    /\ used_blocks' = used_blocks + Cardinality(Region(heap_start, HeapBytes))
    /\ UNCHANGED held

\* The difference of two unsigned numbers is "<= 0" when they are equal.
NoneFree == used_blocks = TotalBlocks

Refuse == UNCHANGED vars

\* Slip: one block is counted for each call.
GrantCountedOnce(b, n) ==
    /\ memory_map' = memory_map \cup Run(b, n)
    /\ used_blocks' = used_blocks + 1
    /\ held' = [c \in DOMAIN held \cup {b} |-> IF c = b THEN n ELSE held[c]]
    /\ UNCHANGED phase

Grant(b, n) ==
    /\ memory_map' = memory_map \cup Run(b, n)
    /\ used_blocks' = used_blocks + n
    /\ held' = [c \in DOMAIN held \cup {b} |-> IF c = b THEN n ELSE held[c]]
    /\ UNCHANGED phase

\* What is done with the block that a search stopped at; block 0 means none.
GrantFound(found, n) ==
    IF found \in SUBSET {0} THEN Refuse ELSE \E b \in found : Grant(b, n)

Alloc ==
    /\ phase = "run"
    /\ IF NoneFree THEN Refuse ELSE GrantFound(find_first_free, 1)

Allocs(n) ==
    /\ phase = "run"
    /\ IF NoneFree THEN Refuse
       ELSE IF Endless(n) THEN phase' = "hung" /\ UNCHANGED <<memory_map, used_blocks, held>>
       ELSE GrantFound(find_first_free_blocks(n), n)

\* phys_mm_free and phys_mm_frees: callers give back what they hold, whole.
Frees(b) ==
    /\ phase = "run"
    /\ memory_map' = memory_map \ Run(b, held[b])
    /\ used_blocks' = used_blocks - held[b]
    /\ held' = [c \in DOMAIN held \ {b} |-> held[c]]
    /\ UNCHANGED phase

\* The search that does not end.
Spin == phase = "hung" /\ UNCHANGED vars

Next ==
    \/ PhysMMInit
    \/ HeapInit
    \/ Alloc
    \/ \E n \in Sizes : Allocs(n)
    \/ \E b \in DOMAIN held : Frees(b)
    \/ Spin

Spec == Init /\ [][Next]_vars

-----------------------------------------------------------------------------
(* Properties.                                                             *)

\* The variables have their types.
TypeOK ==
    /\ phase \in {"boot", "heap", "run", "hung"}
    /\ memory_map \subseteq Nat
    /\ used_blocks \in Nat
    /\ held \in [DOMAIN held -> Nat \ {0}]
    /\ DOMAIN held \subseteq Searched

\* What boot marks, and how many blocks it counts for that.
BootMarked ==
    Region(kernel_end, BitsetSize) \cup ReservedBlocks
        \cup Region(kernel_start, kernel_end - kernel_start)
        \cup Region(heap_start, HeapBytes)

BootCount ==
    Cardinality(Region(kernel_end, BitsetSize)) + Cardinality(ReservedBlocks)
        + Cardinality(Region(kernel_start, kernel_end - kernel_start))
        + Cardinality(Region(heap_start, HeapBytes))

Booted == phase \in {"run", "hung"}

HeldRun(b) == Run(b, held[b])

\* The bitmap is the record of who owns what: its bits are those set at boot and
\* those of the blocks that callers hold, and no block has two owners.  So one
\* that is freed can be had again, and one that is not cannot.
BitmapIsOwnership ==
    Booted =>
        /\ memory_map = BootMarked \cup UNION {HeldRun(b) : b \in DOMAIN held}
        /\ \A b \in DOMAIN held : HeldRun(b) \cap BootMarked = {}
        /\ \A b, c \in DOMAIN held : b # c => HeldRun(b) \cap HeldRun(c) = {}

\* The counter is ahead of the bitmap by the blocks that boot marked twice, and
\* by no more: no sequence of allocations and frees makes it drift.
CounterDoesNotDrift ==
    Booted =>
        used_blocks - Cardinality(memory_map) = BootCount - Cardinality(BootMarked)
=============================================================================
