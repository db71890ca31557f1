-------------------------- MODULE PhysMemoryProofs --------------------------
(***************************************************************************)
(* The bitmap of phys_mm.c records who owns what, and the counter keeps    *)
(* its distance from it, for every size of memory, map and request.        *)
(***************************************************************************)
EXTENDS PhysMemory, FiniteSetTheorems, TLAPS

-----------------------------------------------------------------------------
(* Sets of blocks.                                                         *)

\* A run of n blocks has n elements.
LEMMA RunFacts ==
    ASSUME NEW b \in Nat, NEW n \in Nat
    PROVE  /\ Run(b, n) \subseteq Nat
           /\ IsFiniteSet(Run(b, n))
           /\ Cardinality(Run(b, n)) = n
BY FS_Interval DEF Run

\* A region of memory is finitely many blocks.
LEMMA RegionFacts ==
    ASSUME NEW base \in Nat, NEW size \in Nat
    PROVE  /\ Region(base, size) \subseteq Nat
           /\ IsFiniteSet(Region(base, size))
           /\ Cardinality(Region(base, size)) \in Nat
<1> DEFINE first == base \div PageSize
           len   == size \div PageSize
<1>1. first \in Nat /\ len \in Nat
  BY PhysMemoryAssumption
<1>2. Region(base, size) = first..(first + len - 1)
  BY DEF Region
<1> HIDE DEF first, len
<1> QED BY <1>1, <1>2, FS_Interval, FS_CardinalityType

\* Adding a run that is free adds its length; removing one that is in use takes
\* it away.
LEMMA AddRun ==
    ASSUME NEW M, IsFiniteSet(M), NEW b \in Nat, NEW n \in Nat, Run(b, n) \cap M = {}
    PROVE  /\ IsFiniteSet(M \cup Run(b, n))
           /\ Cardinality(M \cup Run(b, n)) = Cardinality(M) + n
<1> DEFINE R == Run(b, n)
<1>1. IsFiniteSet(R) /\ Cardinality(R) = n
  BY RunFacts
<1>2. M \cap R = {}
  OBVIOUS
<1>3. Cardinality(M) \in Nat /\ Cardinality({}) = 0
  BY FS_CardinalityType, FS_EmptySet
<1> HIDE DEF R
<1>4. /\ IsFiniteSet(M \cup R)
      /\ Cardinality(M \cup R) = Cardinality(M) + Cardinality(R) - Cardinality(M \cap R)
  BY <1>1, FS_Union
<1>5. Cardinality(M \cap R) = 0
  BY <1>2, <1>3, Zenon
<1>6. Cardinality(M \cup R) = Cardinality(M) + n
  BY <1>1, <1>3, <1>4, <1>5
<1> QED BY <1>4, <1>6 DEF R

LEMMA RemoveRun ==
    ASSUME NEW M, IsFiniteSet(M), NEW b \in Nat, NEW n \in Nat, Run(b, n) \subseteq M
    PROVE  /\ IsFiniteSet(M \ Run(b, n))
           /\ Cardinality(M) = Cardinality(M \ Run(b, n)) + n
<1> DEFINE rest == M \ Run(b, n)
<1>1. IsFiniteSet(rest)
  BY FS_Subset
<1>2. rest \cup Run(b, n) = M /\ Run(b, n) \cap rest = {}
  OBVIOUS
<1> HIDE DEF rest
<1>3. Cardinality(rest \cup Run(b, n)) = Cardinality(rest) + n
  BY <1>1, <1>2, AddRun
<1> QED BY <1>1, <1>2, <1>3 DEF rest

\* What is marked twice at boot is counted twice, so the count is no smaller
\* than the number of blocks marked.
LEMMA CountOfUnion ==
    ASSUME NEW S, IsFiniteSet(S), NEW T, IsFiniteSet(T)
    PROVE  /\ IsFiniteSet(S \cup T)
           /\ Cardinality(S \cup T) <= Cardinality(S) + Cardinality(T)
           /\ Cardinality(S \cup T) \in Nat
<1>1. IsFiniteSet(S \cup T)
  BY FS_Union
<1>2. Cardinality(S \cup T) = Cardinality(S) + Cardinality(T) - Cardinality(S \cap T)
  BY FS_Union
<1>3. IsFiniteSet(S \cap T)
  BY FS_Subset
<1>4. /\ Cardinality(S \cap T) \in Nat /\ Cardinality(S \cup T) \in Nat
      /\ Cardinality(S) \in Nat /\ Cardinality(T) \in Nat
  BY <1>1, <1>3, FS_CardinalityType
<1> QED BY <1>1, <1>2, <1>4

-----------------------------------------------------------------------------
(* What boot leaves behind.                                                *)

\* What phys_mm_init marks, before the heap is added.
InitMarked ==
    Region(kernel_end, BitsetSize) \cup ReservedBlocks
        \cup Region(kernel_start, kernel_end - kernel_start)

InitCount ==
    Cardinality(Region(kernel_end, BitsetSize)) + Cardinality(ReservedBlocks)
        + Cardinality(Region(kernel_start, kernel_end - kernel_start))

\* The addresses that boot computes are addresses.
LEMMA Layout ==
    /\ kernel_start \in Nat /\ kernel_end \in Nat /\ kernel_end - kernel_start \in Nat
    /\ BitsetSize \in Nat /\ heap_start \in Nat
<1>1. kernel_end \in Nat /\ LastSection <= kernel_end
  BY PhysMemoryAssumption DEF kernel_end, RoundPageUp
<1>2. BitsetSize \in Nat
  BY PhysMemoryAssumption DEF BitsetSize
<1> QED BY <1>1, <1>2, PhysMemoryAssumption DEF kernel_start, heap_start

\* Sets are finite, and the counts cover them.
LEMMA BootFacts ==
    /\ InitMarked \subseteq Nat /\ IsFiniteSet(InitMarked)
    /\ BootMarked = InitMarked \cup Region(heap_start, HeapBytes)
    /\ BootMarked \subseteq Nat /\ IsFiniteSet(BootMarked)
    /\ InitCount \in Nat
    /\ BootCount = InitCount + Cardinality(Region(heap_start, HeapBytes))
    /\ BootCount \in Nat /\ Cardinality(BootMarked) \in Nat
    /\ Cardinality(BootMarked) <= BootCount
<1> DEFINE A == Region(kernel_end, BitsetSize)
           B == ReservedBlocks
           C == Region(kernel_start, kernel_end - kernel_start)
           D == Region(heap_start, HeapBytes)
<1>1. /\ A \subseteq Nat /\ IsFiniteSet(A) /\ Cardinality(A) \in Nat
      /\ C \subseteq Nat /\ IsFiniteSet(C) /\ Cardinality(C) \in Nat
      /\ D \subseteq Nat /\ IsFiniteSet(D) /\ Cardinality(D) \in Nat
  BY Layout, RegionFacts, PhysMemoryAssumption
<1>2. B \subseteq Nat /\ IsFiniteSet(B) /\ Cardinality(B) \in Nat
  <2>1. B \subseteq Blocks /\ Blocks \subseteq Nat
    BY DEF ReservedBlocks, Blocks
  <2>2. IsFiniteSet(Blocks)
    BY FS_Interval, PhysMemoryAssumption DEF Blocks
  <2> QED BY <2>1, <2>2, FS_Subset, FS_CardinalityType
<1>3. /\ InitMarked = (A \cup B) \cup C
      /\ BootMarked = ((A \cup B) \cup C) \cup D
      /\ InitCount = Cardinality(A) + Cardinality(B) + Cardinality(C)
      /\ BootCount = Cardinality(A) + Cardinality(B) + Cardinality(C) + Cardinality(D)
  BY DEF InitMarked, BootMarked, InitCount, BootCount
<1> HIDE DEF A, B, C, D
<1>4. /\ IsFiniteSet(A \cup B) /\ Cardinality(A \cup B) \in Nat
      /\ Cardinality(A \cup B) <= Cardinality(A) + Cardinality(B)
  BY <1>1, <1>2, CountOfUnion
<1>5. /\ IsFiniteSet(InitMarked) /\ Cardinality(InitMarked) \in Nat
      /\ Cardinality(InitMarked) <= Cardinality(A \cup B) + Cardinality(C)
  BY <1>1, <1>3, <1>4, CountOfUnion
<1>6. /\ IsFiniteSet(BootMarked) /\ Cardinality(BootMarked) \in Nat
      /\ Cardinality(BootMarked) <= Cardinality(InitMarked) + Cardinality(D)
  BY <1>1, <1>3, <1>5, CountOfUnion
<1>7. InitMarked \subseteq Nat /\ BootMarked \subseteq Nat
  BY <1>1, <1>2, <1>3
<1>8. InitCount \in Nat /\ BootCount \in Nat /\ BootCount = InitCount + Cardinality(D)
  BY <1>1, <1>2, <1>3
<1>9. Cardinality(BootMarked) <= BootCount
  BY <1>1, <1>2, <1>3, <1>4, <1>5, <1>6
<1> QED BY <1>3, <1>5, <1>6, <1>7, <1>8, <1>9 DEF D

-----------------------------------------------------------------------------
(* The inductive invariant.  Ownership alone is not inductive: that a run of *)
(* clear bits belongs to nobody needs that the bitmap holds nothing but what *)
(* boot and the callers own, and the counter stays natural only because it  *)
(* is ahead of the bitmap.                                                  *)

BootSteps ==
    /\ phase = "boot" => memory_map = {} /\ used_blocks = 0
    /\ phase = "heap" => memory_map = InitMarked /\ used_blocks = InitCount
    /\ ~Booted => DOMAIN held = {}

IInv ==
    /\ TypeOK
    /\ IsFiniteSet(memory_map)
    /\ BootSteps
    /\ BitmapIsOwnership
    /\ CounterDoesNotDrift

\* Before boot nothing is marked.
LEMMA InitGood == Init => IInv
BY FS_EmptySet DEF Init, IInv, TypeOK, BootSteps, BitmapIsOwnership, CounterDoesNotDrift, Booted

\* The two steps of boot.
LEMMA PhysMMInitGood ==
    ASSUME IInv, PhysMMInit
    PROVE  IInv'
<1>1. memory_map' = InitMarked /\ used_blocks' = InitCount /\ phase' = "heap" /\ held' = held
  BY DEF PhysMMInit, InitMarked, InitCount
<1>2. DOMAIN held = {}
  BY DEF IInv, BootSteps, Booted, PhysMMInit
<1> QED BY <1>1, <1>2, BootFacts
      DEF IInv, TypeOK, BootSteps, BitmapIsOwnership, CounterDoesNotDrift, Booted

LEMMA HeapInitGood ==
    ASSUME IInv, HeapInit
    PROVE  IInv'
<1>1. memory_map' = BootMarked /\ used_blocks' = BootCount /\ phase' = "run" /\ held' = held
  BY BootFacts DEF HeapInit, IInv, BootSteps
<1>2. DOMAIN held = {}
  BY DEF IInv, BootSteps, Booted, HeapInit
<1>3. TypeOK' /\ BootSteps' /\ IsFiniteSet(memory_map')
  BY <1>1, <1>2, BootFacts DEF IInv, TypeOK, BootSteps, Booted
<1>4. BitmapIsOwnership'
  BY <1>1, <1>2 DEF BitmapIsOwnership
<1>5. CounterDoesNotDrift'
  BY <1>1 DEF CounterDoesNotDrift
<1> QED BY <1>3, <1>4, <1>5 DEF IInv

\* A run of clear bits may be granted.
LEMMA GrantGood ==
    ASSUME IInv, phase = "run", NEW b \in Searched, NEW n \in Nat \ {0},
           Run(b, n) \cap memory_map = {}, Grant(b, n)
    PROVE  IInv'
<1>1. b \in Nat /\ b \in Run(b, n)
  BY PhysMemoryAssumption DEF Searched, Run
<1>2. /\ memory_map' = memory_map \cup Run(b, n)
      /\ used_blocks' = used_blocks + n
      /\ phase' = "run"
      /\ DOMAIN held' = DOMAIN held \cup {b}
      /\ \A c \in DOMAIN held \cup {b} : held'[c] = IF c = b THEN n ELSE held[c]
      /\ held' \in [DOMAIN held' -> Nat \ {0}]
  BY DEF Grant, IInv, TypeOK
<1>3. b \notin DOMAIN held
  <2>1. \A c \in DOMAIN held : c \in HeldRun(c) /\ HeldRun(c) \subseteq memory_map
    BY DEF IInv, TypeOK, BitmapIsOwnership, Booted, HeldRun, Run, Searched
  <2> QED BY <1>1, <2>1
<1>4. /\ HeldRun(b)' = Run(b, n)
      /\ \A c \in DOMAIN held : HeldRun(c)' = HeldRun(c)
  BY <1>2, <1>3 DEF HeldRun
<1>5. TypeOK' /\ BootSteps'
  BY <1>1, <1>2, RunFacts DEF IInv, TypeOK, BootSteps, Booted
<1>6. /\ IsFiniteSet(memory_map')
      /\ Cardinality(memory_map') = Cardinality(memory_map) + n
  BY <1>1, <1>2, AddRun DEF IInv
<1>7. CounterDoesNotDrift'
  <2>1. Cardinality(memory_map) \in Nat /\ used_blocks \in Nat
    BY FS_CardinalityType DEF IInv, TypeOK
  <2>2. used_blocks - Cardinality(memory_map) = BootCount - Cardinality(BootMarked)
    BY DEF IInv, CounterDoesNotDrift, Booted
  <2> QED BY <1>2, <1>6, <2>1, <2>2, BootFacts DEF CounterDoesNotDrift
<1>8. BitmapIsOwnership'
  <2>1. /\ memory_map = BootMarked \cup UNION {HeldRun(c) : c \in DOMAIN held}
        /\ \A c \in DOMAIN held : HeldRun(c) \cap BootMarked = {}
        /\ \A c, d \in DOMAIN held : c # d => HeldRun(c) \cap HeldRun(d) = {}
    BY DEF IInv, BitmapIsOwnership, Booted
  <2>2. memory_map' = BootMarked \cup UNION {HeldRun(c)' : c \in DOMAIN held'}
    BY <1>2, <1>4, <2>1
  <2>3. \A c \in DOMAIN held' : HeldRun(c)' \cap BootMarked = {}
    BY <1>2, <1>4, <2>1
  <2>4. \A c, d \in DOMAIN held' : c # d => HeldRun(c)' \cap HeldRun(d)' = {}
    BY <1>2, <1>4, <2>1
  <2> QED BY <2>2, <2>3, <2>4 DEF BitmapIsOwnership
<1> QED BY <1>5, <1>6, <1>7, <1>8 DEF IInv

\* What a caller holds may be given back.
LEMMA FreesGood ==
    ASSUME IInv, NEW b \in DOMAIN held, Frees(b)
    PROVE  IInv'
<1> DEFINE n == held[b]
<1>1. b \in Nat /\ b \in Searched /\ n \in Nat \ {0}
  BY PhysMemoryAssumption DEF IInv, TypeOK, Searched
<1>2. /\ memory_map' = memory_map \ HeldRun(b)
      /\ used_blocks' = used_blocks - n
      /\ phase' = phase /\ phase = "run"
      /\ DOMAIN held' = DOMAIN held \ {b}
      /\ \A c \in DOMAIN held \ {b} : held'[c] = held[c]
      /\ held' \in [DOMAIN held' -> Nat \ {0}]
  BY DEF Frees, IInv, TypeOK, HeldRun
<1>3. \A c \in DOMAIN held \ {b} : HeldRun(c)' = HeldRun(c)
  BY <1>2 DEF HeldRun
<1>4. /\ memory_map = BootMarked \cup UNION {HeldRun(c) : c \in DOMAIN held}
      /\ \A c \in DOMAIN held : HeldRun(c) \cap BootMarked = {}
      /\ \A c, d \in DOMAIN held : c # d => HeldRun(c) \cap HeldRun(d) = {}
      /\ used_blocks - Cardinality(memory_map) = BootCount - Cardinality(BootMarked)
  BY <1>2 DEF IInv, BitmapIsOwnership, CounterDoesNotDrift, Booted
<1>5. HeldRun(b) \subseteq memory_map
  BY <1>4
<1>6. /\ IsFiniteSet(memory_map')
      /\ Cardinality(memory_map) = Cardinality(memory_map') + n
      /\ Cardinality(memory_map') \in Nat
  BY <1>1, <1>2, <1>5, RemoveRun, FS_CardinalityType DEF IInv, HeldRun
<1>7. used_blocks' - Cardinality(memory_map') = BootCount - Cardinality(BootMarked)
  BY <1>1, <1>2, <1>4, <1>6, BootFacts DEF IInv, TypeOK
<1>8. used_blocks' \in Nat
  BY <1>1, <1>2, <1>6, <1>7, BootFacts DEF IInv, TypeOK
<1>9. TypeOK' /\ BootSteps'
  BY <1>2, <1>8 DEF IInv, TypeOK, BootSteps, Booted
<1>10. BitmapIsOwnership'
  <2>1. memory_map' = BootMarked \cup UNION {HeldRun(c)' : c \in DOMAIN held'}
    BY <1>2, <1>3, <1>4
  <2>2. /\ \A c \in DOMAIN held' : HeldRun(c)' \cap BootMarked = {}
        /\ \A c, d \in DOMAIN held' : c # d => HeldRun(c)' \cap HeldRun(d)' = {}
    BY <1>2, <1>3, <1>4
  <2> QED BY <2>1, <2>2 DEF BitmapIsOwnership
<1> QED BY <1>6, <1>7, <1>9, <1>10 DEF IInv, CounterDoesNotDrift

\* Steps that change nothing, or the phase alone.
LEMMA HangGood ==
    ASSUME IInv, phase = "run", phase' \in {"run", "hung"},
           UNCHANGED <<memory_map, used_blocks, held>>
    PROVE  IInv'
BY DEF IInv, TypeOK, BootSteps, BitmapIsOwnership, CounterDoesNotDrift, Booted, HeldRun

LEMMA StutterGood ==
    ASSUME IInv, UNCHANGED vars
    PROVE  IInv'
BY DEF IInv, TypeOK, BootSteps, BitmapIsOwnership, CounterDoesNotDrift, Booted, HeldRun, vars

\* What the searches find is free, and long enough.
LEMMA SearchSound ==
    /\ \A b \in find_first_free : b \in Searched /\ Run(b, 1) \cap memory_map = {}
    /\ \A n \in Nat : \A b \in find_first_free_blocks(n) :
            n # 0 /\ b \in Searched /\ Run(b, n) \cap memory_map = {}
<1>1. \A b \in find_first_free : b \in Searched /\ b \notin memory_map
  BY DEF find_first_free, FirstOf, FreeBlocks
<1>2. \A b \in find_first_free : Run(b, 1) = {b}
  BY <1>1, PhysMemoryAssumption DEF Run, Searched
<1>3. \A n \in Nat : \A b \in RunStarts(n) : b \in Searched /\ Run(b, n) \cap memory_map = {}
  BY DEF RunStarts, InFirstWord, FreeBlocks
<1> QED BY <1>1, <1>2, <1>3 DEF find_first_free_blocks, FirstOf

LEMMA AllocsGood ==
    ASSUME IInv, NEW n \in Nat, Allocs(n)
    PROVE  IInv'
<1>1. CASE UNCHANGED vars
  BY <1>1, StutterGood
<1>2. CASE phase' = "hung" /\ UNCHANGED <<memory_map, used_blocks, held>>
  BY <1>2, HangGood DEF Allocs
<1>3. CASE \E b \in find_first_free_blocks(n) : Grant(b, n)
  BY <1>3, SearchSound, GrantGood DEF Allocs
<1> QED BY <1>1, <1>2, <1>3 DEF Allocs, GrantFound, Refuse

LEMMA AllocGood ==
    ASSUME IInv, Alloc
    PROVE  IInv'
<1>1. CASE UNCHANGED vars
  BY <1>1, StutterGood
<1>2. CASE \E b \in find_first_free : Grant(b, 1)
  BY <1>2, SearchSound, GrantGood DEF Alloc
<1> QED BY <1>1, <1>2 DEF Alloc, GrantFound, Refuse

LEMMA NextGood == IInv /\ [Next]_vars => IInv'
<1> SUFFICES ASSUME IInv, [Next]_vars PROVE IInv'
  OBVIOUS
<1>1. CASE PhysMMInit
  BY <1>1, PhysMMInitGood
<1>2. CASE HeapInit
  BY <1>2, HeapInitGood
<1>3. CASE Alloc
  BY <1>3, AllocGood
<1>4. CASE \E n \in Sizes : Allocs(n)
  BY <1>4, AllocsGood, PhysMemoryAssumption
<1>5. CASE \E b \in DOMAIN held : Frees(b)
  BY <1>5, FreesGood
<1>6. CASE Spin \/ UNCHANGED vars
  BY <1>6, StutterGood DEF Spin
<1> QED BY <1>1, <1>2, <1>3, <1>4, <1>5, <1>6 DEF Next

-----------------------------------------------------------------------------
(* The theorems.                                                           *)

\* The inductive invariant holds in every reachable state.
THEOREM PhysMemoryInvariant == Spec => []IInv
BY InitGood, NextGood, PTL DEF Spec

\* The variables keep their types; in particular the counter of used blocks
\* never goes below zero.
THEOREM PhysMemoryTypeOK == Spec => []TypeOK
<1>1. IInv => TypeOK
  BY DEF IInv
<1> QED BY <1>1, PhysMemoryInvariant, PTL

\* The bitmap is the record of who owns what, whatever callers allocate and free.
THEOREM BitmapStaysOwnership == Spec => []BitmapIsOwnership
<1>1. IInv => BitmapIsOwnership
  BY DEF IInv
<1> QED BY <1>1, PhysMemoryInvariant, PTL

\* The counter keeps its distance from the bitmap.
THEOREM CounterNeverDrifts == Spec => []CounterDoesNotDrift
<1>1. IInv => CounterDoesNotDrift
  BY DEF IInv
<1> QED BY <1>1, PhysMemoryInvariant, PTL
=============================================================================
