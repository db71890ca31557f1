-------------------------------- MODULE Heap --------------------------------
(***************************************************************************)
(* The kernel heap of malloc.c: one region of memory cut into chunks, each *)
(* a header of Hdr bytes followed by its payload, kept in a doubly linked  *)
(* list in address order.  malloc takes the first free chunk that is       *)
(* strictly larger than the request, free merges with both neighbours.     *)
(*                                                                         *)
(* A chunk is named by the address of its header, so `heap' is a function  *)
(* whose domain is the set of headers that are in the list: a split adds   *)
(* an address to it, a merge removes one.  Pointers handed to callers are  *)
(* header address + Hdr, as in the code.                                   *)
(***************************************************************************)
EXTENDS Integers

CONSTANTS
    HeapStart,      \* init_mm's start, the address of the first header
    HeapSize,       \* init_mm's size, in bytes
    Hdr,            \* sizeof(MemoryChunk)
    Sizes,          \* the request sizes that callers use
    Counts,         \* the nmemb arguments that callers give to calloc
    SizeMod         \* 2^32, the modulus of size_t arithmetic

ASSUME HeapAssumption ==
    /\ HeapStart \in Nat \ {0}
    /\ Hdr \in Nat \ {0}
    /\ HeapSize \in Nat /\ HeapSize >= Hdr
    /\ SizeMod \in Nat \ {0}
    /\ Sizes \subseteq Nat
    /\ Counts \subseteq Nat

VARIABLES
    heap,           \* header address -> MemoryChunk, for the chunks in the list
    live,           \* pointers the callers hold -> the size they asked for
    call            \* the last call, with its request and its result

vars == <<heap, live, call>>

NULL == 0
HeapEnd == HeapStart + HeapSize

MemoryChunk == [next : Nat, prev : Nat, allocated : BOOLEAN, size : Nat]

\* The first byte behind chunk c.
EndOf(h, c) == c + Hdr + h[c].size

-----------------------------------------------------------------------------
(* malloc: the search, and what it does to the chunk it finds.             *)

\* Slip: a fit leaves room for a header.
FitsWithHeader(h, c, n) == h[c].size > n + Hdr /\ ~h[c].allocated

\* The condition of the search loop.
Fits(h, c, n) == h[c].size > n /\ ~h[c].allocated

Fitting(h, n) == {c \in DOMAIN h : Fits(h, c, n)}

\* The chunk at which the loop stops.  The list is in address order (the
\* links of HeapTiled), so the first fitting chunk is the lowest one.
FirstFit(h, n) == {c \in Fitting(h, n) : \A d \in Fitting(h, n) : c <= d}

\* Cut the free chunk c behind its first n bytes of payload.
Split(h, c, n) ==
    LET temp == c + Hdr + n
        next == h[c].next
    IN  [d \in DOMAIN h \cup {temp} |->
            IF d = temp THEN [next |-> next, prev |-> c, allocated |-> FALSE,
                              size |-> h[c].size - n - Hdr]
            ELSE IF d = c THEN [h[d] EXCEPT !.next = temp, !.size = n]
            ELSE IF d = next THEN [h[d] EXCEPT !.prev = temp]
            ELSE h[d]]

\* Slip: no room is left for the header of the rest.
CanSplitNoHeader(h, c, n) == h[c].size >= n + 1

CanSplit(h, c, n) == h[c].size >= n + Hdr + 1

Take(h, c, n) ==
    LET cut == IF CanSplit(h, c, n) THEN Split(h, c, n) ELSE h
    IN  [cut EXCEPT ![c].allocated = TRUE]

\* What malloc(n) returns and leaves behind: one outcome for each heap.
MallocOutcome(h, n) ==
    IF Fitting(h, n) = {}
    THEN {[heap |-> h, ret |-> NULL]}
    ELSE {[heap |-> Take(h, c, n), ret |-> c + Hdr] : c \in FirstFit(h, n)}

-----------------------------------------------------------------------------
(* free: merge the chunk with the free chunks on its two sides.            *)

\* Slip: the chunk after the one that goes still points back to it.
AbsorbStale(h, c) ==
    LET gone == h[c].next
    IN  [d \in DOMAIN h \ {gone} |->
            IF d = c THEN [h[d] EXCEPT !.next = h[gone].next,
                                       !.size = @ + h[gone].size + Hdr]
            ELSE h[d]]

\* Append to chunk c the chunk behind it, whose header leaves the list.
Absorb(h, c) ==
    LET gone  == h[c].next
        after == h[gone].next
    IN  [d \in DOMAIN h \ {gone} |->
            IF d = c THEN [h[d] EXCEPT !.next = after,
                                       !.size = @ + h[gone].size + Hdr]
            ELSE IF d = after THEN [h[d] EXCEPT !.prev = c]
            ELSE h[d]]

IsFree(h, c) == c # NULL /\ ~h[c].allocated

Unmark(h, c) == [h EXCEPT ![c].allocated = FALSE]

AbsorbNext(h, c) == IF IsFree(h, h[c].next) THEN Absorb(h, c) ELSE h

\* Slips: only one of the two merges is made.
ReleaseForward(h, c) == AbsorbNext(Unmark(h, c), c)

ReleaseBackward(h, c) ==
    IF IsFree(h, h[c].prev) THEN Absorb(Unmark(h, c), h[c].prev) ELSE Unmark(h, c)

Release(h, c) ==
    LET prev == h[c].prev
    IN  IF IsFree(h, prev)
        THEN AbsorbNext(Absorb(Unmark(h, c), prev), prev)
        ELSE AbsorbNext(Unmark(h, c), c)

-----------------------------------------------------------------------------
(* The calls.                                                              *)

\* The callers' view: p is now held for n bytes; p is no longer held.
Hold(l, p, n) ==
    IF p = NULL THEN l
    ELSE [q \in DOMAIN l \cup {p} |-> IF q = p THEN n ELSE l[q]]

Drop(l, p) == [q \in DOMAIN l \ {p} |-> l[q]]

InitHeap ==
    [c \in {HeapStart} |->
        [next |-> NULL, prev |-> NULL, allocated |-> FALSE,
         size |-> HeapSize - Hdr]]

Init ==
    /\ heap = InitHeap
    /\ live = [p \in {} |-> 0]
    /\ call = [op |-> "init_mm", size |-> 0, ret |-> NULL]

Malloc(n) ==
    \E m \in MallocOutcome(heap, n) :
        /\ heap' = m.heap
        /\ live' = Hold(live, m.ret, n)
        /\ call' = [op |-> "malloc", size |-> n, ret |-> m.ret]

\* Callers free only what they hold: free looks at nothing but the header.
Free(p) ==
    /\ heap' = Release(heap, p - Hdr)
    /\ live' = Drop(live, p)
    /\ call' = [op |-> "free", size |-> 0, ret |-> NULL]

\* The product of the arguments is taken in a size_t, and memset is called
\* on whatever malloc returned.
Calloc(k, s) ==
    LET n == (k * s) % SizeMod
    IN  \E m \in MallocOutcome(heap, n) :
            /\ heap' = m.heap
            /\ live' = Hold(live, m.ret, n)
            /\ call' = [op |-> "calloc", size |-> n, ret |-> m.ret]

\* Slip: the old block stays marked.
ReallocLeaks(p, n) ==
    \E m \in MallocOutcome(heap, n) :
        /\ heap' = m.heap
        /\ live' = Drop(Hold(live, m.ret, n), p)
        /\ call' = [op |-> "realloc", size |-> n, ret |-> m.ret]

\* The new block is taken while the old one is still held, and the old one
\* is freed whether or not there is a new one.
Realloc(p, n) ==
    \E m \in MallocOutcome(heap, n) :
        /\ heap' = Release(m.heap, p - Hdr)
        /\ live' = Drop(Hold(live, m.ret, n), p)
        /\ call' = [op |-> "realloc", size |-> n, ret |-> m.ret]

Next ==
    \/ \E n \in Sizes : Malloc(n)
    \/ \E k \in Counts, s \in Sizes : Calloc(k, s)
    \/ \E p \in DOMAIN live : Free(p)
    \/ \E p \in DOMAIN live, n \in Sizes : Realloc(p, n)

Spec == Init /\ [][Next]_vars

-----------------------------------------------------------------------------
(* Properties.                                                             *)

Calls == [op : {"init_mm", "malloc", "free", "calloc", "realloc"},
          size : Nat, ret : Nat]

HeapType(h) ==
    /\ h \in [DOMAIN h -> MemoryChunk]
    /\ DOMAIN h \subseteq HeapStart..HeapEnd

\* The variables have their types: headers lie at addresses of the heap and
\* callers hold pointers into it.
TypeOK ==
    /\ HeapType(heap)
    /\ live \in [DOMAIN live -> Nat]
    /\ DOMAIN live \subseteq HeapStart..HeapEnd
    /\ call \in Calls

\* The list starts at the start of the heap, `next' leads to the chunk that
\* begins where this one ends, or nowhere if it ends the heap, and `prev'
\* leads back.
Linked(h) ==
    /\ HeapStart \in DOMAIN h
    /\ \A c \in DOMAIN h :
        /\ IF h[c].next = NULL
           THEN EndOf(h, c) = HeapEnd
           ELSE /\ h[c].next \in DOMAIN h
                /\ h[c].next = EndOf(h, c)
                /\ h[h[c].next].prev = c
        /\ IF h[c].prev = NULL
           THEN c = HeapStart
           ELSE /\ h[c].prev \in DOMAIN h
                /\ h[h[c].prev].next = c

\* No two chunks overlap.
Disjoint(h) == \A c, d \in DOMAIN h : c < d => EndOf(h, c) <= d

\* Every byte of the heap is in some chunk, and no chunk reaches outside.
Covered(h) ==
    /\ \A c \in DOMAIN h : HeapStart <= c /\ EndOf(h, c) <= HeapEnd
    /\ \A a \in HeapStart..(HeapEnd - 1) :
        \E c \in DOMAIN h : c <= a /\ a < EndOf(h, c)

\* The chunks tile the heap and the links agree with the tiling, however the
\* calls split and merged them: no byte is lost or handed out twice.
HeapTiled == Linked(heap) /\ Disjoint(heap) /\ Covered(heap)

\* The chunks marked as allocated, and: no two free chunks are neighbours.
Taken(h) == {c \in DOMAIN h : h[c].allocated}

Separated(h) == \A c \in DOMAIN h : IsFree(h, c) => ~IsFree(h, h[c].next)

\* free's two merges leave no two free neighbours, whatever was free before,
\* and neither malloc nor realloc makes any.
Coalesced == Separated(heap)

Holds(h, l) ==
    /\ DOMAIN l = {c + Hdr : c \in Taken(h)}
    /\ \A p \in DOMAIN l :
        h[p - Hdr].size >= l[p] /\ h[p - Hdr].size <= l[p] + Hdr

\* What the callers hold is what the heap has marked as allocated, and each
\* block is at least as large as the request (the whole chunk when the rest
\* was too small to split off).
LiveBlocksSound == Holds(heap, live)

\* When every block has been freed the heap is the one chunk it began as: no
\* sequence of calls fragments it or loses a byte for good.
AllFreedRestoresHeap == DOMAIN live = {} => heap = InitHeap

\* The heap of malloc.c is an arena of free bytes that refuses a request only
\* when no run of free bytes is long enough for it and its header (Arena.tla).
Arena == INSTANCE Arena WITH
    Start   <- HeapStart,
    End     <- HeapEnd,
    blocks  <- [p \in DOMAIN live |-> heap[p - Hdr].size],
    ret     <- call.ret

ImplementsArena == Arena!Spec
=============================================================================
