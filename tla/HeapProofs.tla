----------------------------- MODULE HeapProofs -----------------------------
(***************************************************************************)
(* Proofs about Heap.tla, for every heap size, header size and request.    *)
(***************************************************************************)
EXTENDS Heap, TLAPS

\* A well-formed list of chunks.
WF(h) == HeapType(h) /\ Linked(h) /\ Disjoint(h) /\ Covered(h)

-----------------------------------------------------------------------------
(* malloc's split keeps the list well formed.                              *)

\* s is h with a new chunk at t between c and the chunk x that followed it.
SplitAt(h, c, n, s, t, x) ==
    /\ t \notin DOMAIN h
    /\ t \in HeapStart..HeapEnd
    /\ DOMAIN s = DOMAIN h \cup {t}
    /\ s[t] = [next |-> x, prev |-> c, allocated |-> FALSE,
               size |-> h[c].size - n - Hdr]
    /\ \A d \in DOMAIN h :
         /\ s[d] \in MemoryChunk
         /\ s[d].allocated = h[d].allocated
         /\ s[d].size = IF d = c THEN n ELSE h[d].size
         /\ s[d].next = IF d = c THEN t ELSE h[d].next
         /\ s[d].prev = IF d = x THEN t ELSE h[d].prev

\* What the fields of the chunks are after a split: the new chunk is none of
\* the old ones.
LEMMA SplitFields ==
    ASSUME NEW h, WF(h), NEW c \in DOMAIN h, NEW n \in Nat, CanSplit(h, c, n)
    PROVE  SplitAt(h, c, n, Split(h, c, n), c + Hdr + n, h[c].next)
<1> DEFINE t == c + Hdr + n
           s == Split(h, c, n)
           x == h[c].next
<1>1. /\ \A d \in DOMAIN h : h[d] \in MemoryChunk /\ d \in Nat \ {0} /\ h[d].size \in Nat
      /\ c \in Nat \ {0} /\ x \in Nat /\ HeapEnd \in Nat /\ HeapStart \in Nat
      /\ Hdr \in Nat \ {0} /\ t \in Nat
  BY HeapAssumption DEF WF, HeapType, MemoryChunk, HeapEnd
<1>2. /\ t \notin DOMAIN h
      /\ t \in HeapStart..HeapEnd
  BY <1>1 DEF WF, Disjoint, Covered, EndOf, CanSplit
<1>3. x # c /\ c # t
  BY <1>1 DEF WF, Linked, EndOf, NULL
<1>4. DOMAIN s = DOMAIN h \cup {t}
  BY DEF Split
<1>5. s[t] = [next |-> x, prev |-> c, allocated |-> FALSE, size |-> h[c].size - n - Hdr]
  BY DEF Split
<1>6. ASSUME NEW d \in DOMAIN h
      PROVE  s[d] = IF d = c THEN [h[d] EXCEPT !.next = t, !.size = n]
                    ELSE IF d = x THEN [h[d] EXCEPT !.prev = t] ELSE h[d]
  <2>1. d # t
    BY <1>2
  <2> QED
    BY <2>1, <1>3 DEF Split
<1>7. ASSUME NEW d \in DOMAIN h
      PROVE  /\ s[d] \in MemoryChunk
             /\ s[d].allocated = h[d].allocated
             /\ s[d].size = IF d = c THEN n ELSE h[d].size
             /\ s[d].next = IF d = c THEN t ELSE h[d].next
             /\ s[d].prev = IF d = x THEN t ELSE h[d].prev
  <2>1. s[d] = IF d = c THEN [h[d] EXCEPT !.next = t, !.size = n]
               ELSE IF d = x THEN [h[d] EXCEPT !.prev = t] ELSE h[d]
    BY <1>6
  <2>2. h[d] \in [next : Nat, prev : Nat, allocated : BOOLEAN, size : Nat]
    BY <1>1 DEF MemoryChunk
  <2>3. t \in Nat /\ x # c
    BY <1>1, <1>3
  <2> QED
    BY <2>1, <2>2, <2>3 DEF MemoryChunk
<1> QED
  BY <1>2, <1>4, <1>5, <1>7 DEF SplitAt

LEMMA SplitWF ==
    ASSUME NEW h, WF(h), NEW c \in DOMAIN h, NEW n \in Nat, CanSplit(h, c, n)
    PROVE  WF(Split(h, c, n))
<1> DEFINE t == c + Hdr + n
           s == Split(h, c, n)
           x == h[c].next
<1>0. SplitAt(h, c, n, s, t, x)
  BY SplitFields
<1>1. /\ \A d \in DOMAIN h : /\ h[d] \in MemoryChunk /\ d \in Nat \ {0}
                             /\ h[d].size \in Nat /\ h[d].next \in Nat /\ h[d].prev \in Nat
      /\ c \in Nat \ {0} /\ x \in Nat /\ HeapEnd \in Nat /\ HeapStart \in Nat
      /\ Hdr \in Nat \ {0} /\ t \in Nat /\ h[c].size >= n + Hdr + 1
  BY HeapAssumption DEF WF, HeapType, MemoryChunk, HeapEnd, CanSplit
<1> HIDE DEF s, t, x
<1>3. /\ s[t].next = x /\ s[t].prev = c /\ s[t].size = h[c].size - n - Hdr
      /\ s[t].allocated = FALSE
      /\ s[t] \in MemoryChunk
  BY <1>1, <1>0 DEF MemoryChunk, SplitAt
<1>4. HeapType(s)
  <2>1. s = [d \in DOMAIN s |-> s[d]]
    BY DEF Split, s
  <2>2. \A d \in DOMAIN s : s[d] \in MemoryChunk
    BY <1>0, <1>3 DEF MemoryChunk, SplitAt
  <2> QED
    BY <2>1, <2>2, <1>0 DEF HeapType, WF, SplitAt
<1>5. \A d \in DOMAIN h : EndOf(s, d) = IF d = c THEN t ELSE EndOf(h, d)
  BY <1>1, <1>0 DEF EndOf, SplitAt, t
<1>6. EndOf(s, t) = EndOf(h, c)
  BY <1>1, <1>3 DEF EndOf, t
<1>7. \A d \in DOMAIN h : EndOf(h, d) \in Nat /\ d < EndOf(h, d)
  BY <1>1 DEF EndOf
<1>8. c < t /\ t < EndOf(h, c)
  BY <1>1 DEF EndOf, t
<1>9. Disjoint(s)
  <2> SUFFICES ASSUME NEW d \in DOMAIN s, NEW e \in DOMAIN s, d < e
               PROVE  EndOf(s, d) <= e
    BY DEF Disjoint
  <2>1. CASE d = t
    BY <2>1, <1>1, <1>0, <1>6, <1>7, <1>8 DEF WF, Disjoint, SplitAt
  <2>2. CASE e = t
    BY <2>2, <1>1, <1>0, <1>5, <1>7, <1>8 DEF WF, Disjoint, SplitAt
  <2>3. CASE d # t /\ e # t
    BY <2>3, <1>1, <1>0, <1>5, <1>7, <1>8 DEF WF, Disjoint, SplitAt
  <2> QED
    BY <2>1, <2>2, <2>3
<1>10. Covered(s)
  <2>1. \A d \in DOMAIN s : HeapStart <= d /\ EndOf(s, d) <= HeapEnd
    BY <1>1, <1>0, <1>5, <1>6, <1>7, <1>8 DEF WF, Covered, SplitAt
  <2>2. ASSUME NEW a \in HeapStart..(HeapEnd - 1)
        PROVE  \E d \in DOMAIN s : d <= a /\ a < EndOf(s, d)
    <3>1. PICK d \in DOMAIN h : d <= a /\ a < EndOf(h, d)
      BY DEF WF, Covered
    <3>2. CASE d = c
      BY <3>1, <3>2, <1>1, <1>0, <1>5, <1>6 DEF SplitAt
    <3>3. CASE d # c
      BY <3>1, <3>3, <1>0, <1>5 DEF SplitAt
    <3> QED
      BY <3>2, <3>3
  <2> QED
    BY <2>1, <2>2 DEF Covered
<1>11. Linked(s)
  <2>1. HeapStart \in DOMAIN s
    BY <1>0 DEF WF, Linked, SplitAt
  <2>2. ASSUME NEW d \in DOMAIN s
        PROVE  IF s[d].next = NULL
               THEN EndOf(s, d) = HeapEnd
               ELSE /\ s[d].next \in DOMAIN s
                    /\ s[d].next = EndOf(s, d)
                    /\ s[s[d].next].prev = d
    <3>1. CASE d = t
      BY <3>1, <1>1, <1>0, <1>3, <1>6 DEF WF, Linked, SplitAt, x
    <3>2. CASE d = c
      BY <3>2, <1>1, <1>0, <1>3, <1>5, <1>8 DEF NULL, SplitAt
    <3>3. CASE d # t /\ d # c
      <4>1. d \in DOMAIN h /\ s[d].next = h[d].next /\ EndOf(s, d) = EndOf(h, d)
        BY <3>3, <1>0, <1>5 DEF SplitAt
      <4>2. CASE h[d].next = NULL
        BY <4>1, <4>2 DEF WF, Linked
      <4>3. CASE h[d].next # NULL
        <5>1. /\ h[d].next \in DOMAIN h /\ h[d].next = EndOf(h, d)
              /\ h[h[d].next].prev = d
          BY <4>1, <4>3 DEF WF, Linked
        <5>2. h[d].next # x
          BY <5>1, <3>3, <4>3, <1>1 DEF WF, Linked, x, NULL
        <5> QED
          BY <5>1, <5>2, <4>1, <4>3, <1>0 DEF SplitAt
      <4> QED
        BY <4>2, <4>3
    <3> QED
      BY <3>1, <3>2, <3>3
  <2>3. ASSUME NEW d \in DOMAIN s
        PROVE  IF s[d].prev = NULL
               THEN d = HeapStart
               ELSE s[d].prev \in DOMAIN s /\ s[s[d].prev].next = d
    <3>1. CASE d = t
      BY <3>1, <1>1, <1>0, <1>3 DEF NULL, SplitAt
    <3>2. CASE d # t /\ d = x
      BY <3>2, <1>1, <1>0, <1>3, <1>8 DEF NULL, SplitAt
    <3>3. CASE d # t /\ d # x
      <4>1. d \in DOMAIN h /\ s[d].prev = h[d].prev
        BY <3>3, <1>0 DEF SplitAt
      <4>2. CASE h[d].prev = NULL
        BY <4>1, <4>2 DEF WF, Linked
      <4>3. CASE h[d].prev # NULL
        <5>1. h[d].prev \in DOMAIN h /\ h[h[d].prev].next = d
          BY <4>1, <4>3 DEF WF, Linked
        <5>2. h[d].prev # c
          BY <5>1, <3>3 DEF x
        <5> QED
          BY <5>1, <5>2, <4>1, <4>3, <1>0 DEF SplitAt
      <4> QED
        BY <4>2, <4>3
    <3> QED
      BY <3>1, <3>2, <3>3
  <2> QED
    BY <2>1, <2>2, <2>3 DEF Linked
<1> QED
  BY <1>4, <1>9, <1>10, <1>11 DEF WF, s

-----------------------------------------------------------------------------
(* Marking a chunk touches nothing but the mark.                           *)

Mark(h, c, b) == [h EXCEPT ![c].allocated = b]

\* m is h with chunk c marked b.
MarkedAt(h, c, b, m) ==
    /\ DOMAIN m = DOMAIN h
    /\ \A d \in DOMAIN h :
        /\ m[d] \in MemoryChunk
        /\ m[d].next = h[d].next
        /\ m[d].prev = h[d].prev
        /\ m[d].size = h[d].size
        /\ m[d].allocated = IF d = c THEN b ELSE h[d].allocated

LEMMA MarkFields ==
    ASSUME NEW h, WF(h), NEW c \in DOMAIN h, NEW b \in BOOLEAN
    PROVE  MarkedAt(h, c, b, Mark(h, c, b))
<1>1. ASSUME NEW d \in DOMAIN h
      PROVE  h[d] \in [next : Nat, prev : Nat, allocated : BOOLEAN, size : Nat]
  BY DEF WF, HeapType, MemoryChunk
<1> QED
  BY <1>1 DEF Mark, MemoryChunk, MarkedAt

LEMMA MarkWF ==
    ASSUME NEW h, WF(h), NEW c \in DOMAIN h, NEW b \in BOOLEAN
    PROVE  WF(Mark(h, c, b))
<1> DEFINE m == Mark(h, c, b)
<1>1. MarkedAt(h, c, b, m)
  BY MarkFields
<1>2. m = [d \in DOMAIN m |-> m[d]]
  BY DEF Mark
<1> HIDE DEF m
<1>3. HeapType(m)
  BY <1>1, <1>2 DEF MarkedAt, WF, HeapType
<1>4. \A d \in DOMAIN h : EndOf(m, d) = EndOf(h, d)
  BY <1>1 DEF MarkedAt, EndOf
<1>5. Disjoint(m) /\ Covered(m)
  BY <1>1, <1>4 DEF MarkedAt, WF, Disjoint, Covered
<1>6. Linked(m)
  BY <1>1, <1>4 DEF MarkedAt, WF, Linked
<1> QED
  BY <1>3, <1>5, <1>6 DEF WF, m

-----------------------------------------------------------------------------
(* free's merge keeps the list well formed.                                *)

\* s is h with the chunk g, which followed c and was followed by x, joined to c.
JoinedAt(h, c, s, g, x) ==
    /\ g \in DOMAIN h /\ g # c /\ x # c /\ x # g
    /\ g = EndOf(h, c)
    /\ DOMAIN s = DOMAIN h \ {g}
    /\ \A d \in DOMAIN s :
         /\ s[d] \in MemoryChunk
         /\ s[d].allocated = h[d].allocated
         /\ s[d].size = IF d = c THEN h[c].size + h[g].size + Hdr ELSE h[d].size
         /\ s[d].next = IF d = c THEN x ELSE h[d].next
         /\ s[d].prev = IF d = x THEN c ELSE h[d].prev

LEMMA AbsorbFields ==
    ASSUME NEW h, WF(h), NEW c \in DOMAIN h, h[c].next # NULL
    PROVE  JoinedAt(h, c, Absorb(h, c), h[c].next, h[h[c].next].next)
<1> DEFINE g == h[c].next
           x == h[g].next
           s == Absorb(h, c)
<1>1. /\ \A d \in DOMAIN h : h[d] \in MemoryChunk /\ d \in Nat \ {0} /\ h[d].size \in Nat
      /\ c \in Nat \ {0} /\ Hdr \in Nat \ {0}
      /\ g \in DOMAIN h
  BY HeapAssumption DEF WF, HeapType, Linked, MemoryChunk, HeapEnd
<1>2. g = EndOf(h, c) /\ c < g /\ x \in Nat
  BY <1>1 DEF WF, Linked, EndOf, MemoryChunk
<1>3. x # NULL => x = EndOf(h, g) /\ g < x
  BY <1>1, <1>2 DEF WF, Linked, EndOf, NULL
<1>4. g # c /\ x # c /\ x # g
  BY <1>1, <1>2, <1>3 DEF NULL
<1>5. DOMAIN s = DOMAIN h \ {g}
  BY DEF Absorb
<1>6. ASSUME NEW d \in DOMAIN s
      PROVE  /\ s[d] \in MemoryChunk
             /\ s[d].allocated = h[d].allocated
             /\ s[d].size = IF d = c THEN h[c].size + h[g].size + Hdr ELSE h[d].size
             /\ s[d].next = IF d = c THEN x ELSE h[d].next
             /\ s[d].prev = IF d = x THEN c ELSE h[d].prev
  <2>1. s[d] = IF d = c THEN [h[d] EXCEPT !.next = x,
                                         !.size = @ + h[g].size + Hdr]
               ELSE IF d = x THEN [h[d] EXCEPT !.prev = c] ELSE h[d]
    BY DEF Absorb
  <2>2. h[d] \in [next : Nat, prev : Nat, allocated : BOOLEAN, size : Nat]
    BY <1>1, <1>5 DEF MemoryChunk
  <2>3. c \in Nat /\ x \in Nat /\ x # c /\ h[g].size \in Nat /\ Hdr \in Nat
    BY <1>1, <1>2, <1>4
  <2> HIDE DEF s, g, x
  <2>4. CASE d = c
    <3> DEFINE k == h[c].size + h[g].size + Hdr
    <3>1. k \in Nat
      BY <1>1, <2>3
    <3>2. s[d] = [h[d] EXCEPT !.next = x, !.size = k]
      BY <2>1, <2>4
    <3> HIDE DEF k
    <3>3. /\ s[d] \in MemoryChunk /\ s[d].size = k /\ s[d].next = x
          /\ s[d].prev = h[d].prev /\ s[d].allocated = h[d].allocated
      BY <2>2, <2>3, <3>1, <3>2 DEF MemoryChunk
    <3> QED
      BY <2>3, <2>4, <3>3 DEF k
  <2>5. CASE d # c
    BY <2>1, <2>2, <2>3, <2>5 DEF MemoryChunk
  <2> QED
    BY <2>4, <2>5
<1> QED
  BY <1>1, <1>2, <1>4, <1>5, <1>6 DEF JoinedAt

LEMMA AbsorbWF ==
    ASSUME NEW h, WF(h), NEW c \in DOMAIN h, h[c].next # NULL
    PROVE  WF(Absorb(h, c))
<1> DEFINE g == h[c].next
           x == h[g].next
           s == Absorb(h, c)
<1>0. JoinedAt(h, c, s, g, x)
  BY AbsorbFields
<1>1. s = [d \in DOMAIN s |-> s[d]]
  BY DEF Absorb
<1>2. /\ \A d \in DOMAIN h : /\ d \in Nat \ {0} /\ h[d].size \in Nat
                             /\ h[d].next \in Nat /\ h[d].prev \in Nat
      /\ c \in Nat \ {0} /\ HeapEnd \in Nat /\ HeapStart \in Nat
      /\ Hdr \in Nat \ {0}
      /\ h[g].prev = c
  BY HeapAssumption DEF WF, HeapType, Linked, MemoryChunk, HeapEnd
<1>3. IF x = NULL THEN EndOf(h, g) = HeapEnd
      ELSE x \in DOMAIN h /\ x = EndOf(h, g) /\ h[x].prev = g
  BY <1>0 DEF JoinedAt, WF, Linked
<1> HIDE DEF s, g, x
<1>4. HeapType(s)
  BY <1>0, <1>1 DEF JoinedAt, WF, HeapType
<1>5. /\ EndOf(s, c) = EndOf(h, g)
      /\ \A d \in DOMAIN s : d # c => EndOf(s, d) = EndOf(h, d)
      /\ \A d \in DOMAIN h : EndOf(h, d) \in Nat /\ d < EndOf(h, d)
  BY <1>0, <1>2 DEF JoinedAt, EndOf
<1>6. Disjoint(s)
  <2> SUFFICES ASSUME NEW d \in DOMAIN s, NEW e \in DOMAIN s, d < e
               PROVE  EndOf(s, d) <= e
    BY DEF Disjoint
  <2>1. CASE d = c
    <3>1. g <= e /\ e # g
      BY <2>1, <1>0 DEF JoinedAt, WF, Disjoint
    <3>2. EndOf(h, g) <= e
      BY <3>1, <1>0, <1>2 DEF JoinedAt, WF, Disjoint
    <3> QED
      BY <2>1, <3>2, <1>5
  <2>2. CASE d # c
    BY <2>2, <1>0, <1>5 DEF JoinedAt, WF, Disjoint
  <2> QED
    BY <2>1, <2>2
<1>7. Covered(s)
  <2>1. \A d \in DOMAIN s : HeapStart <= d /\ EndOf(s, d) <= HeapEnd
    BY <1>0, <1>5 DEF JoinedAt, WF, Covered
  <2>2. ASSUME NEW a \in HeapStart..(HeapEnd - 1)
        PROVE  \E d \in DOMAIN s : d <= a /\ a < EndOf(s, d)
    <3>1. PICK d \in DOMAIN h : d <= a /\ a < EndOf(h, d)
      BY DEF WF, Covered
    <3>2. c \in DOMAIN s /\ c < g /\ g \in Nat /\ g \in DOMAIN h /\ g = EndOf(h, c)
      BY <1>0, <1>2, <1>5 DEF JoinedAt
    <3>3. CASE d = c \/ d = g
      BY <3>1, <3>2, <3>3, <1>2, <1>5
    <3>4. CASE d # c /\ d # g
      BY <3>1, <3>4, <1>0, <1>5 DEF JoinedAt
    <3> QED
      BY <3>3, <3>4
  <2> QED
    BY <2>1, <2>2 DEF Covered
<1>8. Linked(s)
  <2>1. HeapStart \in DOMAIN s
    <3>1. g # HeapStart
      BY <1>0, <1>2, <1>5 DEF JoinedAt, WF, Covered
    <3> QED
      BY <3>1, <1>0 DEF JoinedAt, WF, Linked
  <2>2. ASSUME NEW d \in DOMAIN s
        PROVE  IF s[d].next = NULL
               THEN EndOf(s, d) = HeapEnd
               ELSE /\ s[d].next \in DOMAIN s
                    /\ s[d].next = EndOf(s, d)
                    /\ s[s[d].next].prev = d
    <3>1. CASE d = c
      BY <3>1, <1>0, <1>3, <1>5 DEF JoinedAt
    <3>2. CASE d # c
      <4>1. d \in DOMAIN h /\ s[d].next = h[d].next /\ EndOf(s, d) = EndOf(h, d)
        BY <3>2, <1>0, <1>5 DEF JoinedAt
      <4>2. CASE h[d].next = NULL
        BY <4>1, <4>2 DEF WF, Linked
      <4>3. CASE h[d].next # NULL
        <5>1. /\ h[d].next \in DOMAIN h /\ h[d].next = EndOf(h, d)
              /\ h[h[d].next].prev = d
          BY <4>1, <4>3 DEF WF, Linked
        <5>2. h[d].next # g
          BY <5>1, <3>2, <1>2
        <5>3. h[d].next # x
          BY <5>1, <4>3, <1>3, <1>0 DEF JoinedAt
        <5> QED
          BY <5>1, <5>2, <5>3, <4>1, <4>3, <1>0 DEF JoinedAt
      <4> QED
        BY <4>2, <4>3
    <3> QED
      BY <3>1, <3>2
  <2>3. ASSUME NEW d \in DOMAIN s
        PROVE  IF s[d].prev = NULL
               THEN d = HeapStart
               ELSE s[d].prev \in DOMAIN s /\ s[s[d].prev].next = d
    <3>1. CASE d = x
      BY <3>1, <1>0, <1>2 DEF JoinedAt, NULL
    <3>2. CASE d # x
      <4>1. d \in DOMAIN h /\ d # g /\ s[d].prev = h[d].prev
        BY <3>2, <1>0 DEF JoinedAt
      <4>2. CASE h[d].prev = NULL
        BY <4>1, <4>2 DEF WF, Linked
      <4>3. CASE h[d].prev # NULL
        <5>1. h[d].prev \in DOMAIN h /\ h[h[d].prev].next = d
          BY <4>1, <4>3 DEF WF, Linked
        <5>2. h[d].prev # g /\ h[d].prev # c
          BY <5>1, <3>2, <4>1 DEF x, g
        <5> QED
          BY <5>1, <5>2, <4>1, <4>3, <1>0 DEF JoinedAt
      <4> QED
        BY <4>2, <4>3
    <3> QED
      BY <3>1, <3>2
  <2> QED
    BY <2>1, <2>2, <2>3 DEF Linked
<1> QED
  BY <1>4, <1>6, <1>7, <1>8 DEF WF, s

-----------------------------------------------------------------------------
(* malloc and free on the whole list: what they do to the marks, and that  *)
(* they leave no two free neighbours.                                      *)

\* The chunks other than c that were taken still are, with their sizes, and
\* no others are.
Bystanders(h, r, c) ==
    /\ Taken(r) \ {c} = Taken(h) \ {c}
    /\ \A d \in Taken(h) \ {c} : r[d].size = h[d].size

\* Only c and the chunk behind it may be free neighbours.
SeparatedBut(h, c) ==
    \A d \in DOMAIN h \ {c} : IsFree(h, d) => ~IsFree(h, h[d].next)

\* An address of the heap is not NULL, and links meet only where they should.
LEMMA Neighbours ==
    ASSUME NEW h, WF(h), NEW d \in DOMAIN h
    PROVE  /\ d # NULL
           /\ h[d].next # NULL => /\ h[d].next \in DOMAIN h /\ h[d].next # d
                                 /\ h[h[d].next].prev = d
           /\ h[d].prev # NULL => /\ h[d].prev \in DOMAIN h /\ h[d].prev # d
                                 /\ h[h[d].prev].next = d
           /\ h[d].allocated \in BOOLEAN
<1>1. /\ \A e \in DOMAIN h : e \in Nat \ {0} /\ h[e].size \in Nat
      /\ Hdr \in Nat \ {0} /\ h[d].allocated \in BOOLEAN
  BY HeapAssumption DEF WF, HeapType, MemoryChunk, HeapEnd
<1> QED
  BY <1>1 DEF WF, Linked, EndOf, NULL

LEMMA TakeSound ==
    ASSUME NEW h, WF(h), Separated(h), NEW n \in Nat, NEW c \in Fitting(h, n)
    PROVE  /\ WF(Take(h, c, n))
           /\ Separated(Take(h, c, n))
           /\ Taken(Take(h, c, n)) = Taken(h) \cup {c}
           /\ c \notin Taken(h)
           /\ Bystanders(h, Take(h, c, n), c)
           /\ Take(h, c, n)[c].size \in n..(n + Hdr)
           /\ Take(h, c, n)[c].size <= h[c].size
<1> DEFINE cut == IF CanSplit(h, c, n) THEN Split(h, c, n) ELSE h
           r == Take(h, c, n)
<1>1. /\ c \in DOMAIN h /\ h[c].size > n /\ h[c].allocated = FALSE
      /\ h[c].size \in Nat /\ Hdr \in Nat \ {0} /\ c \in Nat
  BY HeapAssumption DEF Fitting, Fits, WF, HeapType, MemoryChunk, HeapEnd
<1>2. WF(cut)
  BY <1>1, SplitWF
<1>3. c \in DOMAIN cut
  <2>1. CASE CanSplit(h, c, n)
    <3>1. SplitAt(h, c, n, cut, c + Hdr + n, h[c].next)
      BY <1>1, <2>1, SplitFields
    <3> QED
      BY <1>1, <3>1 DEF SplitAt
  <2>2. CASE ~CanSplit(h, c, n)
    BY <1>1, <2>2
  <2> QED
    BY <2>1, <2>2
<1>4. r = Mark(cut, c, TRUE)
  BY DEF Take, Mark
<1> HIDE DEF cut, r
<1>5. WF(r)
  BY <1>2, <1>3, <1>4, MarkWF
<1>6. /\ DOMAIN r = DOMAIN cut
      /\ \A d \in DOMAIN cut :
          /\ r[d].size = cut[d].size
          /\ r[d].next = cut[d].next
          /\ r[d].allocated = IF d = c THEN TRUE ELSE cut[d].allocated
  <2>1. MarkedAt(cut, c, TRUE, r)
    BY <1>2, <1>3, <1>4, MarkFields
  <2> QED
    BY <2>1 DEF MarkedAt
<1>7. CASE CanSplit(h, c, n)
  <2> DEFINE t == c + Hdr + n
             x == h[c].next
  <2>1. SplitAt(h, c, n, cut, t, x)
    BY <1>1, <1>7, SplitFields DEF cut
  <2>2. cut[t].allocated = FALSE /\ cut[t].next = x /\ t # NULL /\ t # c
    BY <2>1, <1>1 DEF SplitAt, NULL
  <2> HIDE DEF t, x
  <2>3. Taken(r) = Taken(h) \cup {c} /\ c \notin Taken(h)
    <3>1. ASSUME NEW d PROVE d \in Taken(r) <=> d \in Taken(h) \cup {c}
      <4>1. CASE d = t
        BY <4>1, <2>1, <2>2, <1>1, <1>6 DEF SplitAt, Taken
      <4>2. CASE d # t
        BY <4>2, <2>1, <1>1, <1>6 DEF SplitAt, Taken
      <4> QED
        BY <4>1, <4>2
    <3> QED
      BY <3>1, <1>1 DEF Taken
  <2>4. r[c].size = n /\ n <= h[c].size
    <3>1. cut[c].size = n
      BY <2>1, <1>1 DEF SplitAt
    <3>2. r[c].size = cut[c].size
      BY <1>3, <1>6
    <3>3. n <= h[c].size
      BY <1>1
    <3> QED
      BY <3>1, <3>2, <3>3
  <2>5. Bystanders(h, r, c)
    BY <2>1, <2>3, <1>6 DEF SplitAt, Bystanders, Taken
  <2>6. Separated(r)
    <3> SUFFICES ASSUME NEW d \in DOMAIN r, IsFree(r, d), IsFree(r, r[d].next)
                 PROVE  FALSE
      BY DEF Separated
    <3>1. d # c /\ r[d].next # c /\ r[d].next # NULL
      BY <1>3, <1>6 DEF IsFree
    <3>2. CASE d = t
      <4>1. r[d].next = x /\ x # t
        <5>1. r[t].next = x
          BY <2>1, <2>2, <1>6 DEF SplitAt
        <5> QED
          BY <3>1, <3>2, <5>1, <1>5, Neighbours
      <4>2. x \in DOMAIN h /\ x # c /\ ~h[x].allocated
        <5>1. x \in DOMAIN h
          BY <4>1, <3>1, <1>1, Neighbours DEF x
        <5>2. x \in DOMAIN cut /\ cut[x].allocated = h[x].allocated
          BY <5>1, <2>1 DEF SplitAt
        <5> QED
          BY <5>1, <5>2, <4>1, <3>1, <1>6 DEF IsFree
      <4> QED
        BY <4>2, <4>1, <3>1, <1>1, Neighbours DEF Separated, IsFree, x
    <3>3. CASE d # t
      <4>1. d \in DOMAIN h /\ r[d].next = h[d].next /\ ~h[d].allocated
        BY <3>1, <3>3, <2>1, <1>6 DEF SplitAt, IsFree
      <4>2. h[d].next \in DOMAIN h
        BY <4>1, <3>1, Neighbours
      <4>3. ~h[h[d].next].allocated
        <5>1. /\ h[d].next \in DOMAIN cut
              /\ cut[h[d].next].allocated = h[h[d].next].allocated
          BY <4>2, <2>1 DEF SplitAt
        <5> QED
          BY <5>1, <4>1, <3>1, <1>6 DEF IsFree
      <4> QED
        BY <4>1, <4>2, <4>3, Neighbours DEF Separated, IsFree
    <3> QED
      BY <3>2, <3>3
  <2> QED
    BY <2>3, <2>4, <2>5, <2>6, <1>1, <1>5 DEF r
<1>8. CASE ~CanSplit(h, c, n)
  <2>1. cut = h
    BY <1>8 DEF cut
  <2>2. Taken(r) = Taken(h) \cup {c} /\ c \notin Taken(h)
    BY <2>1, <1>1, <1>6 DEF Taken
  <2>3. Bystanders(h, r, c)
    BY <2>1, <2>2, <1>6 DEF Bystanders, Taken
  <2>4. r[c].size \in n..(n + Hdr) /\ r[c].size <= h[c].size
    <3>1. r[c].size = h[c].size
      BY <2>1, <1>1, <1>6
    <3>2. ~(h[c].size >= n + Hdr + 1)
      BY <1>8 DEF CanSplit
    <3> QED
      BY <3>1, <3>2, <1>1
  <2>5. Separated(r)
    <3> SUFFICES ASSUME NEW d \in DOMAIN r, IsFree(r, d), IsFree(r, r[d].next)
                 PROVE  FALSE
      BY DEF Separated
    <3>1. /\ d \in DOMAIN h /\ r[d].next = h[d].next /\ ~h[d].allocated
          /\ h[d].next # NULL
      BY <2>1, <1>6 DEF IsFree
    <3>2. h[d].next \in DOMAIN h
      BY <3>1, Neighbours
    <3>3. ~h[h[d].next].allocated
      BY <3>1, <3>2, <2>1, <1>6 DEF IsFree
    <3> QED
      BY <3>1, <3>3, Neighbours DEF Separated, IsFree
  <2> QED
    BY <2>2, <2>3, <2>4, <2>5, <1>5 DEF r
<1> QED
  BY <1>7, <1>8

LEMMA AbsorbSound ==
    ASSUME NEW h, WF(h), NEW c \in DOMAIN h, SeparatedBut(h, c),
           ~h[c].allocated, IsFree(h, h[c].next)
    PROVE  /\ WF(Absorb(h, c))
           /\ Separated(Absorb(h, c))
           /\ Taken(Absorb(h, c)) = Taken(h)
           /\ \A d \in Taken(h) : Absorb(h, c)[d].size = h[d].size
<1> DEFINE g == h[c].next
           x == h[g].next
           r == Absorb(h, c)
<1>1. g # NULL /\ ~h[g].allocated /\ h[g].prev = c /\ g \in DOMAIN h /\ g # c
  BY Neighbours DEF IsFree
<1>2. WF(r)
  BY <1>1, AbsorbWF
<1>3. JoinedAt(h, c, r, g, x)
  BY <1>1, AbsorbFields
<1> HIDE DEF g, x, r
<1>4. Taken(r) = Taken(h)
  BY <1>1, <1>3 DEF JoinedAt, Taken
<1>5. \A d \in Taken(h) : r[d].size = h[d].size
  BY <1>1, <1>3 DEF JoinedAt, Taken
<1>6. Separated(r)
  <2> SUFFICES ASSUME NEW d \in DOMAIN r, IsFree(r, d), IsFree(r, r[d].next)
               PROVE  FALSE
    BY DEF Separated
  <2>1. r[d].next # NULL /\ r[d].next \in DOMAIN r
    BY <1>2, Neighbours DEF IsFree
  <2>2. CASE d = c
    <3>1. r[d].next = x /\ ~h[x].allocated
      BY <2>1, <2>2, <1>3 DEF JoinedAt, IsFree
    <3> QED
      BY <3>1, <2>1, <1>1 DEF SeparatedBut, IsFree, x
  <2>3. CASE d # c
    <3>1. d \in DOMAIN h /\ r[d].next = h[d].next /\ ~h[d].allocated
      BY <2>3, <1>3 DEF JoinedAt, IsFree
    <3>2. ~h[h[d].next].allocated
      BY <3>1, <2>1, <1>3 DEF JoinedAt, IsFree
    <3> QED
      BY <3>1, <3>2, <2>1, <2>3, Neighbours DEF SeparatedBut, IsFree
  <2> QED
    BY <2>2, <2>3
<1> QED
  BY <1>2, <1>4, <1>5, <1>6 DEF r

LEMMA AbsorbNextSound ==
    ASSUME NEW h, WF(h), NEW c \in DOMAIN h, SeparatedBut(h, c), ~h[c].allocated
    PROVE  /\ WF(AbsorbNext(h, c))
           /\ Separated(AbsorbNext(h, c))
           /\ Taken(AbsorbNext(h, c)) = Taken(h)
           /\ \A d \in Taken(h) : AbsorbNext(h, c)[d].size = h[d].size
<1>1. CASE IsFree(h, h[c].next)
  BY <1>1, AbsorbSound DEF AbsorbNext
<1>2. CASE ~IsFree(h, h[c].next)
  BY <1>2 DEF AbsorbNext, Separated, SeparatedBut
<1> QED
  BY <1>1, <1>2

LEMMA ReleaseSound ==
    ASSUME NEW h, WF(h), Separated(h), NEW c \in Taken(h)
    PROVE  /\ WF(Release(h, c))
           /\ Separated(Release(h, c))
           /\ Taken(Release(h, c)) = Taken(h) \ {c}
           /\ Bystanders(h, Release(h, c), c)
<1> DEFINE u == Unmark(h, c)
           p == h[c].prev
           a == Absorb(u, p)
           r == Release(h, c)
<1>1. c \in DOMAIN h /\ h[c].allocated
  BY DEF Taken
<1>2. WF(u) /\ MarkedAt(h, c, FALSE, u)
  BY <1>1, MarkWF, MarkFields DEF Unmark, Mark
<1> HIDE DEF u
<1>3. /\ DOMAIN u = DOMAIN h /\ ~u[c].allocated
      /\ \A d \in DOMAIN h : /\ u[d].next = h[d].next /\ u[d].size = h[d].size
                             /\ d # c => u[d].allocated = h[d].allocated
  BY <1>1, <1>2 DEF MarkedAt
<1>4. Taken(u) = Taken(h) \ {c} /\ \A d \in Taken(u) : u[d].size = h[d].size
  BY <1>3 DEF Taken
<1>5. ASSUME NEW d \in DOMAIN u, IsFree(u, d), IsFree(u, u[d].next),
             d # c
      PROVE  u[d].next = c
  <2>1. d \in DOMAIN h /\ ~h[d].allocated /\ h[d].next # NULL /\ h[d].next = u[d].next
    BY <1>3, <1>5 DEF IsFree
  <2>2. h[d].next \in DOMAIN h /\ d # NULL
    BY <2>1, Neighbours
  <2>3. h[h[d].next].allocated
    BY <2>1, <2>2 DEF Separated, IsFree
  <2> QED
    BY <2>1, <2>2, <2>3, <1>3, <1>5 DEF IsFree
<1>6. CASE IsFree(h, p)
  <2>1. /\ p # NULL /\ p \in DOMAIN h /\ p # c /\ h[p].next = c /\ ~h[p].allocated
        /\ c # NULL
    BY <1>1, <1>6, Neighbours DEF IsFree
  <2>2. /\ p \in DOMAIN u /\ u[p].next = c /\ u[p].next # NULL /\ ~u[p].allocated
    BY <2>1, <1>3
  <2> HIDE DEF p
  <2>3. WF(a) /\ JoinedAt(u, p, a, c, u[c].next)
    BY <2>2, <1>2, AbsorbWF, AbsorbFields
  <2> HIDE DEF a
  <2>4. p \in DOMAIN a /\ ~a[p].allocated
    BY <2>2, <2>3 DEF JoinedAt
  <2>5. Taken(a) = Taken(u) /\ \A d \in Taken(u) : a[d].size = u[d].size
    BY <2>2, <2>3, <1>3 DEF JoinedAt, Taken
  <2>6. SeparatedBut(a, p)
    <3> SUFFICES ASSUME NEW d \in DOMAIN a \ {p}, IsFree(a, d), IsFree(a, a[d].next)
                 PROVE  FALSE
      BY DEF SeparatedBut
    <3>1. d \in DOMAIN u /\ d # c /\ IsFree(u, d) /\ a[d].next = u[d].next
      BY <2>3 DEF JoinedAt, IsFree
    <3>2. u[d].next # NULL /\ u[d].next \in DOMAIN a
      BY <3>1, <2>3, Neighbours DEF IsFree
    <3>3. IsFree(u, u[d].next)
      BY <3>1, <3>2, <2>3 DEF JoinedAt, IsFree
    <3>4. u[d].next = c
      BY <3>1, <3>3, <1>5
    <3> QED
      BY <3>2, <3>4, <2>3 DEF JoinedAt
  <2>7. r = AbsorbNext(a, p)
    BY <1>6 DEF Release, u, a, p
  <2> HIDE DEF r
  <2>8. /\ WF(r) /\ Separated(r) /\ Taken(r) = Taken(a)
        /\ \A d \in Taken(a) : r[d].size = a[d].size
    BY <2>3, <2>4, <2>6, <2>7, AbsorbNextSound
  <2> QED
    BY <2>5, <2>8, <1>4 DEF Bystanders, r
<1>7. CASE ~IsFree(h, p)
  <2>1. SeparatedBut(u, c)
    <3> SUFFICES ASSUME NEW d \in DOMAIN u \ {c}, IsFree(u, d), IsFree(u, u[d].next)
                 PROVE  FALSE
      BY DEF SeparatedBut
    <3>1. d \in DOMAIN h /\ h[d].next = c /\ ~h[d].allocated /\ d # NULL
      BY <1>3, <1>5 DEF IsFree
    <3>2. p = d
      BY <3>1, <1>1, Neighbours
    <3> QED
      BY <3>1, <3>2, <1>7 DEF IsFree
  <2>2. r = AbsorbNext(u, c)
    BY <1>7 DEF Release, u
  <2> HIDE DEF r, p
  <2>3. /\ WF(r) /\ Separated(r) /\ Taken(r) = Taken(u)
        /\ \A d \in Taken(u) : r[d].size = u[d].size
    BY <2>1, <2>2, <1>1, <1>2, <1>3, AbsorbNextSound
  <2> QED
    BY <2>3, <1>4 DEF Bystanders, r
<1> QED
  BY <1>6, <1>7

-----------------------------------------------------------------------------
(* The calls, on the heap together with what the callers hold.             *)

Good(h, l) ==
    /\ WF(h)
    /\ Separated(h)
    /\ l \in [DOMAIN l -> Nat]
    /\ Holds(h, l)

LEMMA MallocGood ==
    ASSUME NEW h, NEW l, Good(h, l), NEW n \in Nat, NEW m \in MallocOutcome(h, n)
    PROVE  /\ Good(m.heap, Hold(l, m.ret, n))
           /\ m.ret \in Nat
           /\ DOMAIN l \subseteq DOMAIN Hold(l, m.ret, n)
<1>1. CASE Fitting(h, n) = {}
  <2>1. m = [heap |-> h, ret |-> NULL]
    BY <1>1 DEF MallocOutcome
  <2> QED
    BY <2>1 DEF Hold, NULL
<1>2. CASE Fitting(h, n) # {}
  <2>1. PICK c \in FirstFit(h, n) : m = [heap |-> Take(h, c, n), ret |-> c + Hdr]
    BY <1>2 DEF MallocOutcome
  <2> DEFINE r == Take(h, c, n)
             q == Hold(l, c + Hdr, n)
  <2>2. c \in Fitting(h, n)
    BY DEF FirstFit
  <2>3. /\ WF(r) /\ Separated(r) /\ Taken(r) = Taken(h) \cup {c} /\ c \notin Taken(h)
        /\ Bystanders(h, r, c) /\ r[c].size \in n..(n + Hdr)
    BY <2>2, TakeSound DEF Good
  <2>4. /\ c \in Nat \ {0} /\ Hdr \in Nat \ {0}
        /\ \A d \in Taken(h) : d \in Nat
    BY <2>2, HeapAssumption DEF Fitting, Good, WF, HeapType, HeapEnd, Taken
  <2>5. c + Hdr # NULL
    BY <2>4 DEF NULL
  <2>6. /\ DOMAIN q = DOMAIN l \cup {c + Hdr}
        /\ \A p \in DOMAIN q : q[p] = IF p = c + Hdr THEN n ELSE l[p]
        /\ q = [p \in DOMAIN q |-> q[p]]
    BY <2>5 DEF Hold
  <2> HIDE DEF r, q
  <2>7. q \in [DOMAIN q -> Nat]
    BY <2>6 DEF Good
  <2>8. DOMAIN q = {d + Hdr : d \in Taken(r)}
    BY <2>3, <2>6 DEF Good, Holds
  <2>9. ASSUME NEW p \in DOMAIN q
        PROVE  r[p - Hdr].size >= q[p] /\ r[p - Hdr].size <= q[p] + Hdr
    <3>1. CASE p = c + Hdr
      BY <3>1, <2>3, <2>4, <2>6
    <3>2. CASE p # c + Hdr
      <4>1. PICK d \in Taken(h) : p = d + Hdr
        BY <3>2, <2>6 DEF Good, Holds
      <4>2. p - Hdr = d /\ d # c
        BY <4>1, <2>3, <2>4
      <4>3. r[d].size = h[d].size
        BY <4>2, <2>3 DEF Bystanders
      <4> QED
        BY <4>2, <4>3, <3>2, <2>6 DEF Good, Holds
    <3> QED
      BY <3>1, <3>2
  <2>10. Good(r, q)
    BY <2>3, <2>7, <2>8, <2>9 DEF Good, Holds
  <2> QED
    BY <2>1, <2>4, <2>6, <2>10 DEF r, q
<1> QED
  BY <1>1, <1>2

LEMMA FreeGood ==
    ASSUME NEW h, NEW l, Good(h, l), NEW p \in DOMAIN l
    PROVE  Good(Release(h, p - Hdr), Drop(l, p))
<1>1. PICK c \in Taken(h) : p = c + Hdr
  BY DEF Good, Holds
<1>2. Hdr \in Nat /\ \A d \in Taken(h) : d \in Nat
  BY HeapAssumption DEF Good, WF, HeapType, HeapEnd, Taken
<1>3. p - Hdr = c
  BY <1>1, <1>2
<1> DEFINE r == Release(h, c)
           q == Drop(l, p)
<1>4. /\ WF(r) /\ Separated(r) /\ Taken(r) = Taken(h) \ {c}
      /\ Bystanders(h, r, c)
  BY ReleaseSound DEF Good
<1>5. /\ DOMAIN q = DOMAIN l \ {p}
      /\ \A x \in DOMAIN q : q[x] = l[x]
      /\ q = [x \in DOMAIN q |-> q[x]]
  BY DEF Drop
<1> HIDE DEF r, q
<1>6. q \in [DOMAIN q -> Nat]
  BY <1>5 DEF Good
<1>7. DOMAIN q = {d + Hdr : d \in Taken(r)}
  BY <1>1, <1>2, <1>4, <1>5 DEF Good, Holds
<1>8. ASSUME NEW x \in DOMAIN q
      PROVE  r[x - Hdr].size >= q[x] /\ r[x - Hdr].size <= q[x] + Hdr
  <2>1. PICK d \in Taken(h) \ {c} : x = d + Hdr
    BY <1>4, <1>7
  <2>2. x - Hdr = d /\ r[d].size = h[d].size
    BY <2>1, <1>2, <1>4 DEF Bystanders
  <2> QED
    BY <2>2, <1>5 DEF Good, Holds
<1> QED
  BY <1>3, <1>4, <1>6, <1>7, <1>8 DEF Good, Holds, r, q

-----------------------------------------------------------------------------
(* The invariant.                                                          *)

IInv == TypeOK /\ HeapTiled /\ Coalesced /\ LiveBlocksSound

LEMMA PointersInside ==
    ASSUME NEW h, NEW l, Good(h, l)
    PROVE  DOMAIN l \subseteq HeapStart..HeapEnd
<1>1. /\ DOMAIN h \subseteq HeapStart..HeapEnd
      /\ HeapStart \in Nat /\ HeapEnd \in Nat /\ Hdr \in Nat
      /\ \A c \in DOMAIN h : h[c].size \in Nat /\ EndOf(h, c) <= HeapEnd
  BY HeapAssumption DEF Good, WF, HeapType, Covered, HeapEnd, MemoryChunk
<1>2. \A c \in DOMAIN h : c + Hdr \in HeapStart..HeapEnd
  BY <1>1 DEF EndOf
<1> QED
  BY <1>2 DEF Good, Holds, Taken

LEMMA InvIsGood == IInv <=> Good(heap, live) /\ call \in Calls
<1>1. IInv => Good(heap, live) /\ call \in Calls
  BY DEF IInv, TypeOK, HeapTiled, Coalesced, LiveBlocksSound, Good, WF
<1>2. ASSUME Good(heap, live), call \in Calls
      PROVE  IInv
  BY <1>2, PointersInside
     DEF IInv, TypeOK, HeapTiled, Coalesced, LiveBlocksSound, Good, WF
<1> QED
  BY <1>1, <1>2

LEMMA InitGood == Init => IInv
<1> SUFFICES ASSUME Init
             PROVE  IInv
  OBVIOUS
<1>1. /\ HeapStart \in Nat \ {0} /\ HeapSize - Hdr \in Nat /\ Hdr \in Nat
      /\ HeapEnd \in Nat /\ HeapStart \in HeapStart..HeapEnd
      /\ HeapStart + Hdr + (HeapSize - Hdr) = HeapEnd
  BY HeapAssumption DEF HeapEnd
<1>2. /\ DOMAIN heap = {HeapStart}
      /\ heap[HeapStart] = [next |-> NULL, prev |-> NULL, allocated |-> FALSE,
                            size |-> HeapSize - Hdr]
      /\ heap = [c \in DOMAIN heap |-> heap[c]]
  BY DEF Init, InitHeap
<1>3. HeapType(heap)
  <2>1. heap[HeapStart] \in MemoryChunk
    BY <1>1, <1>2 DEF MemoryChunk, NULL
  <2>2. \A c \in DOMAIN heap : heap[c] \in MemoryChunk
    BY <2>1, <1>2
  <2> QED
    BY <1>1, <1>2, <2>2 DEF HeapType
<1>4. EndOf(heap, HeapStart) = HeapEnd
  BY <1>1, <1>2 DEF EndOf
<1>5. Linked(heap) /\ Disjoint(heap) /\ Covered(heap)
  BY <1>1, <1>2, <1>4 DEF Linked, Disjoint, Covered
<1>6. Separated(heap) /\ Taken(heap) = {}
  BY <1>2 DEF Separated, Taken, IsFree
<1>7. live \in [DOMAIN live -> Nat] /\ DOMAIN live = {}
  BY DEF Init
<1>8. Holds(heap, live)
  BY <1>6, <1>7 DEF Holds
<1>9. call \in Calls
  BY DEF Init, Calls, NULL
<1> QED
  BY <1>3, <1>5, <1>6, <1>7, <1>8, <1>9, InvIsGood DEF Good, WF

LEMMA ProductType == ASSUME NEW k \in Nat, NEW s \in Nat
                     PROVE  (k * s) % SizeMod \in Nat
<1>1. k * s \in Nat
  OBVIOUS
<1> QED
  BY <1>1, HeapAssumption

LEMMA NextGood == IInv /\ [Next]_vars => IInv'
<1> SUFFICES ASSUME IInv, [Next]_vars
             PROVE  Good(heap', live') /\ call' \in Calls
  <2>1. Good(heap', live') => DOMAIN live' \subseteq HeapStart..HeapEnd
    BY PointersInside
  <2> QED
    BY <2>1 DEF IInv, TypeOK, HeapTiled, Coalesced, LiveBlocksSound, Good, WF
<1>0. Good(heap, live) /\ call \in Calls
  BY InvIsGood
<1>1. ASSUME NEW n \in Sizes, Malloc(n)
      PROVE  Good(heap', live') /\ call' \in Calls
  BY <1>0, <1>1, MallocGood, HeapAssumption DEF Malloc, Calls
<1>2. ASSUME NEW k \in Counts, NEW s \in Sizes, Calloc(k, s)
      PROVE  Good(heap', live') /\ call' \in Calls
  <2>1. (k * s) % SizeMod \in Nat
    BY HeapAssumption, ProductType
  <2> QED
    BY <1>0, <1>2, <2>1, MallocGood DEF Calloc, Calls
<1>3. ASSUME NEW p \in DOMAIN live, Free(p)
      PROVE  Good(heap', live') /\ call' \in Calls
  BY <1>0, <1>3, FreeGood DEF Free, Calls, NULL
<1>4. ASSUME NEW p \in DOMAIN live, NEW n \in Sizes, Realloc(p, n)
      PROVE  Good(heap', live') /\ call' \in Calls
  <2>1. PICK m \in MallocOutcome(heap, n) :
          /\ heap' = Release(m.heap, p - Hdr)
          /\ live' = Drop(Hold(live, m.ret, n), p)
          /\ call' = [op |-> "realloc", size |-> n, ret |-> m.ret]
    BY <1>4 DEF Realloc
  <2>2. /\ Good(m.heap, Hold(live, m.ret, n)) /\ m.ret \in Nat
        /\ p \in DOMAIN Hold(live, m.ret, n)
    BY <1>0, MallocGood, HeapAssumption
  <2>3. Good(heap', live')
    BY <2>1, <2>2, FreeGood
  <2> QED
    BY <2>1, <2>2, <2>3, HeapAssumption DEF Calls
<1>5. CASE UNCHANGED vars
  BY <1>0, <1>5 DEF vars
<1> QED
  BY <1>1, <1>2, <1>3, <1>4, <1>5 DEF Next

\* The chunks tile the heap, no two free chunks are neighbours, and what the
\* callers hold is what is marked as allocated: in every state, for every
\* heap, header and request size.
THEOREM HeapInvariant == Spec => []IInv
<1> QED
  BY InitGood, NextGood, PTL DEF Spec

\* TypeOK, alone.
THEOREM HeapTypeOK == Spec => []TypeOK
<1>1. IInv => TypeOK
  BY DEF IInv
<1> QED
  BY <1>1, HeapInvariant, PTL

\* malloc, calloc, realloc and free never break the tiling of the heap.
THEOREM HeapStaysTiled == Spec => []HeapTiled
<1>1. IInv => HeapTiled
  BY DEF IInv
<1> QED
  BY <1>1, HeapInvariant, PTL

\* free's merging is complete: no two free chunks are ever neighbours.
THEOREM HeapStaysCoalesced == Spec => []Coalesced
<1>1. IInv => Coalesced
  BY DEF IInv
<1> QED
  BY <1>1, HeapInvariant, PTL

\* Every block that a caller holds is allocated, and as large as it asked.
THEOREM LiveBlocksStaySound == Spec => []LiveBlocksSound
<1>1. IInv => LiveBlocksSound
  BY DEF IInv
<1> QED
  BY <1>1, HeapInvariant, PTL

\* Freeing everything makes the heap the one chunk that init_mm made.
THEOREM AllFreedRestores == Spec => []AllFreedRestoresHeap
<1>1. IInv => AllFreedRestoresHeap
  <2> SUFFICES ASSUME IInv, DOMAIN live = {}
               PROVE  heap = InitHeap
    BY DEF AllFreedRestoresHeap
  <2>0. WF(heap) /\ Separated(heap) /\ Holds(heap, live)
    BY InvIsGood DEF Good
  <2>1. \A c \in DOMAIN heap : ~heap[c].allocated
    BY <2>0 DEF Holds, Taken
  <2>2. /\ HeapStart \in DOMAIN heap /\ HeapStart \in Nat \ {0} /\ HeapSize \in Nat
        /\ Hdr \in Nat \ {0}
        /\ \A c \in DOMAIN heap : /\ c \in Nat \ {0} /\ heap[c].size \in Nat
                                  /\ HeapStart <= c /\ EndOf(heap, c) <= HeapEnd
        /\ heap[HeapStart] \in MemoryChunk
    BY <2>0, HeapAssumption DEF WF, Linked, HeapType, Covered, MemoryChunk, HeapEnd
  <2>3. heap[HeapStart].next = NULL
    BY <2>0, <2>1, <2>2, Neighbours DEF Separated, IsFree
  <2>4. EndOf(heap, HeapStart) = HeapEnd
    BY <2>0, <2>2, <2>3 DEF WF, Linked
  <2>5. DOMAIN heap = {HeapStart}
    <3>1. \A c \in DOMAIN heap : ~(HeapStart < c)
      BY <2>0, <2>2, <2>4 DEF WF, Disjoint, EndOf, HeapEnd
    <3>2. \A c \in DOMAIN heap : c = HeapStart
      BY <2>2, <3>1
    <3> QED
      BY <2>2, <3>2
  <2>6. heap[HeapStart].prev = NULL
    BY <2>0, <2>2, <2>5, Neighbours
  <2>7. heap[HeapStart].size = HeapSize - Hdr
    BY <2>2, <2>4 DEF EndOf, HeapEnd
  <2>8. heap[HeapStart] = [next |-> NULL, prev |-> NULL, allocated |-> FALSE,
                          size |-> HeapSize - Hdr]
    BY <2>1, <2>2, <2>3, <2>6, <2>7 DEF MemoryChunk
  <2>9. heap = [c \in DOMAIN heap |-> heap[c]]
    BY <2>0 DEF WF, HeapType
  <2> QED
    BY <2>5, <2>8, <2>9 DEF InitHeap
<1> QED
  BY <1>1, HeapInvariant, PTL

-----------------------------------------------------------------------------
(* The heap implements the arena.                                          *)

\* The granted blocks, as the refinement mapping of Heap.tla sees them.
Blocks(h, l) == [p \in DOMAIN l |-> h[p - Hdr].size]

\* The arena's Vacant, on the bytes of a list of chunks.
VacantIn(h, l, a, len) ==
    /\ HeapStart <= a /\ a + len <= HeapEnd
    /\ \A p \in DOMAIN l : a + len <= p - Hdr \/ p + Blocks(h, l)[p] <= a

\* A live block is a taken chunk, and its bytes are those of the chunk.
LEMMA BlockIsChunk ==
    ASSUME NEW h, NEW l, Good(h, l), NEW p \in DOMAIN l
    PROVE  /\ p - Hdr \in Taken(h)
           /\ p - Hdr \in DOMAIN h
           /\ p \in Nat
           /\ p + Blocks(h, l)[p] = EndOf(h, p - Hdr)
<1>1. PICK c \in Taken(h) : p = c + Hdr
  BY DEF Good, Holds
<1>2. c \in DOMAIN h /\ c \in Nat /\ Hdr \in Nat /\ h[c].size \in Nat
  BY HeapAssumption DEF Good, WF, HeapType, MemoryChunk, HeapEnd, Taken
<1>3. p - Hdr = c
  BY <1>1, <1>2
<1> QED
  BY <1>1, <1>2, <1>3 DEF Blocks, EndOf

LEMMA ChunkIsBlock ==
    ASSUME NEW h, NEW l, Good(h, l), NEW c \in Taken(h)
    PROVE  /\ c + Hdr \in DOMAIN l
           /\ (c + Hdr) - Hdr = c
<1>1. c \in Nat /\ Hdr \in Nat
  BY HeapAssumption DEF Good, WF, HeapType, HeapEnd, Taken
<1> QED
  BY <1>1 DEF Good, Holds

\* The bytes of a free chunk, from its header on, are vacant.
LEMMA FreeChunkVacant ==
    ASSUME NEW h, NEW l, Good(h, l), NEW c \in DOMAIN h, ~h[c].allocated,
           NEW len \in Nat, c + len <= EndOf(h, c)
    PROVE  VacantIn(h, l, c, len)
<1>1. /\ \A d \in DOMAIN h : /\ d \in Nat /\ EndOf(h, d) \in Nat
                             /\ HeapStart <= d /\ EndOf(h, d) <= HeapEnd
      /\ HeapEnd \in Nat /\ HeapStart \in Nat
  BY HeapAssumption DEF Good, WF, HeapType, Covered, MemoryChunk, HeapEnd, EndOf
<1>2. HeapStart <= c /\ c + len <= HeapEnd
  BY <1>1
<1>3. ASSUME NEW p \in DOMAIN l
      PROVE  c + len <= p - Hdr \/ p + Blocks(h, l)[p] <= c
  <2>1. /\ p - Hdr \in DOMAIN h /\ p - Hdr # c
        /\ p + Blocks(h, l)[p] = EndOf(h, p - Hdr)
    BY BlockIsChunk DEF Taken
  <2>2. c < p - Hdr \/ p - Hdr < c
    BY <2>1, <1>1
  <2>3. EndOf(h, c) <= p - Hdr \/ EndOf(h, p - Hdr) <= c
    BY <2>1, <2>2 DEF Good, WF, Disjoint
  <2> QED
    BY <2>1, <2>3, <1>1
<1> QED
  BY <1>2, <1>3 DEF VacantIn

\* Where no chunk fits the request, no run of vacant bytes is long enough: a
\* run would begin in a free chunk and reach into the taken one behind it.
LEMMA NoFitNoRoom ==
    ASSUME NEW h, NEW l, Good(h, l), NEW n \in Nat, Fitting(h, n) = {},
           NEW a \in HeapStart..HeapEnd
    PROVE  ~VacantIn(h, l, a, Hdr + n + 1)
<1> SUFFICES ASSUME VacantIn(h, l, a, Hdr + n + 1)
             PROVE  FALSE
  OBVIOUS
<1>1. /\ \A d \in DOMAIN h : /\ d \in Nat /\ h[d].size \in Nat
                             /\ h[d].allocated \in BOOLEAN
      /\ HeapEnd \in Nat /\ HeapStart \in Nat /\ Hdr \in Nat \ {0}
  BY HeapAssumption DEF Good, WF, HeapType, MemoryChunk, HeapEnd
<1>2. a \in HeapStart..(HeapEnd - 1) /\ a + Hdr + n + 1 <= HeapEnd
  BY <1>1 DEF VacantIn
<1>3. PICK c \in DOMAIN h : c <= a /\ a < EndOf(h, c)
  BY <1>2 DEF Good, WF, Covered
<1>4. ASSUME NEW d \in Taken(h)
      PROVE  a + Hdr + n + 1 <= d \/ EndOf(h, d) <= a
  <2>1. d + Hdr \in DOMAIN l /\ (d + Hdr) - Hdr = d
    BY ChunkIsBlock
  <2>2. (d + Hdr) + Blocks(h, l)[d + Hdr] = EndOf(h, d)
    BY <2>1, BlockIsChunk
  <2>3. a + (Hdr + n + 1) <= d \/ EndOf(h, d) <= a
    BY <2>1, <2>2 DEF VacantIn
  <2> QED
    BY <2>3, <1>1
<1>5. c \notin Taken(h)
  BY <1>1, <1>3, <1>4 DEF Taken, EndOf
<1>6. ~h[c].allocated /\ h[c].size <= n
  BY <1>1, <1>3, <1>5 DEF Taken, Fitting, Fits
<1>7. EndOf(h, c) < a + Hdr + n + 1 /\ EndOf(h, c) < HeapEnd
  BY <1>1, <1>2, <1>3, <1>6 DEF EndOf
<1>8. h[c].next # NULL /\ h[c].next \in DOMAIN h /\ h[c].next = EndOf(h, c)
  BY <1>1, <1>3, <1>7 DEF Good, WF, Linked
<1>9. h[c].next \in Taken(h)
  BY <1>6, <1>8, <1>1, Neighbours DEF Good, Separated, IsFree, Taken
<1>10. EndOf(h, h[c].next) > h[c].next
  BY <1>1, <1>8 DEF EndOf
<1> QED
  BY <1>1, <1>3, <1>4, <1>7, <1>8, <1>9, <1>10 DEF EndOf

LEMMA OutcomeRefused ==
    ASSUME NEW h, NEW l, NEW n \in Nat, Fitting(h, n) = {},
           NEW m \in MallocOutcome(h, n)
    PROVE  m.heap = h /\ m.ret = 0 /\ Hold(l, m.ret, n) = l
BY DEF MallocOutcome, Hold, NULL

\* There is room for n bytes, and outcome m grants a vacant place for them and
\* leaves the other blocks as they are.
GrantIn(h, l, n, m) ==
    /\ \E a \in HeapStart..HeapEnd : VacantIn(h, l, a, Hdr + n + 1)
    /\ m.ret \in HeapStart..HeapEnd
    /\ \E g \in n..(n + Hdr) :
         /\ VacantIn(h, l, m.ret - Hdr, Hdr + g)
         /\ Blocks(m.heap, Hold(l, m.ret, n))
              = [q \in DOMAIN l \cup {m.ret} |->
                   IF q = m.ret THEN g ELSE Blocks(h, l)[q]]

LEMMA OutcomeGranted ==
    ASSUME NEW h, NEW l, Good(h, l), NEW n \in Nat, Fitting(h, n) # {},
           NEW m \in MallocOutcome(h, n)
    PROVE  GrantIn(h, l, n, m)
<1>1. PICK c \in FirstFit(h, n) : m = [heap |-> Take(h, c, n), ret |-> c + Hdr]
  BY DEF MallocOutcome
<1> DEFINE r == Take(h, c, n)
           g == r[c].size
<1>2. c \in Fitting(h, n)
  BY DEF FirstFit
<1>3. /\ c \in DOMAIN h /\ ~h[c].allocated /\ h[c].size > n /\ h[c].size \in Nat
      /\ c \in HeapStart..HeapEnd /\ EndOf(h, c) <= HeapEnd /\ c \in Nat \ {0}
      /\ HeapStart \in Nat /\ HeapEnd \in Nat /\ Hdr \in Nat \ {0}
  BY <1>2, HeapAssumption
     DEF Fitting, Fits, Good, WF, HeapType, Covered, MemoryChunk, HeapEnd
<1>4. /\ Bystanders(h, r, c) /\ g \in n..(n + Hdr) /\ g <= h[c].size
      /\ c \notin Taken(h)
  BY <1>2, TakeSound DEF Good
<1> HIDE DEF r, g
<1>5. VacantIn(h, l, c, Hdr + n + 1)
  <2>1. c + (Hdr + n + 1) <= EndOf(h, c) /\ Hdr + n + 1 \in Nat
    BY <1>3 DEF EndOf
  <2> QED
    BY <2>1, <1>3, FreeChunkVacant
<1>6. VacantIn(h, l, c, Hdr + g)
  <2>1. c + (Hdr + g) <= EndOf(h, c) /\ Hdr + g \in Nat
    BY <1>3, <1>4 DEF EndOf
  <2> QED
    BY <2>1, <1>3, FreeChunkVacant
<1>7. c + Hdr \in HeapStart..HeapEnd /\ (c + Hdr) - Hdr = c /\ c + Hdr # NULL
  BY <1>3 DEF EndOf, NULL
<1>8. Blocks(r, Hold(l, c + Hdr, n))
        = [q \in DOMAIN l \cup {c + Hdr} |-> IF q = c + Hdr THEN g ELSE Blocks(h, l)[q]]
  <2>1. DOMAIN Hold(l, c + Hdr, n) = DOMAIN l \cup {c + Hdr}
    BY <1>7 DEF Hold
  <2>2. ASSUME NEW q \in DOMAIN l, q # c + Hdr
        PROVE  r[q - Hdr].size = Blocks(h, l)[q]
    <3>1. q - Hdr \in Taken(h) /\ q \in Nat
      BY BlockIsChunk
    <3>2. q - Hdr # c
      BY <3>1, <1>4
    <3> QED
      BY <3>1, <3>2, <1>4 DEF Bystanders, Blocks
  <2> QED
    BY <2>1, <2>2, <1>7 DEF Blocks, g
<1> QED
  BY <1>1, <1>3, <1>4, <1>5, <1>6, <1>7, <1>8 DEF r, GrantIn

LEMMA FreeBlocks ==
    ASSUME NEW h, NEW l, Good(h, l), NEW p \in DOMAIN l
    PROVE  Blocks(Release(h, p - Hdr), Drop(l, p))
             = [q \in DOMAIN l \ {p} |-> Blocks(h, l)[q]]
<1> DEFINE c == p - Hdr
           r == Release(h, c)
<1>1. c \in Taken(h) /\ p \in Nat
  BY BlockIsChunk
<1>2. Bystanders(h, r, c)
  BY <1>1, ReleaseSound DEF Good
<1> HIDE DEF r
<1>3. ASSUME NEW q \in DOMAIN l \ {p}
      PROVE  r[q - Hdr].size = Blocks(h, l)[q]
  <2>1. q - Hdr \in Taken(h) /\ q \in Nat
    BY BlockIsChunk
  <2>2. Hdr \in Nat
    BY HeapAssumption
  <2>3. q - Hdr # c
    BY <2>1, <2>2, <1>1
  <2> QED
    BY <2>1, <2>3, <1>2 DEF Bystanders, Blocks
<1> QED
  BY <1>3 DEF Blocks, Drop, r

LEMMA VacantSame ==
    ASSUME NEW a, NEW len
    PROVE  Arena!Vacant(a, len) <=> VacantIn(heap, live, a, len)
BY DEF Arena!Vacant, VacantIn, Blocks

LEMMA RoomToFit ==
    ASSUME IInv, NEW n \in Nat, Fitting(heap, n) = {}
    PROVE  ~Arena!Room(n)
<1>1. Good(heap, live)
  BY InvIsGood
<1> QED
  BY <1>1, NoFitNoRoom, VacantSame DEF Arena!Room

\* malloc and calloc grant or refuse as the arena does.
LEMMA MallocImplements ==
    ASSUME IInv, NEW n \in Nat, NEW m \in MallocOutcome(heap, n),
           heap' = m.heap, live' = Hold(live, m.ret, n), call'.ret = m.ret
    PROVE  Arena!Grant(n) \/ Arena!Refuse(n)
<1>1. Good(heap, live)
  BY InvIsGood
<1>2. CASE Fitting(heap, n) = {}
  <2>1. heap' = heap /\ call'.ret = 0 /\ live' = live
    BY <1>2, OutcomeRefused
  <2> QED
    BY <2>1, <1>2, RoomToFit DEF Arena!Refuse
<1>3. CASE Fitting(heap, n) # {}
  <2>1. GrantIn(heap, live, n, m)
    BY <1>1, <1>3, OutcomeGranted
  <2>2. Arena!Room(n)
    BY <2>1, VacantSame DEF Arena!Room, GrantIn
  <2>3. PICK g \in n..(n + Hdr) :
             /\ VacantIn(heap, live, m.ret - Hdr, Hdr + g)
             /\ Blocks(heap', live')
                  = [q \in DOMAIN live \cup {m.ret} |->
                       IF q = m.ret THEN g ELSE Blocks(heap, live)[q]]
    BY <2>1 DEF GrantIn
  <2>4. Arena!IsPlace(m.ret, g)
    BY <2>3, VacantSame DEF Arena!IsPlace
  <2>5. Blocks(heap', live') = Arena!Granted(m.ret, g)
    BY <2>3 DEF Arena!Granted, Blocks
  <2> QED
    BY <2>1, <2>2, <2>4, <2>5 DEF Arena!Grant, Blocks, GrantIn
<1> QED
  BY <1>2, <1>3

\* realloc moves the block, or gives it back without a new one.
LEMMA ReallocImplements ==
    ASSUME IInv, NEW n \in Nat, NEW p \in DOMAIN live,
           NEW m \in MallocOutcome(heap, n),
           heap' = Release(m.heap, p - Hdr),
           live' = Drop(Hold(live, m.ret, n), p), call'.ret = m.ret
    PROVE  Arena!Move(p, n) \/ Arena!RefuseMove(p, n)
<1>1. Good(heap, live)
  BY InvIsGood
<1> DEFINE l == Hold(live, m.ret, n)
<1>2. Good(m.heap, l) /\ p \in DOMAIN l
  BY <1>1, MallocGood
<1>3. Blocks(heap', live') = [q \in DOMAIN l \ {p} |-> Blocks(m.heap, l)[q]]
  BY <1>2, FreeBlocks
<1> HIDE DEF l
<1>4. CASE Fitting(heap, n) = {}
  <2>1. m.heap = heap /\ call'.ret = 0 /\ l = live
    BY <1>4, OutcomeRefused DEF l
  <2>2. Blocks(heap', live') = Arena!Without(Blocks(heap, live), p)
    BY <2>1, <1>3 DEF Arena!Without, Blocks
  <2> QED
    BY <2>1, <2>2, <1>4, RoomToFit DEF Arena!RefuseMove, Arena!GiveBack, Blocks
<1>5. CASE Fitting(heap, n) # {}
  <2>1. GrantIn(heap, live, n, m)
    BY <1>1, <1>5, OutcomeGranted
  <2>2. Arena!Room(n)
    BY <2>1, VacantSame DEF Arena!Room, GrantIn
  <2>3. PICK g \in n..(n + Hdr) :
             /\ VacantIn(heap, live, m.ret - Hdr, Hdr + g)
             /\ Blocks(m.heap, l)
                  = [q \in DOMAIN live \cup {m.ret} |->
                       IF q = m.ret THEN g ELSE Blocks(heap, live)[q]]
    BY <2>1 DEF GrantIn, l
  <2>4. Arena!IsPlace(m.ret, g)
    BY <2>3, VacantSame DEF Arena!IsPlace
  <2>5. Blocks(m.heap, l) = Arena!Granted(m.ret, g)
    BY <2>3 DEF Arena!Granted, Blocks
  <2>6. DOMAIN Blocks(m.heap, l) = DOMAIN l
    BY DEF Blocks
  <2>7. Blocks(heap', live') = Arena!Without(Arena!Granted(m.ret, g), p)
    BY <1>3, <2>5, <2>6 DEF Arena!Without
  <2> QED
    BY <2>1, <2>2, <2>4, <2>7 DEF Arena!Move, Blocks, GrantIn
<1> QED
  BY <1>4, <1>5

LEMMA InitImplements == Init => Arena!Init
BY DEF Init, Arena!Init, NULL

LEMMA NextImplements == IInv /\ [Next]_vars => [Arena!Next]_(Arena!vars)
<1> SUFFICES ASSUME IInv, [Next]_vars
             PROVE  [Arena!Next]_(Arena!vars)
  OBVIOUS
<1>0. /\ DOMAIN [p \in DOMAIN live |-> heap[p - Hdr].size] = DOMAIN live
      /\ Sizes \subseteq Nat /\ Counts \subseteq Nat
  BY HeapAssumption
<1>1. ASSUME NEW n \in Sizes, Malloc(n)
      PROVE  Arena!Next
  <2>1. PICK m \in MallocOutcome(heap, n) :
          heap' = m.heap /\ live' = Hold(live, m.ret, n) /\ call'.ret = m.ret
    BY <1>1 DEF Malloc
  <2>2. Arena!Grant(n) \/ Arena!Refuse(n)
    BY <2>1, <1>0, MallocImplements
  <2> QED
    BY <2>2 DEF Arena!Next, Arena!Requests
<1>2. ASSUME NEW k \in Counts, NEW s \in Sizes, Calloc(k, s)
      PROVE  Arena!Next
  <2> DEFINE n == (k * s) % SizeMod
  <2>1. n \in Nat
    BY <1>0, ProductType
  <2>2. n \in Arena!Requests
    BY DEF Arena!Requests
  <2>3. PICK m \in MallocOutcome(heap, n) :
          heap' = m.heap /\ live' = Hold(live, m.ret, n) /\ call'.ret = m.ret
    BY <1>2 DEF Calloc
  <2> HIDE DEF n
  <2>4. Arena!Grant(n) \/ Arena!Refuse(n)
    BY <2>1, <2>3, MallocImplements
  <2> QED
    BY <2>2, <2>4 DEF Arena!Next
<1>3. ASSUME NEW p \in DOMAIN live, Free(p)
      PROVE  Arena!Next
  <2>1. Good(heap, live)
    BY InvIsGood
  <2>2. Blocks(heap', live') = [q \in DOMAIN live \ {p} |-> Blocks(heap, live)[q]]
    BY <1>3, <2>1, FreeBlocks DEF Free
  <2>3. Blocks(heap', live') = Arena!Without(Blocks(heap, live), p)
    BY <2>2 DEF Arena!Without, Blocks
  <2>4. Arena!GiveBack(p)
    BY <1>3, <2>3 DEF Arena!GiveBack, Free, Blocks, NULL
  <2> QED
    BY <2>4, <1>0 DEF Arena!Next
<1>4. ASSUME NEW p \in DOMAIN live, NEW n \in Sizes, Realloc(p, n)
      PROVE  Arena!Next
  <2>1. PICK m \in MallocOutcome(heap, n) :
          /\ heap' = Release(m.heap, p - Hdr)
          /\ live' = Drop(Hold(live, m.ret, n), p)
          /\ call'.ret = m.ret
    BY <1>4 DEF Realloc
  <2>2. Arena!Move(p, n) \/ Arena!RefuseMove(p, n)
    BY <2>1, <1>0, ReallocImplements
  <2> QED
    BY <2>2, <1>0 DEF Arena!Next
<1>5. CASE UNCHANGED vars
  BY <1>5 DEF vars, Arena!vars
<1> QED
  BY <1>1, <1>2, <1>3, <1>4, <1>5 DEF Next

\* The allocator of malloc.c implements the arena: it grants only vacant
\* bytes, disturbs no other block, and refuses only when there is no room.
THEOREM HeapImplementsArena == Spec => ImplementsArena
<1> QED
  BY InitImplements, NextImplements, HeapInvariant, PTL
     DEF Spec, ImplementsArena, Arena!Spec
=============================================================================
