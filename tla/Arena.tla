------------------------------- MODULE Arena -------------------------------
(***************************************************************************)
(* What the heap promises its callers, with no list and no headers to     *)
(* walk: a range of bytes, the blocks granted in it, and when a request   *)
(* may be refused.  A block at p of size g also owns the Hdr bytes in      *)
(* front of p.                                                             *)
(***************************************************************************)
EXTENDS Integers

CONSTANTS Start, End, Hdr, Sizes, Counts, SizeMod

VARIABLES
    blocks,         \* pointer -> bytes granted
    ret             \* the pointer the last call returned, or 0

vars == <<blocks, ret>>

\* The bytes a..a+len-1 are in the arena and belong to no block.
Vacant(a, len) ==
    /\ Start <= a /\ a + len <= End
    /\ \A p \in DOMAIN blocks : a + len <= p - Hdr \/ p + blocks[p] <= a

\* A run of vacant bytes that holds a header and more than n bytes: the code
\* asks for strictly more than the request.
Room(n) == \E a \in Start..End : Vacant(a, Hdr + n + 1)

Granted(p, g) == [q \in DOMAIN blocks \cup {p} |-> IF q = p THEN g ELSE blocks[q]]

Without(b, p) == [q \in DOMAIN b \ {p} |-> b[q]]

\* A block of g bytes at p, and its header, overlap nothing.
IsPlace(p, g) == Vacant(p - Hdr, Hdr + g)

Init == blocks = [p \in {} |-> 0] /\ ret = 0

\* A request may be granted anywhere, for at most a header's worth of bytes
\* more than it asks for.
Grant(n) ==
    /\ Room(n)
    /\ \E p \in Start..End, g \in n..(n + Hdr) :
        /\ ret' = p
        /\ IsPlace(p, g)
        /\ blocks' = Granted(p, g)

Refuse(n) == ~Room(n) /\ ret' = 0 /\ UNCHANGED blocks

GiveBack(p) == blocks' = Without(blocks, p) /\ ret' = 0

\* realloc gives the old block back in both cases.
Move(p, n) ==
    /\ Room(n)
    /\ \E q \in Start..End, g \in n..(n + Hdr) :
        /\ ret' = q
        /\ IsPlace(q, g)
        /\ blocks' = Without(Granted(q, g), p)

RefuseMove(p, n) == ~Room(n) /\ GiveBack(p)

Requests == Sizes \cup {(k * s) % SizeMod : k \in Counts, s \in Sizes}

Next ==
    \/ \E n \in Requests : Grant(n) \/ Refuse(n)
    \/ \E p \in DOMAIN blocks : GiveBack(p)
    \/ \E p \in DOMAIN blocks, n \in Sizes : Move(p, n) \/ RefuseMove(p, n)

Spec == Init /\ [][Next]_vars
=============================================================================
