--------------------------- MODULE FlatFileProofs ---------------------------
(***************************************************************************)
(* Proofs about the file wrapper and the C library: the variables have     *)
(* their types, and the one cursor is as good as one per context; what the *)
(* loops of string.c and stdlib.c compute is stated, as lemmas, for every  *)
(* memory, every place in it and every length.                             *)
(*                                                                         *)
(* A loop is a recursive function.  A lemma about it gives the value of    *)
(* every round in closed form: such a function satisfies the recursion,    *)
(* and by induction no other does.                                         *)
(***************************************************************************)
EXTENDS FlatFile, SequenceTheorems, WellFoundedInduction, TLAPS

Bytes == 0..255

\* The memory of N bytes.
Memories(N) == [0..(N - 1) -> Bytes]

-----------------------------------------------------------------------------
(* Least numbers and induction.                                            *)

LEMMA LeastNatural ==
    ASSUME NEW T, T \subseteq Nat, T # {}
    PROVE  \E i \in T : \A j \in T : i <= j
<1> DEFINE R == OpToRel(<, Nat)
<1>1. IsWellFoundedOn(R, Nat)
  BY NatLessThanWellFounded
<1>2. \A i, j \in Nat : <<j, i>> \in R <=> j < i
  BY DEF OpToRel
<1> HIDE DEF R
<1>3. PICK i \in T : \A j \in T : ~(<<j, i>> \in R)
  BY <1>1, WFMin
<1>4. ASSUME NEW j \in T PROVE i <= j
  <2>1. ~(j < i)
    BY <1>2, <1>3
  <2> QED
    BY <2>1
<1> QED
  BY <1>4

LEMMA MinOfNaturals ==
    ASSUME NEW T, T \subseteq Nat, T # {}
    PROVE  /\ Min(T) \in T /\ Min(T) \in Nat
           /\ \A j \in T : Min(T) <= j
BY LeastNatural DEF Min

LEMMA MinIs ==
    ASSUME NEW T, T \subseteq Nat, NEW i \in T, \A j \in T : i <= j
    PROVE  Min(T) = i
<1>1. Min(T) \in T /\ Min(T) <= i
  BY MinOfNaturals
<1>2. Min(T) \in Nat /\ i \in Nat /\ i <= Min(T)
  BY <1>1
<1> QED
  BY <1>1, <1>2

LEMMA MinOfTwo ==
    ASSUME NEW i \in Nat, NEW j \in Nat
    PROVE  Min({i, j}) = IF i <= j THEN i ELSE j
<1>1. CASE i <= j
  BY <1>1, MinIs
<1>2. CASE ~(i <= j)
  BY <1>2, MinIs
<1> QED
  BY <1>1, <1>2

LEMMA Induction ==
    ASSUME NEW P, P \subseteq Nat, 0 \in P, \A i \in P : i + 1 \in P
    PROVE  P = Nat
<1> SUFFICES ASSUME P # Nat PROVE FALSE
  OBVIOUS
<1>1. PICK i \in Nat \ P : \A j \in Nat \ P : i <= j
  <2>1. Nat \ P # {} /\ Nat \ P \subseteq Nat
    OBVIOUS
  <2> QED
    BY <2>1, LeastNatural
<1>2. i - 1 \in Nat /\ i - 1 \in P
  BY <1>1
<1>3. (i - 1) + 1 \in P
  BY <1>2
<1> QED
  BY <1>1, <1>3

\* Two functions that start with the same value and go on alike are alike.
LEMMA SameRounds ==
    ASSUME NEW n \in Nat, NEW f, NEW g, f[0] = g[0],
           \A i \in 1..n : f[i - 1] = g[i - 1] => f[i] = g[i]
    PROVE  \A i \in 0..n : f[i] = g[i]
<1> DEFINE P == {i \in Nat : i <= n => f[i] = g[i]}
<1>1. ASSUME NEW i \in P PROVE i + 1 \in P
  <2>1. SUFFICES ASSUME i + 1 <= n PROVE f[i + 1] = g[i + 1]
    OBVIOUS
  <2>2. i + 1 \in 1..n /\ (i + 1) - 1 = i /\ f[i] = g[i]
    BY <2>1
  <2> QED
    BY <2>2
<1>2. P = Nat
  <2>1. P \subseteq Nat /\ 0 \in P
    OBVIOUS
  <2> HIDE DEF P
  <2> QED
    BY <1>1, <2>1, Induction
<1> QED
  BY <1>2

-----------------------------------------------------------------------------
(* Copying.                                                                *)

\* Address d + j holds what was at s + j, for j from lo to below hi.
Moved(m, d, s, lo, hi) ==
    [a \in DOMAIN m |-> IF a \in (d + lo)..(d + hi - 1) THEN m[s + (a - d)] ELSE m[a]]

LEMMA MovedNothing ==
    ASSUME NEW N \in Nat, NEW m \in Memories(N), NEW d \in Nat, NEW s \in Nat, NEW lo \in Nat
    PROVE  Moved(m, d, s, lo, lo) = m
<1>1. (d + lo)..(d + lo - 1) = {}
  OBVIOUS
<1> QED
  BY <1>1 DEF Moved, Memories

\* One round upwards.
LEMMA MovedUp ==
    ASSUME NEW N \in Nat, NEW m \in Memories(N), NEW d \in Nat, NEW s \in Nat,
           NEW i \in Nat \ {0}, d + i <= N, s + i <= N, d <= s \/ s + i <= d
    PROVE  Moved(m, d, s, 0, i) =
               [Moved(m, d, s, 0, i - 1) EXCEPT ![d + i - 1] = Moved(m, d, s, 0, i - 1)[s + i - 1]]
<1> DEFINE before == Moved(m, d, s, 0, i - 1)
<1>1. before[s + i - 1] = m[s + i - 1]
  <2>1. s + i - 1 \in 0..(N - 1) /\ ~(s + i - 1 \in (d + 0)..(d + (i - 1) - 1))
    OBVIOUS
  <2> QED
    BY <2>1 DEF Moved, Memories
<1>2. ASSUME NEW a \in 0..(N - 1)
      PROVE  (IF a \in (d + 0)..(d + i - 1) THEN m[s + (a - d)] ELSE m[a])
             = IF a = d + i - 1 THEN m[s + i - 1]
               ELSE IF a \in (d + 0)..(d + (i - 1) - 1) THEN m[s + (a - d)] ELSE m[a]
  <2>1. /\ a = d + i - 1 => s + (a - d) = s + i - 1 /\ a \in (d + 0)..(d + i - 1)
        /\ a # d + i - 1 => (a \in (d + 0)..(d + i - 1)) <=> (a \in (d + 0)..(d + (i - 1) - 1))
    OBVIOUS
  <2> QED
    BY <2>1
<1>3. DOMAIN m = 0..(N - 1) /\ DOMAIN before = 0..(N - 1)
  BY DEF Moved, Memories
<1>4. ASSUME NEW a \in 0..(N - 1)
      PROVE  before[a] = IF a \in (d + 0)..(d + (i - 1) - 1) THEN m[s + (a - d)] ELSE m[a]
  BY <1>3 DEF Moved
<1> HIDE DEF before
<1>5. [before EXCEPT ![d + i - 1] = m[s + i - 1]]
      = [a \in 0..(N - 1) |-> IF a \in (d + 0)..(d + i - 1) THEN m[s + (a - d)] ELSE m[a]]
  BY <1>2, <1>3, <1>4
<1> QED
  BY <1>1, <1>3, <1>5 DEF before, Moved

\* memcpy moves its bytes if it does not write over what it has yet to read.
LEMMA MemcpyMoves ==
    ASSUME NEW N \in Nat, NEW m \in Memories(N), NEW d \in Nat, NEW s \in Nat, NEW n \in Nat,
           d + n <= N, s + n <= N, d <= s \/ s + n <= d
    PROVE  memcpy(m, d, s, n) = Moved(m, d, s, 0, n)
<1> DEFINE Rounds(f) == f = [i \in 0..n |->
              IF i = 0 THEN m ELSE [f[i - 1] EXCEPT ![d + i - 1] = f[i - 1][s + i - 1]]]
           g == [i \in 0..n |-> Moved(m, d, s, 0, i)]
<1>1. ASSUME NEW i \in 1..n
      PROVE  Moved(m, d, s, 0, i) =
               [Moved(m, d, s, 0, i - 1) EXCEPT ![d + i - 1] = Moved(m, d, s, 0, i - 1)[s + i - 1]]
  <2>1. i \in Nat \ {0} /\ d + i <= N /\ s + i <= N /\ (d <= s \/ s + i <= d)
    OBVIOUS
  <2> QED
    BY <2>1, MovedUp
<1>2. \A i \in 1..n : i - 1 \in 0..n /\ i \in 0..n /\ i # 0
  OBVIOUS
<1>3. g[0] = m
  <2>1. 0 \in 0..n /\ Moved(m, d, s, 0, 0) = m
    BY MovedNothing
  <2> QED
    BY <2>1
<1>4. \A i \in 1..n : g[i] = [g[i - 1] EXCEPT ![d + i - 1] = g[i - 1][s + i - 1]]
  BY <1>1, <1>2
<1>5. Rounds(g)
  <2>1. \A i \in 0..n : i = 0 \/ i \in 1..n
    OBVIOUS
  <2>2. g = [i \in 0..n |-> g[i]]
    OBVIOUS
  <2> HIDE DEF g
  <2> QED
    BY <1>3, <1>4, <2>1, <2>2
<1>6. ASSUME NEW f, Rounds(f) PROVE f[n] = g[n]
  <2>1. f[0] = m /\ \A i \in 1..n : f[i] = [f[i - 1] EXCEPT ![d + i - 1] = f[i - 1][s + i - 1]]
    <3>1. 0 \in 0..n
      OBVIOUS
    <3> QED
      BY <1>2, <1>6, <3>1
  <2> HIDE DEF Rounds, g
  <2>2. \A i \in 1..n : f[i - 1] = g[i - 1] => f[i] = g[i]
    BY <1>4, <2>1
  <2>3. \A i \in 0..n : f[i] = g[i]
    BY <1>3, <2>1, <2>2, SameRounds
  <2> QED
    BY <2>3
<1>7. g[n] = Moved(m, d, s, 0, n)
  OBVIOUS
<1>8. memcpy(m, d, s, n) = (CHOOSE f : Rounds(f))[n]
  BY DEF memcpy
<1> HIDE DEF Rounds, g
<1> QED
  BY <1>5, <1>6, <1>7, <1>8

\* One round downwards.
LEMMA MovedDown ==
    ASSUME NEW N \in Nat, NEW m \in Memories(N), NEW d \in Nat, NEW s \in Nat, NEW n \in Nat,
           NEW i \in 0..(n - 1), d + n <= N, s + n <= N, s <= d
    PROVE  Moved(m, d, s, i, n) =
               [Moved(m, d, s, i + 1, n) EXCEPT
                   ![d + i] = Moved(m, d, s, i + 1, n)[s + i]]
<1> DEFINE before == Moved(m, d, s, i + 1, n)
<1>1. before[s + i] = m[s + i]
  <2>1. s + i \in 0..(N - 1) /\ ~(s + i \in (d + (i + 1))..(d + n - 1))
    OBVIOUS
  <2> QED
    BY <2>1 DEF Moved, Memories
<1>2. ASSUME NEW a \in 0..(N - 1)
      PROVE  (IF a \in (d + i)..(d + n - 1) THEN m[s + (a - d)] ELSE m[a])
             = IF a = d + i THEN m[s + i]
               ELSE IF a \in (d + (i + 1))..(d + n - 1) THEN m[s + (a - d)] ELSE m[a]
  <2>1. /\ a = d + i => s + (a - d) = s + i /\ a \in (d + i)..(d + n - 1)
        /\ a # d + i => (a \in (d + i)..(d + n - 1))
                             <=> (a \in (d + (i + 1))..(d + n - 1))
    OBVIOUS
  <2> QED
    BY <2>1
<1>3. DOMAIN m = 0..(N - 1) /\ DOMAIN before = 0..(N - 1)
  BY DEF Moved, Memories
<1>4. ASSUME NEW a \in 0..(N - 1)
      PROVE  before[a] = IF a \in (d + (i + 1))..(d + n - 1) THEN m[s + (a - d)] ELSE m[a]
  BY <1>3 DEF Moved
<1> HIDE DEF before
<1>5. [before EXCEPT ![d + i] = m[s + i]]
      = [a \in 0..(N - 1) |-> IF a \in (d + i)..(d + n - 1) THEN m[s + (a - d)] ELSE m[a]]
  BY <1>2, <1>3, <1>4
<1> QED
  BY <1>1, <1>3, <1>5 DEF before, Moved

\* What memmove does when the place to move to is behind.
LEMMA BackwardsMoves ==
    ASSUME NEW N \in Nat, NEW m \in Memories(N), NEW d \in Nat, NEW s \in Nat, NEW n \in Nat,
           d + n <= N, s + n <= N, s <= d
    PROVE  Backwards(m, d, s, n) = Moved(m, d, s, 0, n)
<1> DEFINE Rounds(f) == f = [i \in 0..n |->
              IF i = 0 THEN m ELSE [f[i - 1] EXCEPT ![d + n - i] = f[i - 1][s + n - i]]]
           g == [i \in 0..n |-> Moved(m, d, s, n - i, n)]
<1>1. ASSUME NEW i \in 1..n
      PROVE  Moved(m, d, s, n - i, n) =
               [Moved(m, d, s, n - (i - 1), n) EXCEPT
                   ![d + n - i] = Moved(m, d, s, n - (i - 1), n)[s + n - i]]
  <2>1. PICK j \in 0..(n - 1) : j = n - i
    OBVIOUS
  <2>2. /\ n - i = j /\ n - (i - 1) = j + 1
        /\ d + n - i = d + j /\ s + n - i = s + j
    BY <2>1
  <2>3. Moved(m, d, s, j, n) =
          [Moved(m, d, s, j + 1, n) EXCEPT ![d + j] = Moved(m, d, s, j + 1, n)[s + j]]
    BY MovedDown
  <2> QED
    BY <2>2, <2>3
<1>2. \A i \in 1..n : i - 1 \in 0..n /\ i \in 0..n /\ i # 0
  OBVIOUS
<1>3. g[0] = m
  <2>1. 0 \in 0..n /\ n - 0 = n /\ Moved(m, d, s, n, n) = m
    BY MovedNothing
  <2> QED
    BY <2>1
<1>4. \A i \in 1..n : g[i] = [g[i - 1] EXCEPT ![d + n - i] = g[i - 1][s + n - i]]
  BY <1>1, <1>2
<1>5. Rounds(g)
  <2>1. \A i \in 0..n : i = 0 \/ i \in 1..n
    OBVIOUS
  <2>2. g = [i \in 0..n |-> g[i]]
    OBVIOUS
  <2> HIDE DEF g
  <2> QED
    BY <1>3, <1>4, <2>1, <2>2
<1>6. ASSUME NEW f, Rounds(f) PROVE f[n] = g[n]
  <2>1. f[0] = m /\ \A i \in 1..n : f[i] = [f[i - 1] EXCEPT ![d + n - i] = f[i - 1][s + n - i]]
    <3>1. 0 \in 0..n
      OBVIOUS
    <3> QED
      BY <1>2, <1>6, <3>1
  <2> HIDE DEF Rounds, g
  <2>2. \A i \in 1..n : f[i - 1] = g[i - 1] => f[i] = g[i]
    BY <1>4, <2>1
  <2>3. \A i \in 0..n : f[i] = g[i]
    BY <1>3, <2>1, <2>2, SameRounds
  <2> QED
    BY <2>3
<1>7. g[n] = Moved(m, d, s, 0, n)
  <2>1. n \in 0..n /\ n - n = 0
    OBVIOUS
  <2> QED
    BY <2>1
<1>8. Backwards(m, d, s, n) = (CHOOSE f : Rounds(f))[n]
  BY DEF Backwards
<1> HIDE DEF Rounds, g
<1> QED
  BY <1>5, <1>6, <1>7, <1>8

\* However the two places overlap.
LEMMA MemmoveMoves ==
    ASSUME NEW N \in Nat, NEW m \in Memories(N), NEW d \in Nat, NEW s \in Nat, NEW n \in Nat,
           d + n <= N, s + n <= N
    PROVE  memmove(m, d, s, n) = Moved(m, d, s, 0, n)
<1>1. CASE d < s
  BY <1>1, MemcpyMoves DEF memmove
<1>2. CASE ~(d < s)
  BY <1>2, BackwardsMoves DEF memmove
<1> QED
  BY <1>1, <1>2

\* Moved bytes are bytes, and what is not moved to stays.
IsMoved(N, m, after, d, s, n) ==
    /\ after \in Memories(N)
    /\ \A a \in 0..(N - 1) : after[a] = IF a \in d..(d + n - 1) THEN m[s + (a - d)] ELSE m[a]

LEMMA MovedIsMoved ==
    ASSUME NEW N \in Nat, NEW m \in Memories(N), NEW d \in Nat, NEW s \in Nat, NEW n \in Nat,
           d + n <= N, s + n <= N
    PROVE  IsMoved(N, m, Moved(m, d, s, 0, n), d, s, n)
<1> DEFINE after == Moved(m, d, s, 0, n)
<1>1. after = [a \in 0..(N - 1) |-> IF a \in d..(d + n - 1) THEN m[s + (a - d)] ELSE m[a]]
  <2>1. d + 0 = d /\ DOMAIN m = 0..(N - 1)
    BY DEF Memories
  <2> QED
    BY <2>1 DEF Moved
<1>2. \A a \in 0..(N - 1) : a \in d..(d + n - 1) => s + (a - d) \in 0..(N - 1)
  OBVIOUS
<1> HIDE DEF after
<1>3. after \in Memories(N)
  BY <1>1, <1>2 DEF Memories
<1>4. IsMoved(N, m, after, d, s, n)
  BY <1>1, <1>3 DEF IsMoved
<1> QED
  BY <1>4 DEF after

\* memset and strncpy, where the string that is copied ends.
LEMMA MemsetStores ==
    ASSUME NEW N \in Nat, NEW m \in Memories(N), NEW d \in Nat, NEW val \in Bytes, NEW n \in Nat
    PROVE  /\ memset(m, d, val, n) \in Memories(N)
           /\ \A a \in 0..(N - 1) :
                 memset(m, d, val, n)[a] = IF a \in d..(d + n - 1) THEN val ELSE m[a]
<1> DEFINE after == memset(m, d, val, n)
<1>1. after = [a \in 0..(N - 1) |-> IF a \in d..(d + n - 1) THEN val ELSE m[a]]
  BY DEF memset, Memories
<1> HIDE DEF after
<1>2. after \in Memories(N)
  BY <1>1 DEF Memories
<1> QED
  BY <1>1, <1>2 DEF after

-----------------------------------------------------------------------------
(* Strings.                                                                *)

\* The string at p is len characters long.
EndsAfter(m, p, len) == m[p + len] = 0 /\ \A j \in 0..(len - 1) : m[p + j] # 0

LEMMA Strlen ==
    ASSUME NEW N \in Nat, NEW m \in Memories(N), NEW p \in Nat, NEW len \in Nat, p + len < N,
           EndsAfter(m, p, len)
    PROVE  strlen(m, p) = len
<1> DEFINE T == {n \in DOMAIN m : p + n \in DOMAIN m /\ m[p + n] = 0}
<1>1. DOMAIN m = 0..(N - 1)
  BY DEF Memories
<1>2. len \in T
  BY <1>1 DEF EndsAfter
<1>3. ASSUME NEW j \in T PROVE len <= j
  <2>1. j \in Nat /\ m[p + j] = 0
    BY <1>1
  <2>2. j < len => j \in 0..(len - 1)
    BY <2>1
  <2> QED
    BY <2>1, <2>2 DEF EndsAfter
<1>4. T \subseteq Nat
  BY <1>1
<1> HIDE DEF T
<1>5. Min(T) = len
  BY <1>2, <1>3, <1>4, MinIs
<1> QED
  BY <1>5 DEF T, strlen

\* The first zero ends it.
LEMMA StringEnds ==
    ASSUME NEW N \in Nat, NEW m \in Memories(N), NEW p \in Nat, NEW e \in p..(N - 1), m[e] = 0
    PROVE  /\ strlen(m, p) \in Nat /\ p + strlen(m, p) <= e
           /\ EndsAfter(m, p, strlen(m, p))
<1> DEFINE T == {n \in Nat : n <= e - p /\ m[p + n] = 0}
<1>1. e - p \in T /\ T \subseteq Nat
  <2>1. e - p \in Nat /\ p + (e - p) = e
    OBVIOUS
  <2> QED
    BY <2>1
<1>2. PICK len \in T : \A j \in T : len <= j
  BY <1>1, LeastNatural
<1>3. len \in Nat /\ len <= e - p /\ m[p + len] = 0
  BY <1>2
<1>4. ASSUME NEW j \in 0..(len - 1) PROVE m[p + j] # 0
  <2>1. j \in Nat /\ j <= e - p /\ ~(len <= j)
    BY <1>3
  <2> QED
    BY <1>2, <2>1
<1>5. EndsAfter(m, p, len)
  BY <1>3, <1>4 DEF EndsAfter
<1>6. p + len < N /\ p + len <= e
  BY <1>3
<1>7. strlen(m, p) = len
  BY <1>3, <1>5, <1>6, Strlen
<1> QED
  BY <1>3, <1>5, <1>6, <1>7

\* Copying the characters of a string, up to a count.
LEMMA StrncpyMoves ==
    ASSUME NEW N \in Nat, NEW m \in Memories(N), NEW d \in Nat, NEW s \in Nat, NEW count \in Nat,
           strlen(m, s) \in Nat, s + strlen(m, s) < N,
           d + count <= N, Apart(d, count, s, strlen(m, s) + 1)
    PROVE  \E n \in 0..count : strncpy(m, d, s, count) = Moved(m, d, s, 0, n) /\ s + n <= N
<1> DEFINE n == Min({count, strlen(m, s)})
<1>1. n \in 0..count /\ n <= strlen(m, s)
  BY MinOfTwo
<1>2. strncpy(m, d, s, count) = memcpy(m, d, s, n)
  BY DEF strncpy
<1> HIDE DEF n
<1>3. n \in Nat /\ d + n <= N /\ s + n <= N /\ (d <= s \/ s + n <= d)
  BY <1>1 DEF Apart
<1>4. memcpy(m, d, s, n) = Moved(m, d, s, 0, n)
  BY <1>3, MemcpyMoves
<1> QED
  BY <1>1, <1>2, <1>3, <1>4

\* Appending them, and an end.
Appended(m, e, s, n) == [Moved(m, e, s, 0, n) EXCEPT ![e + n] = 0]

LEMMA StrncatMoves ==
    ASSUME NEW N \in Nat, NEW m \in Memories(N), NEW d \in Nat, NEW s \in Nat, NEW count \in Nat,
           NEW len \in Nat, strlen(m, d) = len, NEW k \in Nat, strlen(m, s) = k, s + k < N,
           NEW e \in Nat, e = d + len, e + count < N, e + count < s \/ s + k < d,
           NEW n \in Nat, n = IF count <= k THEN count ELSE k
    PROVE  strncat(m, d, s, count) = Appended(m, e, s, n)
<1>1. Min({count, k}) = n
  BY MinOfTwo
<1>2. strncat(m, d, s, count) = [memcpy(m, e, s, n) EXCEPT ![e + n] = 0]
  BY <1>1 DEF strncat
<1>3. e + n <= N /\ s + n <= N /\ (e <= s \/ s + n <= e)
  OBVIOUS
<1>4. memcpy(m, e, s, n) = Moved(m, e, s, 0, n)
  BY <1>3, MemcpyMoves
<1> QED
  BY <1>2, <1>4 DEF Appended

-----------------------------------------------------------------------------
(* Numbers, which are printed to base 10.                                  *)

\* f tells what is left of i after each of k rounds.
Left(f, i, k) == f = [j \in 0..k |-> IF j = 0 THEN i ELSE f[j - 1] \div 10]

LEMMA LeftExists ==
    ASSUME NEW i \in Nat
    PROVE  \A k \in Nat : \E f : Left(f, i, k) /\ f \in [0..k -> Nat]
<1> DEFINE P == {k \in Nat : \E f : Left(f, i, k) /\ f \in [0..k -> Nat]}
<1>1. 0 \in P
  <2> DEFINE f == [j \in 0..0 |-> i]
  <2>1. f = [j \in 0..0 |-> IF j = 0 THEN i ELSE f[j - 1] \div 10]
    OBVIOUS
  <2>2. f \in [0..0 -> Nat]
    OBVIOUS
  <2> HIDE DEF f
  <2> QED
    BY <2>1, <2>2 DEF Left
<1>2. ASSUME NEW k \in P PROVE k + 1 \in P
  <2>1. PICK f : Left(f, i, k) /\ f \in [0..k -> Nat]
    OBVIOUS
  <2>2. k \in Nat /\ k \in 0..k /\ f[k] \in Nat /\ f[k] \div 10 \in Nat
    BY <2>1
  <2> DEFINE g == [j \in 0..(k + 1) |-> IF j = k + 1 THEN f[k] \div 10 ELSE f[j]]
  <2>3. g \in [0..(k + 1) -> Nat]
    BY <2>1, <2>2
  <2>4. \A j \in 0..k : f[j] = IF j = 0 THEN i ELSE f[j - 1] \div 10
    BY <2>1 DEF Left
  <2>5. \A j \in 0..k : g[j] = f[j]
    BY <2>2
  <2>6. g[k + 1] = f[k] \div 10
    BY <2>2
  <2>7. g = [j \in 0..(k + 1) |-> g[j]]
    OBVIOUS
  <2> HIDE DEF g
  <2>8. \A j \in 0..(k + 1) : g[j] = IF j = 0 THEN i ELSE g[j - 1] \div 10
    <3>1. ASSUME NEW j \in 0..(k + 1), j = k + 1
          PROVE  g[j] = IF j = 0 THEN i ELSE g[j - 1] \div 10
      <4>1. j # 0 /\ j - 1 = k /\ k \in 0..k
        BY <2>2, <3>1
      <4> QED
        BY <2>5, <2>6, <3>1, <4>1
    <3>2. ASSUME NEW j \in 0..(k + 1), j # k + 1
          PROVE  g[j] = IF j = 0 THEN i ELSE g[j - 1] \div 10
      <4>1. j \in 0..k /\ (j # 0 => j - 1 \in 0..k)
        BY <2>2, <3>2
      <4> QED
        BY <2>4, <2>5, <4>1
    <3> QED
      BY <3>1, <3>2
  <2>9. Left(g, i, k + 1)
    BY <2>7, <2>8 DEF Left
  <2>10. \E h : Left(h, i, k + 1) /\ h \in [0..(k + 1) -> Nat]
    BY <2>3, <2>9
  <2>11. k + 1 \in Nat
    BY <2>2
  <2> QED
    BY <2>10, <2>11
<1>3. P = Nat
  <2>1. P \subseteq Nat
    OBVIOUS
  <2> HIDE DEF P
  <2> QED
    BY <1>1, <1>2, <2>1, Induction
<1> QED
  BY <1>3

\* What is left is the same in every function that goes that far.
LEMMA LeftUnique ==
    ASSUME NEW i \in Nat, NEW k \in Nat, NEW n \in Nat, k <= n,
           NEW f, Left(f, i, k), NEW g, Left(g, i, n)
    PROVE  \A j \in 0..k : f[j] = g[j]
<1>1. \A j \in 0..k : f[j] = IF j = 0 THEN i ELSE f[j - 1] \div 10
  BY DEF Left
<1>2. \A j \in 0..n : g[j] = IF j = 0 THEN i ELSE g[j - 1] \div 10
  BY DEF Left
<1>3. f[0] = g[0]
  <2>1. 0 \in 0..k /\ 0 \in 0..n
    OBVIOUS
  <2> QED
    BY <1>1, <1>2, <2>1
<1>4. ASSUME NEW j \in 1..k, f[j - 1] = g[j - 1] PROVE f[j] = g[j]
  <2>1. j \in 0..k /\ j \in 0..n /\ j # 0
    OBVIOUS
  <2> QED
    BY <1>1, <1>2, <1>4, <2>1
<1> QED
  BY <1>3, <1>4, SameRounds

LEMMA Quotients ==
    ASSUME NEW i \in Nat
    PROVE  /\ Quotient(i, 10, 0) = i
           /\ \A k \in Nat : /\ Quotient(i, 10, k) \in Nat
                             /\ Quotient(i, 10, k + 1) = Quotient(i, 10, k) \div 10
<1>1. ASSUME NEW k \in Nat, NEW f, Left(f, i, k) PROVE Quotient(i, 10, k) = f[k]
  <2>1. Quotient(i, 10, k) = (CHOOSE g : Left(g, i, k))[k]
    BY DEF Quotient, Left
  <2>2. \A g : Left(g, i, k) => g[k] = f[k]
    <3>1. k \in 0..k /\ k <= k
      OBVIOUS
    <3> QED
      BY <1>1, <3>1, LeftUnique
  <2> QED
    BY <1>1, <2>1, <2>2
<1>2. ASSUME NEW k \in Nat
      PROVE  /\ Quotient(i, 10, k) \in Nat
             /\ Quotient(i, 10, k + 1) = Quotient(i, 10, k) \div 10
  <2>1. PICK f : Left(f, i, k) /\ f \in [0..k -> Nat]
    BY LeftExists
  <2>2. k + 1 \in Nat
    OBVIOUS
  <2>3. PICK g : Left(g, i, k + 1)
    BY <2>2, LeftExists
  <2>4. Quotient(i, 10, k) = f[k] /\ Quotient(i, 10, k + 1) = g[k + 1]
    BY <1>1, <2>1, <2>2, <2>3
  <2>5. f[k] \in Nat /\ k \in 0..k
    BY <2>1
  <2>6. f[k] = g[k]
    <3>1. k <= k + 1
      OBVIOUS
    <3> QED
      BY <2>1, <2>2, <2>3, <2>5, <3>1, LeftUnique
  <2>7. g[k + 1] = g[k] \div 10
    <3>1. k + 1 \in 0..(k + 1) /\ k + 1 # 0 /\ (k + 1) - 1 = k
      OBVIOUS
    <3> QED
      BY <2>3, <3>1 DEF Left
  <2> QED
    BY <2>4, <2>5, <2>6, <2>7
<1>3. Quotient(i, 10, 0) = i
  <2>1. PICK f : Left(f, i, 0)
    BY LeftExists
  <2>2. f[0] = i
    BY <2>1 DEF Left
  <2> QED
    BY <1>1, <2>1, <2>2
<1> QED
  BY <1>2, <1>3

\* The rounds come to an end, and the last but one has left something.
LEMMA Digits ==
    ASSUME NEW i \in Nat
    PROVE  /\ DigitCount(i, 10) \in Nat \ {0}
           /\ Quotient(i, 10, DigitCount(i, 10)) = 0
           /\ i # 0 => \A k \in 0..(DigitCount(i, 10) - 1) : Quotient(i, 10, k) # 0
<1> DEFINE P == {k \in Nat : Quotient(i, 10, k) = 0 \/ Quotient(i, 10, k) + k <= i}
           T == {k \in 1..(i + 1) : Quotient(i, 10, k) = 0}
<1>1. 0 \in P
  BY Quotients
<1>2. ASSUME NEW k \in P PROVE k + 1 \in P
  <2>1. /\ k \in Nat /\ Quotient(i, 10, k) \in Nat
        /\ Quotient(i, 10, k + 1) = Quotient(i, 10, k) \div 10
    BY Quotients
  <2>2. Quotient(i, 10, k) = 0 \/ Quotient(i, 10, k) + k <= i
    OBVIOUS
  <2>3. ASSUME NEW q \in Nat, q = 0 \/ q + k <= i
        PROVE  q \div 10 = 0 \/ (q \div 10) + (k + 1) <= i
    BY <2>1, <2>3
  <2>4. \/ Quotient(i, 10, k) \div 10 = 0
        \/ (Quotient(i, 10, k) \div 10) + (k + 1) <= i
    BY <2>1, <2>2, <2>3
  <2> QED
    BY <2>1, <2>4
<1>3. P = Nat
  <2>1. P \subseteq Nat
    OBVIOUS
  <2> HIDE DEF P
  <2> QED
    BY <1>1, <1>2, <2>1, Induction
<1>4. i + 1 \in T
  <2>1. i + 1 \in P /\ Quotient(i, 10, i + 1) \in Nat
    BY <1>3, Quotients
  <2>2. Quotient(i, 10, i + 1) = 0
    BY <2>1
  <2> QED
    BY <2>2
<1>5. T \subseteq Nat
  OBVIOUS
<1>6. DigitCount(i, 10) = Min(T)
  BY DEF DigitCount
<1>7. \A k \in T : k \in 1..(i + 1) /\ Quotient(i, 10, k) = 0
  OBVIOUS
<1>8. \A k \in 1..(i + 1) : Quotient(i, 10, k) = 0 => k \in T
  OBVIOUS
<1> DEFINE n == Min(T)
<1> HIDE DEF T
<1>9. n \in T /\ \A k \in T : n <= k
  BY <1>4, <1>5, MinOfNaturals
<1> HIDE DEF n
<1>10. n \in 1..(i + 1) /\ Quotient(i, 10, n) = 0
  BY <1>7, <1>9
<1>11. ASSUME i # 0, NEW k \in 0..(n - 1) PROVE Quotient(i, 10, k) # 0
  <2>1. CASE k = 0
    BY <1>11, <2>1, Quotients
  <2>2. CASE k # 0
    <3>1. k \in 1..(i + 1) /\ ~(n <= k)
      BY <1>10, <2>2
    <3> QED
      BY <1>8, <1>9, <3>1
  <2> QED
    BY <2>1, <2>2
<1> QED
  BY <1>6, <1>10, <1>11 DEF n

\* The digits are stored in the order in which they are read, and an end behind
\* them; of zero only the digit.
Printed(N, m, after, i, b, n) ==
    /\ after \in Memories(N)
    /\ \A a \in 0..(N - 1) : a < b \/ a > b + n => after[a] = m[a]
    /\ i = 0 => after[b] = 48 /\ \A a \in 0..(N - 1) : a # b => after[a] = m[a]
    /\ i # 0 => /\ after[b + n] = 0
                /\ \A j \in 0..(n - 1) : after[b + j] = 48 + (Quotient(i, 10, n - 1 - j) % 10)

LEMMA UnsignedPrinted ==
    ASSUME NEW N \in Nat, NEW m \in Memories(N), NEW i \in Nat, NEW b \in Nat,
           NEW n \in Nat \ {0}, n = DigitCount(i, 10), b + n < N,
           NEW after, after = itoa_u(m, i, b, 10)
    PROVE  Printed(N, m, after, i, b, n)
<1>1. b \in 0..(N - 1) /\ b + n \in 0..(N - 1) /\ DOMAIN m = 0..(N - 1)
  BY DEF Memories
<1>2. CASE i = 0
  <2>1. after = [m EXCEPT ![b] = 48]
    BY <1>2 DEF itoa_u, Numeral
  <2>2. after \in Memories(N) /\ after[b] = 48 /\ \A a \in 0..(N - 1) : a # b => after[a] = m[a]
    <3>1. 48 \in Bytes /\ m \in [0..(N - 1) -> Bytes] /\ b \in 0..(N - 1)
      BY <1>1 DEF Memories, Bytes
    <3> QED
      BY <2>1, <3>1 DEF Memories
  <2>3. \A a \in 0..(N - 1) : a < b \/ a > b + n => a # b
    OBVIOUS
  <2> QED
    BY <1>2, <2>2, <2>3 DEF Printed
<1>3. CASE i # 0
  <2> DEFINE digit(j) == Numeral(Quotient(i, 10, j) % 10)
  <2>1. after = [a \in 0..(N - 1) |->
                   IF a = b + n THEN 0
                   ELSE IF a \in b..(b + n) THEN digit(n - 1 - (a - b)) ELSE m[a]]
    BY <1>1, <1>3 DEF itoa_u
  <2>2. ASSUME NEW j \in Nat
        PROVE  digit(j) \in Bytes /\ digit(j) = 48 + (Quotient(i, 10, j) % 10)
    <3>1. Quotient(i, 10, j) \in Nat
      BY Quotients
    <3>2. \A q \in Nat : q % 10 \in 0..9
      OBVIOUS
    <3>3. Quotient(i, 10, j) % 10 \in 0..9
      BY <3>1, <3>2
    <3> QED
      BY <3>3 DEF Numeral, Bytes
  <2> HIDE DEF digit
  <2>3. ASSUME NEW a \in 0..(N - 1)
        PROVE  /\ after[a] \in Bytes
               /\ a < b \/ a > b + n => after[a] = m[a]
    <3>1. CASE a = b + n
      <4>1. 0 \in Bytes /\ ~(a < b \/ a > b + n)
        BY <3>1 DEF Bytes
      <4>2. after[a] = 0
        BY <2>1, <3>1
      <4> QED
        BY <4>1, <4>2
    <3>2. CASE a \in b..(b + n - 1)
      <4>1. /\ a # b + n /\ a \in b..(b + n) /\ n - 1 - (a - b) \in Nat
            /\ ~(a < b \/ a > b + n)
        BY <3>2
      <4>2. after[a] = digit(n - 1 - (a - b))
        BY <2>1, <4>1
      <4>3. digit(n - 1 - (a - b)) \in Bytes
        BY <2>2, <4>1
      <4> QED
        BY <4>1, <4>2, <4>3
    <3>3. CASE a < b \/ a > b + n
      <4>1. a # b + n /\ ~(a \in b..(b + n))
        BY <3>3
      <4> QED
        BY <2>1, <3>3, <4>1 DEF Memories
    <3> QED
      BY <3>1, <3>2, <3>3
  <2>4. after \in Memories(N)
    BY <2>1, <2>3 DEF Memories
  <2>5. after[b + n] = 0
    BY <1>1, <2>1
  <2>6. ASSUME NEW j \in 0..(n - 1)
        PROVE  after[b + j] = 48 + (Quotient(i, 10, n - 1 - j) % 10)
    <3>1. /\ b + j \in 0..(N - 1) /\ b + j # b + n /\ b + j \in b..(b + n)
          /\ n - 1 - ((b + j) - b) = n - 1 - j /\ n - 1 - j \in Nat
      OBVIOUS
    <3> QED
      BY <2>1, <2>2, <3>1
  <2> QED
    BY <1>3, <2>3, <2>4, <2>5, <2>6 DEF Printed
<1> QED
  BY <1>2, <1>3

\* A minus takes the place of the first digit.
LEMMA NumberPrinted ==
    ASSUME NEW N \in Nat, NEW m \in Memories(N), NEW i \in Int, NEW b \in Nat,
           b + TextLength(i) <= N
    PROVE  /\ TextLength(i) \in Nat
           /\ itoa(m, i, b, 10) \in Memories(N)
           /\ \A a \in 0..(N - 1) : a < b \/ a >= b + TextLength(i) => itoa(m, i, b, 10)[a] = m[a]
<1> DEFINE after == itoa(m, i, b, 10)
<1>1. CASE i < 0
  <2> DEFINE signed == [m EXCEPT ![b] = Minus]
  <2>1. PICK u \in Nat : u = -i
    BY <1>1
  <2>2. PICK n \in Nat \ {0} : n = DigitCount(u, 10)
    BY Digits
  <2>3. TextLength(i) = n + 2
    BY <1>1, <2>1, <2>2 DEF TextLength
  <2>4. PICK c \in Nat : c = b + 1
    OBVIOUS
  <2>5. after = itoa_u(signed, u, c, 10)
    BY <1>1, <2>1, <2>4 DEF itoa
  <2>6. c + n < N /\ b \in 0..(N - 1)
    BY <2>3, <2>4
  <2>7. signed \in Memories(N) /\ \A a \in 0..(N - 1) : a # b => signed[a] = m[a]
    <3>1. Minus \in Bytes /\ m \in [0..(N - 1) -> Bytes]
      BY DEF Memories, Minus, Bytes
    <3> QED
      BY <2>6, <3>1 DEF Memories
  <2> HIDE DEF signed, after
  <2>8. Printed(N, signed, after, u, c, n)
    BY <2>2, <2>5, <2>6, <2>7, UnsignedPrinted
  <2>9. ASSUME NEW a \in 0..(N - 1), a < b \/ a >= b + (n + 2)
        PROVE  a # b /\ (a < c \/ a > c + n)
    BY <2>4, <2>9
  <2>10. \A a \in 0..(N - 1) : a < b \/ a >= b + (n + 2) => after[a] = m[a]
    BY <2>7, <2>8, <2>9 DEF Printed
  <2> QED
    BY <2>3, <2>8, <2>10 DEF after, Printed
<1>2. CASE ~(i < 0)
  <2> DEFINE n == DigitCount(i, 10)
  <2>1. i \in Nat /\ n \in Nat \ {0} /\ TextLength(i) = n + 1
    BY <1>2, Digits DEF TextLength
  <2>2. after = itoa_u(m, i, b, 10)
    BY <1>2 DEF itoa
  <2>3. b + n < N
    BY <2>1
  <2> HIDE DEF after
  <2>4. Printed(N, m, after, i, b, n)
    BY <2>1, <2>2, <2>3, UnsignedPrinted
  <2>5. ASSUME NEW a \in 0..(N - 1), a < b \/ a >= b + (n + 1)
        PROVE  a < b \/ a > b + n
    BY <2>1, <2>5
  <2> QED
    BY <2>1, <2>4, <2>5 DEF after, Printed
<1> QED
  BY <1>1, <1>2

-----------------------------------------------------------------------------
(* The types.                                                              *)

Total == BufferSize + FileSize

LEMMA Sizes ==
    /\ BufferSize \in Nat \ {0} /\ FileSize \in Nat \ {0} /\ Total \in Nat
    /\ Memory = 0..(Total - 1) /\ Total = BufferSize + FileSize
    /\ Buffers = 0..(BufferSize - 1) /\ start_fs_cursor = BufferSize
BY FlatFileAssumption DEF Memory, Buffers, Total, start_fs_cursor

LEMMA MemoryType == Memories(Total) = [Memory -> 0..255]
BY Sizes DEF Memories, Bytes

\* A string function leaves the file alone.
KeepsFile(m, after) ==
    after \in Memories(Total) /\ \A a \in Memory : a >= BufferSize => after[a] = m[a]

LEMMA TextEnds ==
    ASSUME TypeOK, NEW p, Text(p)
    PROVE  /\ p \in Nat /\ p \in Memory /\ strlen(mem, p) \in Nat
           /\ p + strlen(mem, p) < BufferSize /\ p + strlen(mem, p) < Total
           /\ EndsAfter(mem, p, strlen(mem, p))
<1>1. PICK a \in p..(BufferSize - 1) : mem[a] = 0
  BY DEF Text
<1>2. /\ p \in Nat /\ a \in p..(Total - 1) /\ a < BufferSize /\ a < Total
      /\ mem \in Memories(Total) /\ p \in Memory
  BY <1>1, Sizes, MemoryType DEF Text, TypeOK
<1>3. /\ strlen(mem, p) \in Nat /\ p + strlen(mem, p) <= a
      /\ EndsAfter(mem, p, strlen(mem, p))
  BY <1>1, <1>2, Sizes, StringEnds
<1> QED
  BY <1>2, <1>3, Sizes

LEMMA MovedKeepsFile ==
    ASSUME NEW m \in Memories(Total), NEW d \in Nat, NEW s \in Nat, NEW n \in Nat,
           d + n <= BufferSize, s + n <= Total
    PROVE  KeepsFile(m, Moved(m, d, s, 0, n))
<1>1. /\ d + n <= Total /\ Total \in Nat
      /\ \A a \in Memory : a \in 0..(Total - 1) /\ (a >= BufferSize => ~(a \in d..(d + n - 1)))
  BY Sizes
<1> DEFINE after == Moved(m, d, s, 0, n)
<1>2. IsMoved(Total, m, after, d, s, n)
  BY <1>1, MovedIsMoved
<1> HIDE DEF after
<1>3. KeepsFile(m, after)
  BY <1>1, <1>2 DEF KeepsFile, IsMoved
<1> QED
  BY <1>3 DEF after

LEMMA SetKeepsFile ==
    ASSUME TypeOK, Set
    PROVE  KeepsFile(mem, mem') /\ result' = 0 /\ UNCHANGED <<fs_cursor, holder>>
<1>1. PICK d \in Buffers, val \in Values, n \in 1..BufferSize :
         InBuffers(d, n) /\ Becomes(memset(mem, d, val, n))
  BY DEF Set
<1>2. /\ d \in Nat /\ n \in Nat /\ val \in Bytes /\ d + n <= BufferSize
      /\ mem \in Memories(Total) /\ Total \in Nat
  BY <1>1, Sizes, MemoryType, FlatFileAssumption DEF InBuffers, TypeOK, Bytes
<1>3. \A a \in Memory : a \in 0..(Total - 1) /\ (a >= BufferSize => ~(a \in d..(d + n - 1)))
  BY <1>2, Sizes
<1> DEFINE after == memset(mem, d, val, n)
<1>4. /\ after \in Memories(Total)
      /\ \A a \in 0..(Total - 1) : ~(a \in d..(d + n - 1)) => after[a] = mem[a]
  BY <1>2, MemsetStores
<1> HIDE DEF after
<1>5. KeepsFile(mem, after)
  BY <1>3, <1>4 DEF KeepsFile
<1> QED
  BY <1>1, <1>5 DEF Becomes, after

LEMMA MoveKeepsFile ==
    ASSUME TypeOK, Move
    PROVE  KeepsFile(mem, mem') /\ result' = 0 /\ UNCHANGED <<fs_cursor, holder>>
<1>1. PICK d \in Buffers, s \in Buffers, n \in 1..BufferSize :
         InBuffers(d, n) /\ InBuffers(s, n) /\ Becomes(memmove(mem, d, s, n))
  BY DEF Move
<1>2. /\ d \in Nat /\ s \in Nat /\ n \in Nat /\ d + n <= BufferSize
      /\ d + n <= Total /\ s + n <= Total /\ mem \in Memories(Total) /\ Total \in Nat
  BY <1>1, Sizes, MemoryType DEF InBuffers, TypeOK
<1>3. memmove(mem, d, s, n) = Moved(mem, d, s, 0, n)
  BY <1>2, MemmoveMoves
<1>4. KeepsFile(mem, memmove(mem, d, s, n))
  BY <1>2, <1>3, MovedKeepsFile
<1> QED
  BY <1>1, <1>4 DEF Becomes

LEMMA CopyKeepsFile ==
    ASSUME TypeOK, CopyText
    PROVE  KeepsFile(mem, mem') /\ result' = 0 /\ UNCHANGED <<fs_cursor, holder>>
<1>1. PICK d \in Buffers, s \in Buffers, count \in 1..BufferSize :
         /\ Text(s) /\ InBuffers(d, count) /\ Apart(d, count, s, strlen(mem, s) + 1)
         /\ Becomes(strncpy(mem, d, s, count))
  BY DEF CopyText
<1>2. /\ s \in Nat /\ strlen(mem, s) \in Nat /\ s + strlen(mem, s) < Total
      /\ mem \in Memories(Total) /\ Total \in Nat
  BY <1>1, Sizes, MemoryType, TextEnds DEF TypeOK
<1>3. d \in Nat /\ count \in Nat /\ d + count <= BufferSize /\ d + count <= Total
  BY <1>1, Sizes DEF InBuffers
<1>4. PICK n \in 0..count : strncpy(mem, d, s, count) = Moved(mem, d, s, 0, n) /\ s + n <= Total
  BY <1>1, <1>2, <1>3, StrncpyMoves
<1>5. n \in Nat /\ d + n <= BufferSize
  BY <1>3, Sizes
<1>6. KeepsFile(mem, strncpy(mem, d, s, count))
  BY <1>2, <1>3, <1>4, <1>5, MovedKeepsFile
<1> QED
  BY <1>1, <1>6 DEF Becomes

LEMMA AppendKeepsFile ==
    ASSUME TypeOK, AppendText
    PROVE  KeepsFile(mem, mem') /\ result' = 0 /\ UNCHANGED <<fs_cursor, holder>>
<1>1. PICK d \in Buffers, s \in Buffers, count \in 1..BufferSize :
         /\ Text(d) /\ Text(s) /\ InBuffers(d, strlen(mem, d) + count + 1)
         /\ Apart(d, strlen(mem, d) + count + 1, s, strlen(mem, s) + 1)
         /\ Becomes(strncat(mem, d, s, count))
  BY DEF AppendText
<1>2. PICK len \in Nat : len = strlen(mem, d)
  BY <1>1, TextEnds
<1>3. PICK k \in Nat : k = strlen(mem, s)
  BY <1>1, TextEnds
<1>4. /\ d \in Nat /\ s \in Nat /\ s + k < Total
      /\ mem \in Memories(Total) /\ Total \in Nat
  BY <1>1, <1>2, <1>3, Sizes, MemoryType, TextEnds DEF TypeOK
<1>5. PICK e \in Nat : e = d + len
  BY <1>4
<1>6. PICK n \in Nat : n = IF count <= k THEN count ELSE k
  BY <1>1, <1>3, Sizes
<1>7. /\ count \in Nat /\ e + count < BufferSize /\ e + count < Total
      /\ e + count < s \/ s + k < d
  <2>1. /\ d + (len + count + 1) <= BufferSize
        /\ d + (len + count + 1) <= s \/ s + (k + 1) <= d
    BY <1>1, <1>2, <1>3 DEF InBuffers, Apart
  <2>2. d \in Nat /\ s \in Nat /\ count \in Nat /\ BufferSize \in Nat /\ BufferSize <= Total
    BY <1>4, Sizes
  <2>3. e + count + 1 <= BufferSize /\ (e + count + 1 <= s \/ s + k + 1 <= d)
    BY <1>5, <2>1, <2>2
  <2> QED
    BY <2>2, <2>3, Sizes
<1>8. e + n < BufferSize /\ e + n <= BufferSize /\ s + n <= Total
  BY <1>3, <1>4, <1>6, <1>7, Sizes
<1> DEFINE copied == Moved(mem, e, s, 0, n)
           after == strncat(mem, d, s, count)
<1>9. KeepsFile(mem, copied)
  BY <1>4, <1>8, MovedKeepsFile
<1>10. after = [copied EXCEPT ![e + n] = 0]
  <2>1. after = Appended(mem, e, s, n)
    <3>1. /\ Total \in Nat /\ mem \in Memories(Total) /\ d \in Nat /\ s \in Nat /\ count \in Nat
          /\ strlen(mem, d) = len /\ strlen(mem, s) = k /\ s + k < Total
          /\ e = d + len /\ e + count < Total /\ (e + count < s \/ s + k < d)
          /\ n = IF count <= k THEN count ELSE k
      BY <1>2, <1>3, <1>4, <1>5, <1>6, <1>7
    <3> QED
      BY <3>1, StrncatMoves
  <2> QED
    BY <2>1 DEF Appended
<1> HIDE DEF copied, after
<1>11. KeepsFile(mem, after)
  <2>1. \A a \in Memory : a >= BufferSize => a # e + n
    BY <1>8, Sizes
  <2>2. 0 \in Bytes
    BY DEF Bytes
  <2> QED
    BY <1>9, <1>10, <2>1, <2>2, Sizes DEF KeepsFile, Memories
<1> QED
  BY <1>1, <1>11 DEF Becomes, after

LEMMA PrintKeepsFile ==
    ASSUME TypeOK, PrintNumber
    PROVE  KeepsFile(mem, mem') /\ result' = 0 /\ UNCHANGED <<fs_cursor, holder>>
<1>1. PICK i \in Numbers, b \in Buffers :
         InBuffers(b, TextLength(i)) /\ Becomes(itoa(mem, i, b, 10))
  BY FlatFileAssumption DEF PrintNumber
<1>2. /\ i \in Int /\ b \in Nat /\ b + TextLength(i) <= BufferSize
      /\ mem \in Memories(Total) /\ Total \in Nat
  BY <1>1, Sizes, MemoryType, FlatFileAssumption DEF InBuffers, TypeOK
<1>3. TextLength(i) \in Nat
  <2>1. i >= 0 => i \in Nat
    BY <1>2
  <2>2. i < 0 => -i \in Nat
    BY <1>2
  <2> QED
    BY <1>2, <2>1, <2>2, Digits DEF TextLength
<1>4. b + TextLength(i) <= Total
  BY <1>2, <1>3, Sizes
<1>5. /\ itoa(mem, i, b, 10) \in Memories(Total)
      /\ \A a \in 0..(Total - 1) : a < b \/ a >= b + TextLength(i) => itoa(mem, i, b, 10)[a] = mem[a]
  BY <1>2, <1>4, NumberPrinted
<1>6. \A a \in Memory : a >= BufferSize => a \in 0..(Total - 1) /\ a >= b + TextLength(i)
  BY <1>2, <1>3, Sizes
<1>7. KeepsFile(mem, itoa(mem, i, b, 10))
  BY <1>5, <1>6 DEF KeepsFile
<1> QED
  BY <1>1, <1>7 DEF Becomes

StringCall == Set \/ Move \/ CopyText \/ AppendText \/ PrintNumber

LEMMA StringCallsKeepFile ==
    ASSUME TypeOK, StringCall
    PROVE  KeepsFile(mem, mem') /\ result' = 0 /\ UNCHANGED <<fs_cursor, holder>>
BY SetKeepsFile, MoveKeepsFile, CopyKeepsFile, AppendKeepsFile, PrintKeepsFile DEF StringCall

-----------------------------------------------------------------------------
(* The file's own calls.                                                   *)

\* A read and a write move bytes between the buffers and the file.
LEMMA ReadMoves ==
    ASSUME TypeOK, NEW c \in Contexts, NEW buf \in Buffers, NEW count \in 1..FileSize,
           Read(c, buf, count)
    PROVE  KeepsFile(mem, mem') /\ IsMoved(Total, mem, mem', buf, fs_cursor, count)
<1>1. /\ buf \in Nat /\ fs_cursor \in Nat /\ count \in Nat
      /\ buf + count <= BufferSize /\ fs_cursor + count <= Total
      /\ mem \in Memories(Total) /\ Total \in Nat /\ buf <= fs_cursor
  BY Sizes, MemoryType DEF Read, Transfer, TypeOK
<1>2. buf + count <= Total
  BY <1>1, Sizes
<1>3. mem' = Moved(mem, buf, fs_cursor, 0, count)
  BY <1>1, <1>2, MemcpyMoves DEF Read
<1>4. KeepsFile(mem, mem')
  BY <1>1, <1>3, MovedKeepsFile
<1>5. IsMoved(Total, mem, Moved(mem, buf, fs_cursor, 0, count), buf, fs_cursor, count)
  BY <1>1, <1>2, MovedIsMoved
<1> QED
  BY <1>3, <1>4, <1>5

LEMMA WriteMoves ==
    ASSUME TypeOK, NEW c \in Contexts, NEW buf \in Buffers, NEW count \in 1..FileSize,
           Write(c, buf, count)
    PROVE  IsMoved(Total, mem, mem', fs_cursor, buf, count)
<1>1. /\ buf \in Nat /\ fs_cursor \in Nat /\ count \in Nat
      /\ buf + count <= fs_cursor /\ fs_cursor + count <= Total
      /\ mem \in Memories(Total) /\ Total \in Nat
  BY Sizes, MemoryType DEF Write, Transfer, TypeOK
<1>2. buf + count <= Total
  BY <1>1
<1>3. mem' = Moved(mem, fs_cursor, buf, 0, count)
  BY <1>1, <1>2, MemcpyMoves DEF Write
<1>4. IsMoved(Total, mem, Moved(mem, fs_cursor, buf, 0, count), fs_cursor, buf, count)
  BY <1>1, <1>2, MovedIsMoved
<1> QED
  BY <1>3, <1>4

LEMMA StoreStores ==
    ASSUME TypeOK, NEW offset \in 0..(FileSize - 1), NEW val \in Values, StoreMapped(offset, val)
    PROVE  /\ mem' \in Memories(Total)
           /\ \A a \in Memory : mem'[a] = IF a = BufferSize + offset THEN val ELSE mem[a]
<1>1. mem' = [mem EXCEPT ![BufferSize + offset] = val]
  BY Sizes DEF StoreMapped
<1>2. val \in 0..255 /\ mem \in [Memory -> 0..255]
  BY FlatFileAssumption DEF TypeOK
<1>3. mem' \in [Memory -> 0..255]
  BY <1>1, <1>2
<1> QED
  BY <1>1, <1>2, <1>3, MemoryType

-----------------------------------------------------------------------------
(* The invariant.                                                          *)

LEMMA Initially == Init => TypeOK
<1>1. 0 \in 0..255 /\ 0 \in 0..FileSize /\ BufferSize \in BufferSize..(BufferSize + FileSize)
  BY Sizes
<1> QED
  BY <1>1, Sizes DEF Init, TypeOK

LEMMA FileCallTypes ==
    ASSUME TypeOK, FileCall
    PROVE  TypeOK'
<1>1. PICK c \in Contexts :
        \/ Open(c) \/ Close(c)
        \/ \E offset \in 0..FileSize : Lseek(c, offset)
        \/ \E buf \in Buffers, count \in 1..FileSize : Read(c, buf, count) \/ Write(c, buf, count)
  BY DEF FileCall
<1>2. CASE Open(c) \/ Close(c)
  <2>1. BufferSize \in BufferSize..(BufferSize + FileSize) /\ 0 \in 0..FileSize
    BY Sizes
  <2>2. start_fs_cursor = BufferSize
    BY Sizes
  <2> QED
    BY <1>2, <2>1, <2>2 DEF Open, Close, TypeOK
<1>3. ASSUME NEW offset \in 0..FileSize, Lseek(c, offset) PROVE TypeOK'
  <2>1. BufferSize + offset \in BufferSize..(BufferSize + FileSize)
    BY Sizes
  <2> QED
    BY <1>3, <2>1 DEF Lseek, TypeOK, start_fs_cursor
<1>4. ASSUME NEW buf \in Buffers, NEW count \in 1..FileSize, Read(c, buf, count) \/ Write(c, buf, count)
      PROVE  TypeOK'
  <2>1. mem' \in [Memory -> 0..255]
    BY <1>4, MemoryType, ReadMoves, WriteMoves DEF IsMoved
  <2>2. Transfer(c, buf, count)
    BY <1>4 DEF Read, Write
  <2>3. fs_cursor' \in BufferSize..(BufferSize + FileSize) /\ result' \in 0..FileSize
    BY <2>2, Sizes DEF Transfer, TypeOK
  <2> QED
    BY <2>1, <2>2, <2>3 DEF Transfer, TypeOK
<1> QED
  BY <1>1, <1>2, <1>3, <1>4

LEMMA NextTypes == TypeOK /\ [Next]_vars => TypeOK'
<1> SUFFICES ASSUME TypeOK, [Next]_vars PROVE TypeOK'
  OBVIOUS
<1>1. CASE FileCall
  BY <1>1, FileCallTypes
<1>2. ASSUME NEW offset \in 0..(FileSize - 1), NEW val \in Values, StoreMapped(offset, val)
      PROVE  TypeOK'
  <2>1. mem' \in [Memory -> 0..255]
    BY <1>2, MemoryType, StoreStores
  <2>2. result' = 0 /\ 0 \in 0..FileSize /\ UNCHANGED <<fs_cursor, holder>>
    BY <1>2, Sizes DEF StoreMapped
  <2> QED
    BY <2>1, <2>2 DEF TypeOK
<1>3. CASE StringCall
  <2>1. mem' \in [Memory -> 0..255]
    BY <1>3, MemoryType, StringCallsKeepFile DEF KeepsFile
  <2>2. result' = 0 /\ 0 \in 0..FileSize /\ UNCHANGED <<fs_cursor, holder>>
    BY <1>3, Sizes, StringCallsKeepFile
  <2> QED
    BY <2>1, <2>2 DEF TypeOK
<1>4. CASE UNCHANGED vars
  BY <1>4 DEF vars, TypeOK
<1> QED
  BY <1>1, <1>2, <1>3, <1>4 DEF Next, StringCall

\* TypeOK: the memory holds bytes, the cursor stays inside the file, one context
\* at most has the file open, and a result is an offset, a count or the one
\* descriptor (unistd.c).
THEOREM FlatFileTypeCorrect == Spec => []TypeOK
BY Initially, NextTypes, PTL DEF Spec

\* BytesMove: whatever the memory holds and however the places overlap, memmove
\* moves the bytes; memcpy does where it reads ahead of what it writes (string.c).
THEOREM FlatFileBytesMove == Spec => []BytesMove
<1>1. TypeOK => BytesMove
  <2> SUFFICES ASSUME TypeOK, NEW d \in Buffers, NEW s \in Buffers, NEW n \in 0..BufferSize,
                      InBuffers(d, n), InBuffers(s, n)
               PROVE  LET moved == [a \in Memory |->
                                      IF a \in d..(d + n - 1) THEN mem[s + (a - d)] ELSE mem[a]]
                      IN  /\ memmove(mem, d, s, n) = moved
                          /\ d <= s \/ s + n <= d => memcpy(mem, d, s, n) = moved
    BY DEF BytesMove
  <2>1. /\ d \in Nat /\ s \in Nat /\ n \in Nat /\ d + n <= Total /\ s + n <= Total
        /\ mem \in Memories(Total) /\ Total \in Nat /\ DOMAIN mem = Memory
    BY Sizes, MemoryType DEF InBuffers, TypeOK
  <2>2. Moved(mem, d, s, 0, n)
        = [a \in Memory |-> IF a \in d..(d + n - 1) THEN mem[s + (a - d)] ELSE mem[a]]
    <3>1. d + 0 = d
      BY <2>1
    <3> QED
      BY <2>1, <3>1 DEF Moved
  <2>3. memmove(mem, d, s, n) = Moved(mem, d, s, 0, n)
    BY <2>1, MemmoveMoves
  <2>4. d <= s \/ s + n <= d => memcpy(mem, d, s, n) = Moved(mem, d, s, 0, n)
    BY <2>1, MemcpyMoves
  <2> QED
    BY <2>2, <2>3, <2>4
<1> QED
  BY <1>1, FlatFileTypeCorrect, PTL

-----------------------------------------------------------------------------
(* The refinement of File.                                                 *)

ContentOf(m) == [o \in 0..(FileSize - 1) |-> m[BufferSize + o]]

BufferOf(m) == [a \in Buffers |-> m[a]]

PositionOf(h, cursor) == [c \in Contexts |-> IF c = h THEN cursor - BufferSize ELSE -1]

LEMMA Views ==
    /\ Content = ContentOf(mem) /\ Content' = ContentOf(mem')
    /\ Buffer = BufferOf(mem) /\ Buffer' = BufferOf(mem')
    /\ Position = PositionOf(holder, fs_cursor) /\ Position' = PositionOf(holder', fs_cursor')
BY DEF Content, Buffer, Position, ContentOf, BufferOf, PositionOf, start_fs_cursor

LEMMA InitImplements == Init => TheFile!Init
<1> SUFFICES ASSUME Init PROVE TheFile!Init
  OBVIOUS
<1>1. \A c \in Contexts : c # NULL
  BY FlatFileAssumption
<1>2. \A o \in 0..(FileSize - 1) : start_fs_cursor + o \in Memory
  BY Sizes
<1>3. \A a \in Buffers : a \in Memory
  BY Sizes
<1> QED
  BY <1>1, <1>2, <1>3, Sizes
  DEF Init, TheFile!Init, TheFile!Closed, Content, Buffer, Position, Buffers

LEMMA FileKept ==
    ASSUME NEW m, NEW after, KeepsFile(m, after)
    PROVE  ContentOf(after) = ContentOf(m)
<1>1. \A o \in 0..(FileSize - 1) : BufferSize + o \in Memory /\ BufferSize + o >= BufferSize
  BY Sizes
<1> QED
  BY <1>1 DEF KeepsFile, ContentOf

\* What a read and a write do to the buffers b and to the file f.
ReadInto(b, f, buf, o, n) ==
    [a \in Buffers |-> IF a \in buf..(buf + n - 1) THEN f[o + (a - buf)] ELSE b[a]]

WrittenTo(f, b, o, buf, n) ==
    [p \in 0..(FileSize - 1) |-> IF p \in o..(o + n - 1) THEN b[buf + (p - o)] ELSE f[p]]

LEMMA BufferRead ==
    ASSUME NEW m, NEW after, NEW buf \in Nat, NEW o \in Nat, NEW n \in Nat,
           buf + n <= BufferSize, o + n <= FileSize,
           IsMoved(Total, m, after, buf, BufferSize + o, n)
    PROVE  BufferOf(after) = ReadInto(BufferOf(m), ContentOf(m), buf, o, n)
<1> SUFFICES ASSUME NEW a \in Buffers
             PROVE  after[a] = IF a \in buf..(buf + n - 1)
                               THEN ContentOf(m)[o + (a - buf)] ELSE m[a]
  BY DEF BufferOf, ReadInto
<1>1. a \in 0..(Total - 1)
  BY Sizes
<1>2. after[a] = IF a \in buf..(buf + n - 1) THEN m[(BufferSize + o) + (a - buf)] ELSE m[a]
  BY <1>1 DEF IsMoved
<1>3. a \in buf..(buf + n - 1) => /\ o + (a - buf) \in 0..(FileSize - 1)
                                  /\ (BufferSize + o) + (a - buf) = BufferSize + (o + (a - buf))
  BY Sizes
<1> QED
  BY <1>2, <1>3 DEF ContentOf

LEMMA ContentWritten ==
    ASSUME NEW m, NEW after, NEW buf \in Nat, NEW o \in Nat, NEW n \in Nat,
           buf + n <= BufferSize, o + n <= FileSize,
           IsMoved(Total, m, after, BufferSize + o, buf, n)
    PROVE  /\ ContentOf(after) = WrittenTo(ContentOf(m), BufferOf(m), o, buf, n)
           /\ BufferOf(after) = BufferOf(m)
<1>1. ASSUME NEW p \in 0..(FileSize - 1)
      PROVE  after[BufferSize + p] = IF p \in o..(o + n - 1)
                                     THEN BufferOf(m)[buf + (p - o)] ELSE m[BufferSize + p]
  <2>1. BufferSize + p \in 0..(Total - 1)
    BY Sizes
  <2>2. after[BufferSize + p] =
          IF BufferSize + p \in (BufferSize + o)..((BufferSize + o) + n - 1)
          THEN m[buf + ((BufferSize + p) - (BufferSize + o))] ELSE m[BufferSize + p]
    BY <2>1 DEF IsMoved
  <2>3. /\ (BufferSize + p \in (BufferSize + o)..((BufferSize + o) + n - 1)) <=> (p \in o..(o + n - 1))
        /\ p \in o..(o + n - 1) => /\ buf + (p - o) \in Buffers
                                   /\ buf + ((BufferSize + p) - (BufferSize + o)) = buf + (p - o)
    BY Sizes
  <2> QED
    BY <2>2, <2>3 DEF BufferOf
<1>2. ASSUME NEW a \in Buffers PROVE after[a] = m[a]
  <2>1. a \in 0..(Total - 1) /\ ~(a \in (BufferSize + o)..((BufferSize + o) + n - 1))
    BY Sizes
  <2> QED
    BY <2>1 DEF IsMoved
<1>3. BufferOf(after) = BufferOf(m)
  BY <1>2 DEF BufferOf
<1> QED
  BY <1>1, <1>3 DEF ContentOf, WrittenTo

\* The cursor is the position of the context that has the file open.
LEMMA Positions ==
    ASSUME NEW c \in Contexts, NEW cursor, NEW after
    PROVE  /\ PositionOf(c, after) = [PositionOf(c, cursor) EXCEPT ![c] = after - BufferSize]
           /\ PositionOf(c, cursor) = [PositionOf(NULL, cursor) EXCEPT ![c] = cursor - BufferSize]
           /\ PositionOf(NULL, after) = [PositionOf(c, cursor) EXCEPT ![c] = -1]
           /\ PositionOf(NULL, after) = PositionOf(NULL, cursor)
           /\ PositionOf(c, cursor)[c] = cursor - BufferSize
BY FlatFileAssumption DEF PositionOf

LEMMA OpenImplements ==
    ASSUME TypeOK, NEW c \in Contexts, Open(c)
    PROVE  TheFile!OpenFile(c)
<1>1. /\ Content' = Content /\ Buffer' = Buffer /\ result' = FLATFS_FD
      /\ Position = PositionOf(NULL, fs_cursor) /\ Position' = PositionOf(c, BufferSize)
  BY Views, Sizes DEF Open
<1>2. PositionOf(c, BufferSize) = [PositionOf(NULL, BufferSize) EXCEPT ![c] = BufferSize - BufferSize]
  BY Positions
<1>3. PositionOf(NULL, BufferSize) = PositionOf(NULL, fs_cursor)
  BY Positions
<1>4. BufferSize - BufferSize = 0
  BY Sizes
<1> QED
  BY <1>1, <1>2, <1>3, <1>4 DEF TheFile!OpenFile

LEMMA CloseImplements ==
    ASSUME TypeOK, NEW c \in Contexts, Close(c)
    PROVE  TheFile!CloseFile(c)
<1>1. /\ Content' = Content /\ Buffer' = Buffer /\ result' = 0
      /\ Position = PositionOf(c, fs_cursor) /\ Position' = PositionOf(NULL, BufferSize)
  BY Views, Sizes DEF Close
<1>2. PositionOf(NULL, BufferSize) = [PositionOf(c, fs_cursor) EXCEPT ![c] = -1]
  BY Positions
<1> QED
  BY <1>1, <1>2 DEF TheFile!CloseFile, TheFile!Closed

LEMMA LseekImplements ==
    ASSUME TypeOK, NEW c \in Contexts, NEW offset \in 0..FileSize, Lseek(c, offset)
    PROVE  TheFile!Seek(c, offset)
<1>1. /\ Content' = Content /\ Buffer' = Buffer /\ result' = offset
      /\ Position = PositionOf(c, fs_cursor) /\ Position' = PositionOf(c, BufferSize + offset)
  BY Views, Sizes DEF Lseek
<1>2. /\ PositionOf(c, BufferSize + offset) =
            [PositionOf(c, fs_cursor) EXCEPT ![c] = (BufferSize + offset) - BufferSize]
      /\ PositionOf(c, fs_cursor)[c] = fs_cursor - BufferSize
  BY Positions
<1>3. (BufferSize + offset) - BufferSize = offset /\ fs_cursor - BufferSize # -1
  BY Sizes DEF TypeOK
<1> QED
  BY <1>1, <1>2, <1>3 DEF TheFile!Seek, TheFile!Closed

\* A transfer starts at the position and moves it.
LEMMA TransferImplements ==
    ASSUME TypeOK, NEW c \in Contexts, NEW buf \in Buffers, NEW count \in 1..FileSize,
           Transfer(c, buf, count)
    PROVE  \E o \in Nat :
              /\ fs_cursor = BufferSize + o /\ Position[c] = o
              /\ buf \in Nat /\ count \in Nat /\ buf + count <= BufferSize /\ o + count <= FileSize
              /\ TheFile!Inside(c, buf, count)
              /\ Position' = [Position EXCEPT ![c] = o + count] /\ result' = count
<1>1. PICK o \in Nat : fs_cursor = BufferSize + o
  <2>1. fs_cursor - BufferSize \in Nat /\ fs_cursor = BufferSize + (fs_cursor - BufferSize)
    BY Sizes DEF TypeOK
  <2> QED
    BY <2>1
<1>2. /\ Position = PositionOf(c, fs_cursor) /\ Position' = PositionOf(c, fs_cursor + count)
      /\ result' = count
  BY Views DEF Transfer
<1>3. /\ PositionOf(c, fs_cursor + count) =
            [PositionOf(c, fs_cursor) EXCEPT ![c] = (fs_cursor + count) - BufferSize]
      /\ PositionOf(c, fs_cursor)[c] = fs_cursor - BufferSize
  BY Positions
<1>4. /\ (fs_cursor + count) - BufferSize = o + count /\ fs_cursor - BufferSize = o /\ o # -1
      /\ buf \in Nat /\ count \in Nat /\ buf + count <= BufferSize /\ o + count <= FileSize
  BY <1>1, Sizes DEF Transfer
<1>5. Position[c] = o /\ Position' = [Position EXCEPT ![c] = o + count]
  BY <1>2, <1>3, <1>4
<1>6. TheFile!Inside(c, buf, count)
  BY <1>4, <1>5 DEF TheFile!Inside, TheFile!Closed
<1> QED
  BY <1>1, <1>2, <1>4, <1>5, <1>6

LEMMA ReadImplements ==
    ASSUME TypeOK, NEW c \in Contexts, NEW buf \in Buffers, NEW count \in 1..FileSize,
           Read(c, buf, count)
    PROVE  TheFile!Read(c, buf, count)
<1>1. PICK o \in Nat :
        /\ fs_cursor = BufferSize + o /\ Position[c] = o
        /\ buf \in Nat /\ count \in Nat /\ buf + count <= BufferSize /\ o + count <= FileSize
        /\ TheFile!Inside(c, buf, count)
        /\ Position' = [Position EXCEPT ![c] = o + count] /\ result' = count
  BY TransferImplements DEF Read
<1>2. KeepsFile(mem, mem') /\ IsMoved(Total, mem, mem', buf, BufferSize + o, count)
  BY <1>1, ReadMoves
<1>3. Content' = Content
  BY <1>2, FileKept, Views
<1>4. BufferOf(mem') = ReadInto(BufferOf(mem), ContentOf(mem), buf, o, count)
  BY <1>1, <1>2, BufferRead
<1>5. DOMAIN Buffer = Buffers
  BY DEF Buffer
<1>6. Buffer' = [a \in DOMAIN Buffer |-> IF a \in buf..(buf + count - 1)
                                         THEN Content[Position[c] + (a - buf)] ELSE Buffer[a]]
  BY <1>1, <1>4, <1>5, Views DEF ReadInto
<1> QED
  BY <1>1, <1>3, <1>6 DEF TheFile!Read

LEMMA WriteImplements ==
    ASSUME TypeOK, NEW c \in Contexts, NEW buf \in Buffers, NEW count \in 1..FileSize,
           Write(c, buf, count)
    PROVE  TheFile!Write(c, buf, count)
<1>1. PICK o \in Nat :
        /\ fs_cursor = BufferSize + o /\ Position[c] = o
        /\ buf \in Nat /\ count \in Nat /\ buf + count <= BufferSize /\ o + count <= FileSize
        /\ TheFile!Inside(c, buf, count)
        /\ Position' = [Position EXCEPT ![c] = o + count] /\ result' = count
  BY TransferImplements DEF Write
<1>2. IsMoved(Total, mem, mem', BufferSize + o, buf, count)
  BY <1>1, WriteMoves
<1>3. /\ ContentOf(mem') = WrittenTo(ContentOf(mem), BufferOf(mem), o, buf, count)
      /\ BufferOf(mem') = BufferOf(mem)
  BY <1>1, <1>2, ContentWritten
<1>4. DOMAIN Content = 0..(FileSize - 1)
  BY DEF Content
<1>5. Content' = [p \in DOMAIN Content |->
                   IF p \in Position[c]..(Position[c] + count - 1)
                   THEN Buffer[buf + (p - Position[c])] ELSE Content[p]]
  BY <1>1, <1>3, <1>4, Views DEF WrittenTo
<1>6. Buffer' = Buffer
  BY <1>3, Views
<1> QED
  BY <1>1, <1>5, <1>6 DEF TheFile!Write

LEMMA StoreImplements ==
    ASSUME TypeOK, NEW offset \in 0..(FileSize - 1), NEW val \in Values, StoreMapped(offset, val)
    PROVE  TheFile!Store(offset)
<1>1. /\ \A a \in Memory : mem'[a] = IF a = BufferSize + offset THEN val ELSE mem[a]
      /\ Position' = Position /\ result' = 0
  BY StoreStores, Views DEF StoreMapped
<1>2. \A o \in 0..(FileSize - 1) : /\ BufferSize + o \in Memory
                                   /\ BufferSize + o = BufferSize + offset <=> o = offset
  BY Sizes
<1>3. \A a \in Buffers : a \in Memory /\ a # BufferSize + offset
  BY Sizes
<1>4. BufferOf(mem') = BufferOf(mem)
  BY <1>1, <1>3 DEF BufferOf
<1>5. Content' \in [DOMAIN Content -> 0..255]
      /\ \A o \in DOMAIN Content \ {offset} : Content'[o] = Content[o]
  <2>1. ContentOf(mem') = [ContentOf(mem) EXCEPT ![offset] = val]
    BY <1>1, <1>2 DEF ContentOf
  <2>2. ContentOf(mem) \in [0..(FileSize - 1) -> 0..255] /\ val \in 0..255
    BY <1>2, FlatFileAssumption DEF TypeOK, ContentOf
  <2>3. DOMAIN ContentOf(mem) = 0..(FileSize - 1)
    BY DEF ContentOf
  <2> QED
    BY <2>1, <2>2, <2>3, Views
<1> QED
  BY <1>1, <1>4, <1>5, Views DEF TheFile!Store

LEMMA StringCallImplements ==
    ASSUME TypeOK, StringCall
    PROVE  TheFile!Compute
<1>1. KeepsFile(mem, mem') /\ result' = 0 /\ Position' = Position
  BY StringCallsKeepFile, Views
<1>2. Content' = Content
  BY <1>1, FileKept, Views
<1>3. BufferOf(mem') \in [Buffers -> 0..255]
  <2>1. mem' \in [Memory -> 0..255]
    BY <1>1, MemoryType DEF KeepsFile
  <2>2. \A a \in Buffers : a \in Memory
    BY Sizes
  <2> QED
    BY <2>1, <2>2 DEF BufferOf
<1>4. DOMAIN Buffer = Buffers
  BY DEF Buffer
<1> QED
  BY <1>1, <1>2, <1>3, <1>4, Views DEF TheFile!Compute

LEMMA NextImplements == TypeOK /\ [Next]_vars => [TheFile!Next]_TheFile!vars
<1> SUFFICES ASSUME TypeOK, [Next]_vars PROVE [TheFile!Next]_TheFile!vars
  OBVIOUS
<1>1. ASSUME NEW c \in Contexts, Open(c) \/ Close(c) PROVE TheFile!Next
  BY <1>1, OpenImplements, CloseImplements DEF TheFile!Next
<1>2. ASSUME NEW c \in Contexts, NEW offset \in 0..FileSize, Lseek(c, offset) PROVE TheFile!Next
  BY <1>2, LseekImplements DEF TheFile!Next
<1>3. ASSUME NEW c \in Contexts, NEW buf \in Buffers, NEW count \in 1..FileSize,
             Read(c, buf, count) \/ Write(c, buf, count)
      PROVE  TheFile!Next
  <2>1. buf \in 0..(BufferSize - 1) /\ count \in 0..BufferSize
    BY <1>3, Sizes DEF Read, Write, Transfer
  <2>2. TheFile!Read(c, buf, count) \/ TheFile!Write(c, buf, count)
    BY <1>3, ReadImplements, WriteImplements
  <2> QED
    BY <2>1, <2>2 DEF TheFile!Next
<1>4. ASSUME NEW offset \in 0..(FileSize - 1), NEW val \in Values, StoreMapped(offset, val)
      PROVE  TheFile!Next
  <2>1. TheFile!Store(offset)
    BY <1>4, StoreImplements
  <2> QED
    BY <2>1 DEF TheFile!Next
<1>5. CASE StringCall
  BY <1>5, StringCallImplements DEF TheFile!Next
<1>6. CASE UNCHANGED vars
  BY <1>6, Views DEF vars, TheFile!vars
<1>7. FileCall => TheFile!Next
  BY <1>1, <1>2, <1>3 DEF FileCall
<1> QED
  BY <1>4, <1>5, <1>6, <1>7 DEF Next, StringCall

\* ImplementsFile: the one cursor serves every context as if it had a position
\* of its own, and nothing but the file's calls and the mapping changes the file
\* (unistd.c, mman.c, string.c, stdlib.c).
THEOREM FlatFileImplementsFile == Spec => ImplementsFile
BY InitImplements, NextImplements, FlatFileTypeCorrect, PTL DEF Spec, ImplementsFile, TheFile!Spec

-----------------------------------------------------------------------------
(* Numbers read back.                                                      *)

\* f tells the value of the first k characters of the n at p.
Value(f, m, p, n) ==
    f = [k \in 0..n |-> IF k = 0 THEN 0 ELSE 10 * f[k - 1] + (Char(m[p + k - 1]) - 48)]

LEMMA AtoiReads ==
    ASSUME NEW N \in Nat, NEW m \in Memories(N), NEW p \in Nat, NEW n \in Nat, p + n < N,
           EndsAfter(m, p, n),
           NEW g, g[0] = 0,
           \A k \in 1..n : g[k] = 10 * g[k - 1] + (Char(m[p + k - 1]) - 48)
    PROVE  atoi(m, p) = g[n]
<1>1. strlen(m, p) = n
  BY Strlen
<1>2. atoi(m, p) = (CHOOSE f : Value(f, m, p, n))[n]
  BY <1>1 DEF atoi, Value
<1>3. 0 \in 0..n /\ n \in 0..n /\ \A k \in 1..n : k \in 0..n /\ k - 1 \in 0..n /\ k # 0
  OBVIOUS
<1>4. \E f : Value(f, m, p, n)
  <2> DEFINE f == [k \in 0..n |-> g[k]]
  <2>1. \A k \in 0..n : f[k] = g[k]
    OBVIOUS
  <2>2. \A k \in 0..n : k = 0 \/ k \in 1..n
    OBVIOUS
  <2>3. f = [k \in 0..n |-> f[k]]
    OBVIOUS
  <2> HIDE DEF f
  <2>4. \A k \in 0..n : f[k] = IF k = 0 THEN 0 ELSE 10 * f[k - 1] + (Char(m[p + k - 1]) - 48)
    BY <1>3, <2>1, <2>2
  <2>5. Value(f, m, p, n)
    BY <2>3, <2>4 DEF Value
  <2> QED
    BY <2>5
<1>5. ASSUME NEW f, Value(f, m, p, n) PROVE f[n] = g[n]
  <2>1. \A k \in 0..n : f[k] = IF k = 0 THEN 0 ELSE 10 * f[k - 1] + (Char(m[p + k - 1]) - 48)
    BY <1>5 DEF Value
  <2>2. f[0] = g[0]
    BY <1>3, <2>1
  <2>3. \A k \in 1..n : f[k - 1] = g[k - 1] => f[k] = g[k]
    BY <1>3, <2>1
  <2>4. \A k \in 0..n : f[k] = g[k]
    BY <2>2, <2>3, SameRounds
  <2> QED
    BY <1>3, <2>4
<1> QED
  BY <1>2, <1>4, <1>5

\* The first k of the n digits are what is left after n - k rounds.
LEMMA UnsignedReadBack ==
    ASSUME NEW N \in Nat, NEW m \in Memories(N), NEW i \in Nat, NEW b \in Nat,
           NEW n \in Nat \ {0}, n = DigitCount(i, 10), b + n < N, i = 0 => m[b + 1] = 0,
           NEW after, after = itoa_u(m, i, b, 10)
    PROVE  atoi(after, b) = i
<1>1. /\ after \in Memories(N)
      /\ i = 0 => after[b] = 48 /\ \A a \in 0..(N - 1) : a # b => after[a] = m[a]
      /\ i # 0 => /\ after[b + n] = 0
                  /\ \A j \in 0..(n - 1) : after[b + j] = 48 + (Quotient(i, 10, n - 1 - j) % 10)
  <2>1. Printed(N, m, after, i, b, n)
    BY UnsignedPrinted
  <2> QED
    BY <2>1 DEF Printed
<1>2. CASE i = 0
  <2> DEFINE g == [k \in 0..1 |-> 0]
  <2>1. b + 1 \in 0..(N - 1) /\ b + 1 # b /\ b + 1 < N /\ 1 \in Nat
    OBVIOUS
  <2>2. after[b] = 48 /\ after[b + 1] = 0
    BY <1>1, <1>2, <2>1
  <2>3. EndsAfter(after, b, 1)
    <3>1. \A j \in 0..(1 - 1) : b + j = b
      OBVIOUS
    <3> QED
      BY <2>2, <3>1 DEF EndsAfter
  <2>4. \A k \in 1..1 : g[k] = 10 * g[k - 1] + (Char(after[b + k - 1]) - 48)
    <3>1. \A k \in 1..1 : k - 1 = 0 /\ b + k - 1 = b /\ k = 1
      OBVIOUS
    <3>2. Char(48) - 48 = 0
      BY DEF Char
    <3>3. g[0] = 0 /\ g[1] = 0
      OBVIOUS
    <3> HIDE DEF g
    <3> QED
      BY <2>2, <3>1, <3>2, <3>3
  <2>5. g[0] = 0 /\ g[1] = 0
    OBVIOUS
  <2> HIDE DEF g
  <2>6. atoi(after, b) = g[1]
    BY <1>1, <2>1, <2>3, <2>4, <2>5, AtoiReads
  <2> QED
    BY <1>2, <2>5, <2>6
<1>3. CASE i # 0
  <2> DEFINE q(k) == Quotient(i, 10, k)
             g == [k \in 0..n |-> q(n - k)]
  <2>1. \A k \in Nat : q(k) \in Nat /\ q(k + 1) = q(k) \div 10
    BY Quotients
  <2>2. q(n) = 0 /\ q(0) = i
    BY Digits, Quotients
  <2>3. after[b + n] = 0 /\ \A j \in 0..(n - 1) : after[b + j] = 48 + (q(n - 1 - j) % 10)
    BY <1>1, <1>3
  <2>4. g[0] = 0 /\ g[n] = i
    <3>1. 0 \in 0..n /\ n \in 0..n /\ n - 0 = n /\ n - n = 0
      OBVIOUS
    <3> HIDE DEF q
    <3> QED
      BY <2>2, <3>1
  <2>5. \A k \in 1..n : g[k] = q(n - k) /\ g[k - 1] = q((n - k) + 1)
    <3>1. \A k \in 1..n : k \in 0..n /\ k - 1 \in 0..n /\ n - (k - 1) = (n - k) + 1
      OBVIOUS
    <3> HIDE DEF q
    <3> QED
      BY <3>1
  <2> HIDE DEF g, q
  <2>6. EndsAfter(after, b, n)
    <3>1. ASSUME NEW j \in 0..(n - 1) PROVE after[b + j] # 0
      <4>1. n - 1 - j \in Nat
        OBVIOUS
      <4>2. PICK r \in Nat : r = q(n - 1 - j)
        BY <2>1, <4>1
      <4>3. after[b + j] = 48 + (r % 10)
        BY <2>3, <4>2
      <4>4. 48 + (r % 10) # 0
        OBVIOUS
      <4> QED
        BY <4>3, <4>4
    <3> QED
      BY <2>3, <3>1 DEF EndsAfter
  <2>7. ASSUME NEW k \in 1..n
        PROVE  g[k] = 10 * g[k - 1] + (Char(after[b + k - 1]) - 48)
    <3>1. n - k \in Nat /\ k - 1 \in 0..(n - 1) /\ b + (k - 1) = b + k - 1 /\ n - 1 - (k - 1) = n - k
      OBVIOUS
    <3>2. PICK r \in Nat : r = q(n - k)
      BY <2>1, <3>1
    <3>3. g[k] = r /\ g[k - 1] = r \div 10
      BY <2>1, <2>5, <3>1, <3>2
    <3>4. after[b + k - 1] = 48 + (r % 10)
      BY <2>3, <3>1, <3>2
    <3>5. r = 10 * (r \div 10) + (r % 10) /\ r % 10 \in 0..9
      OBVIOUS
    <3>6. Char(48 + (r % 10)) - 48 = r % 10
      BY <3>5 DEF Char
    <3> QED
      BY <3>3, <3>4, <3>5, <3>6
  <2>8. atoi(after, b) = g[n]
    BY <1>1, <2>4, <2>6, <2>7, AtoiReads
  <2> QED
    BY <2>4, <2>8
<1> QED
  BY <1>2, <1>3

\* NumbersReadBack: whatever number itoa is called with and whatever was in the
\* buffer, atoi returns the number behind the sign; of zero only if the byte
\* behind its digit is zero, since itoa_u stores no end there (stdlib.c).
THEOREM FlatFileNumbersReadBack == Spec => []NumbersReadBack
<1>1. TypeOK => NumbersReadBack
  <2> SUFFICES ASSUME TypeOK, NEW i \in Numbers, NEW b \in Buffers,
                      InBuffers(b, TextLength(i)), i = 0 => mem[b + 1] = 0
               PROVE  IF i < 0
                      THEN itoa(mem, i, b, 10)[b] = Minus /\ atoi(itoa(mem, i, b, 10), b + 1) = -i
                      ELSE atoi(itoa(mem, i, b, 10), b) = i
    BY DEF NumbersReadBack
  <2>1. /\ i \in Int /\ b \in Nat /\ b + TextLength(i) <= BufferSize
        /\ mem \in Memories(Total) /\ Total \in Nat
    BY Sizes, MemoryType, FlatFileAssumption DEF InBuffers, TypeOK
  <2>2. CASE i < 0
    <3> DEFINE signed == [mem EXCEPT ![b] = Minus]
               after == itoa(mem, i, b, 10)
    <3>1. PICK u \in Nat : u = -i /\ u # 0
      BY <2>1, <2>2
    <3>2. PICK n \in Nat \ {0} : n = DigitCount(u, 10)
      BY Digits
    <3>3. TextLength(i) = n + 2
      BY <2>2, <3>1, <3>2 DEF TextLength
    <3>4. PICK c \in Nat : c = b + 1
      BY <2>1
    <3>5. after = itoa_u(signed, u, c, 10)
      BY <2>2, <3>1, <3>4 DEF itoa
    <3>6. c + n < Total /\ b \in 0..(Total - 1) /\ b < c
      BY <2>1, <3>3, <3>4, Sizes
    <3>7. signed \in Memories(Total) /\ signed[b] = Minus
      <4>1. Minus \in Bytes /\ mem \in [0..(Total - 1) -> Bytes]
        BY <2>1 DEF Memories, Minus, Bytes
      <4> QED
        BY <3>6, <4>1 DEF Memories
    <3> HIDE DEF signed, after
    <3>8. after[b] = Minus
      <4>1. Printed(Total, signed, after, u, c, n)
        BY <2>1, <3>2, <3>5, <3>6, <3>7, UnsignedPrinted
      <4> QED
        BY <3>6, <3>7, <4>1 DEF Printed
    <3>9. atoi(after, c) = u
      BY <2>1, <3>1, <3>2, <3>5, <3>6, <3>7, UnsignedReadBack
    <3> QED
      BY <2>2, <3>1, <3>4, <3>8, <3>9 DEF after
  <2>3. CASE ~(i < 0)
    <3> DEFINE after == itoa(mem, i, b, 10)
    <3>1. i \in Nat
      BY <2>1, <2>3
    <3>2. PICK n \in Nat \ {0} : n = DigitCount(i, 10)
      BY <3>1, Digits
    <3>3. TextLength(i) = n + 1
      BY <2>3, <3>2 DEF TextLength
    <3>4. after = itoa_u(mem, i, b, 10)
      BY <2>3 DEF itoa
    <3>5. b + n < Total
      BY <2>1, <3>3, Sizes
    <3> HIDE DEF after
    <3>6. atoi(after, b) = i
      BY <2>1, <3>1, <3>2, <3>4, <3>5, UnsignedReadBack
    <3> QED
      BY <2>3, <3>6 DEF after
  <2> QED
    BY <2>2, <2>3
<1> QED
  BY <1>1, FlatFileTypeCorrect, PTL

-----------------------------------------------------------------------------
(* Strings as sequences of characters.                                     *)

LEMMA FunctionSequence ==
    ASSUME NEW S, NEW n \in Nat, NEW f \in [1..n -> S]
    PROVE  f \in Seq(S) /\ Len(f) = n
<1>1. f \in Seq(S)
  BY SeqDef
<1> QED
  BY <1>1, LenProperties

\* t spells the len characters at p.
Spells(t, m, p, len) ==
    /\ t \in Seq(Int) /\ Len(t) = len
    /\ \A i \in 1..len : t[i] = Char(m[p + i - 1])

LEMMA CharType == \A b \in Bytes : Char(b) \in Int /\ (Char(b) = 0 <=> b = 0)
BY DEF Char, Bytes

LEMMA CharInjective == \A a, b \in Bytes : Char(a) = Char(b) <=> a = b
BY DEF Char, Bytes

LEMMA CharsSpell ==
    ASSUME TypeOK, NEW p, Text(p)
    PROVE  Spells(Chars(p), mem, p, strlen(mem, p))
<1>1. PICK len \in Nat : len = strlen(mem, p) /\ p \in Nat /\ p + len < Total
  BY TextEnds
<1>2. Chars(p) = [i \in 1..len |-> Char(mem[p + i - 1])]
  BY <1>1 DEF Chars
<1>3. ASSUME NEW i \in 1..len PROVE Char(mem[p + i - 1]) \in Int
  <2>1. p + i - 1 \in 0..(Total - 1)
    BY <1>1, Sizes
  <2>2. mem[p + i - 1] \in Bytes
    BY <2>1, MemoryType DEF TypeOK, Memories
  <2> QED
    BY <2>2, CharType
<1>4. Chars(p) \in [1..len -> Int]
  BY <1>2, <1>3
<1>5. Chars(p) \in Seq(Int) /\ Len(Chars(p)) = len
  BY <1>4, FunctionSequence
<1>6. \A i \in 1..len : Chars(p)[i] = Char(mem[p + i - 1])
  BY <1>2
<1> QED
  BY <1>1, <1>5, <1>6 DEF Spells

-----------------------------------------------------------------------------
(* Joining.                                                                *)

IsAppended(N, m, after, e, s, n) ==
    /\ after \in Memories(N)
    /\ after[e + n] = 0
    /\ \A j \in 0..(n - 1) : after[e + j] = m[s + j]
    /\ \A a \in 0..(N - 1) : a < e \/ a > e + n => after[a] = m[a]

LEMMA AppendedIsAppended ==
    ASSUME NEW N \in Nat, NEW m \in Memories(N), NEW e \in Nat, NEW s \in Nat, NEW n \in Nat,
           e + n < N, s + n <= N
    PROVE  IsAppended(N, m, Appended(m, e, s, n), e, s, n)
<1> DEFINE copied == Moved(m, e, s, 0, n)
           after == Appended(m, e, s, n)
<1>1. IsMoved(N, m, copied, e, s, n)
  <2>1. e + n <= N
    OBVIOUS
  <2> QED
    BY <2>1, MovedIsMoved
<1>2. after = [copied EXCEPT ![e + n] = 0]
  BY DEF Appended
<1> HIDE DEF copied, after
<1>3. e + n \in 0..(N - 1) /\ 0 \in Bytes
  BY DEF Bytes
<1>4. copied \in [0..(N - 1) -> Bytes]
  BY <1>1 DEF IsMoved, Memories
<1>5. /\ after \in [0..(N - 1) -> Bytes] /\ after[e + n] = 0
      /\ \A a \in 0..(N - 1) : a # e + n => after[a] = copied[a]
  BY <1>2, <1>3, <1>4
<1>6. ASSUME NEW j \in 0..(n - 1) PROVE after[e + j] = m[s + j]
  <2>1. /\ e + j \in 0..(N - 1) /\ e + j # e + n /\ e + j \in e..(e + n - 1)
        /\ s + ((e + j) - e) = s + j
    OBVIOUS
  <2> QED
    BY <1>1, <1>5, <2>1 DEF IsMoved
<1>7. ASSUME NEW a \in 0..(N - 1), a < e \/ a > e + n PROVE after[a] = m[a]
  <2>1. a # e + n /\ ~(a \in e..(e + n - 1))
    BY <1>7
  <2> QED
    BY <1>1, <1>5, <2>1 DEF IsMoved
<1>8. IsAppended(N, m, after, e, s, n)
  BY <1>5, <1>6, <1>7 DEF IsAppended, Memories
<1> QED
  BY <1>8 DEF after

\* The characters behind the first string's are those of the second.
Joins(m, after, d, s, len, n) ==
    /\ EndsAfter(after, d, len + n)
    /\ \A i \in 1..(len + n) :
          after[d + i - 1] = IF i <= len THEN m[d + i - 1] ELSE m[s + (i - len) - 1]

LEMMA AppendedString ==
    ASSUME NEW N \in Nat, NEW m \in Memories(N), NEW d \in Nat, NEW s \in Nat, NEW n \in Nat,
           NEW len \in Nat, EndsAfter(m, d, len), NEW k \in Nat, EndsAfter(m, s, k), n <= k,
           NEW e \in Nat, e = d + len, e + n < N, s + n <= N,
           NEW after, IsAppended(N, m, after, e, s, n)
    PROVE  Joins(m, after, d, s, len, n)
<1>1. ASSUME NEW j \in 0..(len - 1) PROVE after[d + j] = m[d + j] /\ m[d + j] # 0
  <2>1. d + j \in 0..(N - 1) /\ d + j < e
    OBVIOUS
  <2> QED
    BY <2>1 DEF IsAppended, EndsAfter
<1>2. ASSUME NEW j \in 0..(n - 1) PROVE after[e + j] = m[s + j] /\ m[s + j] # 0
  <2>1. j \in 0..(k - 1)
    OBVIOUS
  <2> QED
    BY <2>1 DEF IsAppended, EndsAfter
<1>3. after[d + (len + n)] = 0
  <2>1. d + (len + n) = e + n
    OBVIOUS
  <2> QED
    BY <2>1 DEF IsAppended
<1>4. ASSUME NEW j \in 0..((len + n) - 1)
      PROVE  /\ after[d + j] # 0
             /\ after[d + j] = IF j < len THEN m[d + j] ELSE m[s + (j - len)]
  <2>1. CASE j < len
    <3>1. j \in 0..(len - 1)
      BY <2>1
    <3> QED
      BY <1>1, <2>1, <3>1
  <2>2. CASE ~(j < len)
    <3>1. j - len \in 0..(n - 1) /\ e + (j - len) = d + j
      BY <2>2
    <3> QED
      BY <1>2, <2>2, <3>1
  <2> QED
    BY <2>1, <2>2
<1>5. ASSUME NEW i \in 1..(len + n)
      PROVE  after[d + i - 1] = IF i <= len THEN m[d + i - 1] ELSE m[s + (i - len) - 1]
  <2>1. /\ i - 1 \in 0..((len + n) - 1) /\ d + (i - 1) = d + i - 1
        /\ (i - 1 < len) <=> (i <= len) /\ s + ((i - 1) - len) = s + (i - len) - 1
    OBVIOUS
  <2> QED
    BY <1>4, <2>1
<1> QED
  BY <1>3, <1>4, <1>5 DEF EndsAfter, Joins

\* TextsJoin: strncat makes of the two strings, and however many characters it
\* may take, one that ends, and touches nothing else (string.c).
THEOREM FlatFileTextsJoin == Spec => []TextsJoin
<1>1. TypeOK => TextsJoin
  <2> SUFFICES ASSUME TypeOK, NEW d \in Buffers, NEW s \in Buffers, NEW count \in 0..BufferSize,
                      Text(d), Text(s), InBuffers(d, strlen(mem, d) + count + 1),
                      Apart(d, strlen(mem, d) + count + 1, s, strlen(mem, s) + 1)
               PROVE  LET after == strncat(mem, d, s, count)
                          joined == Chars(d) \o SubSeq(Chars(s), 1, Min({count, Len(Chars(s))}))
                      IN  /\ strlen(after, d) = Len(joined)
                          /\ \A i \in 1..Len(joined) : Char(after[d + i - 1]) = joined[i]
                          /\ \A a \in Memory \ (d..(d + Len(joined))) : after[a] = mem[a]
    BY DEF TextsJoin
  <2>1. PICK len \in Nat : /\ len = strlen(mem, d) /\ EndsAfter(mem, d, len)
                           /\ Spells(Chars(d), mem, d, len)
    BY TextEnds, CharsSpell
  <2>2. PICK k \in Nat : /\ k = strlen(mem, s) /\ EndsAfter(mem, s, k) /\ s + k < Total
                         /\ Spells(Chars(s), mem, s, k)
    BY TextEnds, CharsSpell
  <2>3. PICK e \in Nat : e = d + len
    BY Sizes
  <2>4. PICK n \in Nat : n = IF count <= k THEN count ELSE k
    BY Sizes
  <2>5. /\ Total \in Nat /\ BufferSize \in Nat /\ BufferSize <= Total /\ mem \in Memories(Total)
        /\ d \in Nat /\ s \in Nat /\ count \in Nat
    BY Sizes, MemoryType DEF TypeOK
  <2>6. e + count < Total /\ (e + count < s \/ s + k < d)
    <3>1. /\ d + (len + count + 1) <= BufferSize
          /\ d + (len + count + 1) <= s \/ s + (k + 1) <= d
      BY <2>1, <2>2 DEF InBuffers, Apart
    <3> QED
      BY <2>3, <2>5, <3>1
  <2>7. n <= k /\ n <= count /\ e + n < Total /\ s + n <= Total
    BY <2>2, <2>4, <2>5, <2>6
  <2> DEFINE after == strncat(mem, d, s, count)
             cs == Chars(s)
             cd == Chars(d)
             joined == cd \o SubSeq(cs, 1, n)
  <2>8. after = Appended(mem, e, s, n)
    <3>1. strlen(mem, d) = len /\ strlen(mem, s) = k
      BY <2>1, <2>2
    <3>2. /\ k \in Nat /\ len \in Nat /\ e \in Nat /\ e = d + len /\ s + k < Total
          /\ n \in Nat /\ n = IF count <= k THEN count ELSE k
      BY <2>2, <2>3, <2>4, <2>5
    <3>3. Total \in Nat /\ mem \in Memories(Total) /\ d \in Nat /\ s \in Nat /\ count \in Nat
      BY <2>5
    <3> HIDE DEF after, cs, cd, joined
    <3>4. strncat(mem, d, s, count) = Appended(mem, e, s, n)
      BY <2>6, <3>1, <3>2, <3>3, StrncatMoves
    <3> QED
      BY <3>4 DEF after
  <2> HIDE DEF after, cs, cd
  <2>9. IsAppended(Total, mem, after, e, s, n)
    BY <2>5, <2>7, <2>8, AppendedIsAppended
  <2>10. /\ EndsAfter(after, d, len + n)
         /\ \A i \in 1..(len + n) :
              after[d + i - 1] = IF i <= len THEN mem[d + i - 1] ELSE mem[s + (i - len) - 1]
    <3>1. Joins(mem, after, d, s, len, n)
      BY <2>1, <2>2, <2>3, <2>5, <2>7, <2>9, AppendedString
    <3> QED
      BY <3>1 DEF Joins
  <2>11. strlen(after, d) = len + n
    <3>1. len + n \in Nat /\ d + (len + n) < Total /\ after \in Memories(Total)
      BY <2>3, <2>5, <2>7, <2>9 DEF IsAppended
    <3> QED
      BY <2>5, <2>10, <3>1, Strlen
  <2>12. /\ cs \in Seq(Int) /\ Len(cs) = k /\ \A i \in 1..k : cs[i] = Char(mem[s + i - 1])
         /\ cd \in Seq(Int) /\ Len(cd) = len /\ \A i \in 1..len : cd[i] = Char(mem[d + i - 1])
    BY <2>1, <2>2 DEF Spells, cs, cd
  <2> DEFINE taken == SubSeq(cs, 1, n)
  <2>13. /\ taken \in Seq(Int) /\ Len(taken) = n
         /\ \A i \in 1..n : taken[i] = cs[i]
    <3>1. \A i \in 1..n : cs[i] \in Int
      BY <2>7, <2>12, ElementOfSeq
    <3>2. 1 \in Int /\ n \in Int
      OBVIOUS
    <3>3. /\ taken \in Seq(Int) /\ Len(taken) = IF 1 <= n THEN n - 1 + 1 ELSE 0
          /\ \A i \in 1..(n - 1 + 1) : taken[i] = cs[1 + i - 1]
      BY <3>1, <3>2, SubSeqProperties
    <3>4. n - 1 + 1 = n /\ (1 <= n \/ n = 0) /\ \A i \in 1..n : 1 + i - 1 = i
      OBVIOUS
    <3> HIDE DEF taken
    <3> QED
      BY <3>3, <3>4
  <2>0. joined = cd \o taken
    OBVIOUS
  <2> HIDE DEF taken, joined
  <2>14. /\ Len(joined) = len + n
         /\ \A i \in 1..(len + n) : joined[i] = IF i <= len THEN cd[i] ELSE taken[i - len]
    <3>1. /\ Len(cd \o taken) = Len(cd) + Len(taken)
          /\ \A i \in 1..(Len(cd) + Len(taken)) :
                (cd \o taken)[i] = IF i <= Len(cd) THEN cd[i] ELSE taken[i - Len(cd)]
      BY <2>12, <2>13, ConcatProperties
    <3> QED
      BY <2>0, <2>12, <2>13, <3>1
  <2>15. ASSUME NEW i \in 1..(len + n) PROVE Char(after[d + i - 1]) = joined[i]
    <3>1. CASE i <= len
      <4>1. i \in 1..len
        BY <3>1
      <4> QED
        BY <2>10, <2>12, <2>14, <3>1, <4>1
    <3>2. CASE ~(i <= len)
      <4>1. i - len \in 1..n /\ i - len \in 1..k
        BY <2>7, <3>2
      <4>2. joined[i] = Char(mem[s + (i - len) - 1])
        BY <2>12, <2>13, <2>14, <3>2, <4>1
      <4> QED
        BY <2>10, <3>2, <4>2
    <3> QED
      BY <3>1, <3>2
  <2>16. ASSUME NEW a \in Memory \ (d..(d + (len + n))) PROVE after[a] = mem[a]
    <3>1. a \in 0..(Total - 1) /\ (a < e \/ a > e + n)
      BY <2>3, <2>5, Sizes
    <3> QED
      BY <2>9, <3>1 DEF IsAppended
  <2>17. Min({count, Len(Chars(s))}) = n
    <3>1. Len(Chars(s)) = k
      BY <2>12 DEF cs
    <3> QED
      BY <2>4, <2>5, <3>1, MinOfTwo
  <2> QED
    BY <2>11, <2>14, <2>15, <2>16, <2>17 DEF after, joined, cs, cd
<1> QED
  BY <1>1, FlatFileTypeCorrect, PTL

-----------------------------------------------------------------------------
(* Comparing.                                                              *)

\* s is the string of k characters at p.
IsString(s, m, p, k) == EndsAfter(m, p, k) /\ Spells(s, m, p, k)

LEMMA TextIsString ==
    ASSUME TypeOK, NEW p, Text(p)
    PROVE  \E k \in Nat : /\ k = strlen(mem, p) /\ p \in Nat /\ p + k < Total
                          /\ IsString(Chars(p), mem, p, k)
BY TextEnds, CharsSpell DEF IsString

\* What a loop sees at the j-th place is the character there, or the end.
Seen(s, m, p, k) ==
    \A j \in 0..k : /\ At(m, p + j) \in Bytes
                    /\ Char(At(m, p + j)) = CharAt(s, j + 1) /\ CharAt(s, j + 1) \in Int
                    /\ (CharAt(s, j + 1) = 0) <=> (j = k)
                    /\ (At(m, p + j) = 0) <=> (j = k)

LEMMA StringSeen ==
    ASSUME NEW N \in Nat, NEW m \in Memories(N), NEW p \in Nat, NEW k \in Nat, p + k < N,
           NEW s, IsString(s, m, p, k)
    PROVE  Seen(s, m, p, k)
<1> SUFFICES ASSUME NEW j \in 0..k
             PROVE  /\ At(m, p + j) \in Bytes
                    /\ Char(At(m, p + j)) = CharAt(s, j + 1) /\ CharAt(s, j + 1) \in Int
                    /\ (CharAt(s, j + 1) = 0) <=> (j = k)
                    /\ (At(m, p + j) = 0) <=> (j = k)
  BY DEF Seen
<1>1. PICK b \in Bytes : b = At(m, p + j) /\ b = m[p + j]
  <2>1. p + j \in 0..(N - 1)
    OBVIOUS
  <2> QED
    BY <2>1 DEF At, Memories
<1>2. (b = 0) <=> (j = k)
  <2>1. j # k => j \in 0..(k - 1)
    OBVIOUS
  <2> QED
    BY <1>1, <2>1 DEF IsString, EndsAfter
<1>3. Char(b) \in Int /\ ((Char(b) = 0) <=> (b = 0))
  BY CharType
<1>4. CharAt(s, j + 1) = Char(b)
  <2>1. CASE j = k
    <3>1. ~(j + 1 <= k) /\ Len(s) = k
      BY <2>1 DEF IsString, Spells
    <3>2. CharAt(s, j + 1) = 0
      BY <3>1 DEF CharAt
    <3> QED
      BY <1>2, <1>3, <2>1, <3>2
  <2>2. CASE j # k
    <3>1. j + 1 \in 1..k /\ j + 1 <= k /\ p + (j + 1) - 1 = p + j
      BY <2>2
    <3>2. Len(s) = k /\ s[j + 1] = Char(m[p + (j + 1) - 1])
      BY <3>1 DEF IsString, Spells
    <3> QED
      BY <1>1, <3>1, <3>2 DEF CharAt
  <2> QED
    BY <2>1, <2>2
<1> QED
  BY <1>1, <1>2, <1>3, <1>4

\* strcmp stops at the first place where the strings differ, or at the end of both.
Stops(s, t, k, l, n) ==
    /\ n \in 0..k /\ n \in 0..l
    /\ \A i \in 1..n : CharAt(s, i) = CharAt(t, i)
    /\ CharAt(s, n + 1) = CharAt(t, n + 1) => n = k /\ n = l

LEMMA StrcmpStops ==
    ASSUME NEW N \in Nat, NEW m \in Memories(N), NEW p \in Nat, NEW q \in Nat,
           NEW k \in Nat, NEW l \in Nat, p + k < N, q + l < N,
           NEW s, Seen(s, m, p, k), NEW t, Seen(t, m, q, l)
    PROVE  \E n \in Nat : /\ Stops(s, t, k, l, n)
                          /\ strcmp(m, p, q) = CharAt(s, n + 1) - CharAt(t, n + 1)
<1> DEFINE T == {i \in DOMAIN m : Difference(m, p, q, i) # 0 \/ At(m, p + i) = 0}
           n == Min(T)
<1>1. k \in T
  <2>1. k \in 0..k /\ k \in 0..(N - 1)
    OBVIOUS
  <2> QED
    BY <2>1 DEF Seen, Memories
<1>2. T \subseteq Nat
  BY DEF Memories
<1>3. strcmp(m, p, q) = Difference(m, p, q, n)
  BY DEF strcmp
<1>4. /\ n \in Nat /\ n <= k
      /\ Difference(m, p, q, n) # 0 \/ At(m, p + n) = 0
  <2> HIDE DEF T
  <2>1. n \in T /\ n \in Nat /\ n <= k
    BY <1>1, <1>2, MinOfNaturals
  <2> QED
    BY <2>1 DEF T
<1>5. ASSUME NEW j \in 0..(n - 1) PROVE Difference(m, p, q, j) = 0 /\ At(m, p + j) # 0
  <2>1. j \in 0..(N - 1) /\ ~(n <= j)
    BY <1>4
  <2>2. j \in T => n <= j
    <3> HIDE DEF T
    <3> QED
      BY <1>1, <1>2, MinOfNaturals
  <2> HIDE DEF n
  <2> QED
    BY <2>1, <2>2 DEF Memories
<1> HIDE DEF n
<1>6. ASSUME NEW j \in Nat, j <= k, j <= l
      PROVE  Difference(m, p, q, j) = CharAt(s, j + 1) - CharAt(t, j + 1)
  <2>1. j \in 0..k /\ j \in 0..l
    BY <1>6
  <2> QED
    BY <2>1 DEF Difference, Seen
<1>7. n <= l
  <2> SUFFICES ASSUME l < n PROVE FALSE
    BY <1>4
  <2>1. l \in 0..(n - 1) /\ l \in 0..k /\ l \in 0..l /\ l <= k /\ l <= l /\ l # k
    BY <1>4
  <2>2. CharAt(s, l + 1) - CharAt(t, l + 1) = 0
    BY <1>5, <1>6, <2>1
  <2>3. CharAt(t, l + 1) = 0 /\ CharAt(s, l + 1) # 0 /\ CharAt(s, l + 1) \in Int
    BY <2>1 DEF Seen
  <2> QED
    BY <2>2, <2>3
<1>8. ASSUME NEW i \in 1..n PROVE CharAt(s, i) = CharAt(t, i)
  <2>1. PICK j \in 0..(n - 1) : i = j + 1
    <3>1. i - 1 \in 0..(n - 1) /\ i = (i - 1) + 1
      BY <1>4
    <3> QED
      BY <3>1
  <2>2. j \in Nat /\ j <= k /\ j <= l /\ j \in 0..k /\ j \in 0..l
    BY <1>4, <1>7
  <2>3. CharAt(s, j + 1) - CharAt(t, j + 1) = 0
    BY <1>5, <1>6, <2>2
  <2>4. CharAt(s, j + 1) \in Int /\ CharAt(t, j + 1) \in Int
    BY <2>2 DEF Seen
  <2> QED
    BY <2>1, <2>3, <2>4
<1>9. n \in 0..k /\ n \in 0..l
  BY <1>4, <1>7
<1>10. ASSUME CharAt(s, n + 1) = CharAt(t, n + 1) PROVE n = k /\ n = l
  <2>1. Difference(m, p, q, n) = 0
    <3>1. CharAt(s, n + 1) \in Int /\ CharAt(t, n + 1) \in Int
      BY <1>9 DEF Seen
    <3> QED
      BY <1>4, <1>6, <1>7, <1>10, <3>1
  <2>2. At(m, p + n) = 0
    BY <1>4, <2>1
  <2>3. n = k
    BY <1>9, <2>2 DEF Seen
  <2>4. CharAt(s, n + 1) = 0
    BY <1>9, <2>3 DEF Seen
  <2>5. n = l
    BY <1>9, <1>10, <2>4 DEF Seen
  <2> QED
    BY <2>3, <2>5
<1>11. Stops(s, t, k, l, n)
  BY <1>8, <1>9, <1>10 DEF Stops
<1>12. strcmp(m, p, q) = CharAt(s, n + 1) - CharAt(t, n + 1)
  BY <1>3, <1>4, <1>6, <1>7
<1> QED
  BY <1>4, <1>11, <1>12

\* The place where strcmp stops decides.
LEMMA StopsDecide ==
    ASSUME NEW k \in Nat, NEW l \in Nat, NEW n \in Nat,
           NEW m, NEW p, NEW q,
           NEW s \in Seq(Int), Len(s) = k, Seen(s, m, p, k),
           NEW t \in Seq(Int), Len(t) = l, Seen(t, m, q, l),
           Stops(s, t, k, l, n),
           NEW d, d = CharAt(s, n + 1) - CharAt(t, n + 1)
    PROVE  /\ (d = 0) <=> (s = t)
           /\ (d < 0) <=> Before(s, t)
<1>1. /\ n <= k /\ n <= l /\ n \in 0..k /\ n \in 0..l
      /\ CharAt(s, n + 1) \in Int /\ CharAt(t, n + 1) \in Int
  <2>1. n \in 0..k /\ n \in 0..l
    BY DEF Stops
  <2>2. CharAt(s, n + 1) \in Int /\ CharAt(t, n + 1) \in Int
    BY <2>1 DEF Seen
  <2> QED
    BY <2>1, <2>2
<1>2. ASSUME d = 0 PROVE s = t
  <2>1. n = k /\ n = l
    BY <1>1, <1>2 DEF Stops
  <2>2. \A i \in 1..k : CharAt(s, i) = CharAt(t, i) /\ i <= Len(s) /\ i <= Len(t)
    BY <2>1 DEF Stops
  <2>3. \A i \in 1..k : s[i] = t[i]
    BY <2>2 DEF CharAt
  <2> QED
    BY <2>1, <2>3, SeqEqual
<1>3. ASSUME s = t PROVE d = 0
  BY <1>1, <1>3
<1>4. ASSUME d < 0 PROVE Before(s, t)
  <2>1. n + 1 \in 1..(Len(s) + 1) /\ CharAt(s, n + 1) < CharAt(t, n + 1)
    BY <1>1, <1>4
  <2>2. \A j \in 1..((n + 1) - 1) : CharAt(s, j) = CharAt(t, j)
    BY DEF Stops
  <2> QED
    BY <2>1, <2>2 DEF Before
<1>5. ASSUME Before(s, t) PROVE d < 0
  <2>1. PICK i \in 1..(k + 1) : /\ CharAt(s, i) < CharAt(t, i)
                                /\ \A j \in 1..(i - 1) : CharAt(s, j) = CharAt(t, j)
    BY <1>5 DEF Before
  <2>2. CASE i <= n
    <3>1. i \in 1..n /\ i - 1 \in 0..k /\ (i - 1) + 1 = i
      BY <1>1, <2>2
    <3>2. CharAt(s, i) = CharAt(t, i) /\ CharAt(s, i) \in Int
      BY <3>1 DEF Stops, Seen
    <3> QED
      BY <2>1, <3>2
  <2>3. CASE i = n + 1
    BY <1>1, <2>1, <2>3
  <2>4. CASE i > n + 1
    <3>1. n + 1 \in 1..(i - 1)
      BY <2>4
    <3>2. n = k
      BY <2>1, <3>1 DEF Stops
    <3> QED
      BY <2>4, <3>2
  <2> QED
    BY <2>2, <2>3, <2>4
<1> QED
  BY <1>2, <1>3, <1>4, <1>5

\* strncmp looks at one character more than it is told to, and says that strings
\* are equal of which one begins with the other.
LEMMA StrncmpTells ==
    ASSUME NEW N \in Nat, NEW m \in Memories(N), NEW p \in Nat, NEW q \in Nat,
           NEW k \in Nat, NEW l \in Nat,
           NEW s, IsString(s, m, p, k), Seen(s, m, p, k),
           NEW t, IsString(t, m, q, l), Seen(t, m, q, l), NEW count \in Nat
    PROVE  /\ (strncmp(m, p, q, count) # 0) <=>
                  \E i \in 1..(count + 1) : i <= k /\ i <= l /\ s[i] # t[i]
           /\ \A i \in 1..count : DifferFirst(s, t, i) =>
                  strncmp(m, p, q, count) = s[i] - t[i]
<1> DEFINE T == {i \in 0..count : \/ At(m, p + i) = 0 \/ At(m, q + i) = 0
                                  \/ Difference(m, p, q, i) # 0 \/ i = count}
           n == Min(T)
<1>1. T \subseteq Nat /\ count \in T
  OBVIOUS
<1>2. /\ n \in 0..count
      /\ \/ At(m, p + n) = 0 \/ At(m, q + n) = 0
         \/ Difference(m, p, q, n) # 0 \/ n = count
  <2> HIDE DEF T
  <2>1. n \in T
    BY <1>1, MinOfNaturals
  <2> QED
    BY <2>1 DEF T
<1>3. ASSUME NEW j \in 0..count,
             \/ At(m, p + j) = 0 \/ At(m, q + j) = 0 \/ Difference(m, p, q, j) # 0
      PROVE  n <= j
  <2>1. j \in T
    BY <1>3
  <2> HIDE DEF T
  <2> QED
    BY <1>1, <2>1, MinOfNaturals
<1>4. strncmp(m, p, q, count) =
        IF At(m, p + n) # 0 /\ At(m, q + n) # 0 THEN Difference(m, p, q, n) ELSE 0
  BY DEF strncmp
<1> HIDE DEF n
<1>5. ASSUME NEW j \in Nat, j < k, j < l
      PROVE  /\ At(m, p + j) # 0 /\ At(m, q + j) # 0
             /\ (Difference(m, p, q, j) # 0) <=> (s[j + 1] # t[j + 1])
             /\ Difference(m, p, q, j) = s[j + 1] - t[j + 1]
  <2>1. j \in 0..k /\ j \in 0..l /\ j # k /\ j # l /\ j + 1 <= k /\ j + 1 <= l
    BY <1>5
  <2>2. /\ At(m, p + j) # 0 /\ At(m, q + j) # 0
        /\ Difference(m, p, q, j) = CharAt(s, j + 1) - CharAt(t, j + 1)
        /\ CharAt(s, j + 1) \in Int /\ CharAt(t, j + 1) \in Int
    BY <2>1 DEF Seen, Difference
  <2>3. CharAt(s, j + 1) = s[j + 1] /\ CharAt(t, j + 1) = t[j + 1]
    BY <2>1 DEF CharAt, IsString, Spells
  <2> QED
    BY <2>2, <2>3
<1>6. ASSUME strncmp(m, p, q, count) # 0
      PROVE  \E i \in 1..(count + 1) : i <= k /\ i <= l /\ s[i] # t[i]
  <2>1. At(m, p + n) # 0 /\ At(m, q + n) # 0 /\ Difference(m, p, q, n) # 0
    BY <1>4, <1>6
  <2>2. n < k
    <3>1. n # k /\ (k \in 0..count => n <= k)
      <4>1. k \in 0..k
        OBVIOUS
      <4>2. At(m, p + k) = 0
        BY <4>1 DEF Seen
      <4> QED
        BY <1>3, <2>1, <4>2
    <3> QED
      BY <1>2, <3>1
  <2>3. n < l
    <3>1. n # l /\ (l \in 0..count => n <= l)
      <4>1. l \in 0..l
        OBVIOUS
      <4>2. At(m, q + l) = 0
        BY <4>1 DEF Seen
      <4> QED
        BY <1>3, <2>1, <4>2
    <3> QED
      BY <1>2, <3>1
  <2>4. s[n + 1] # t[n + 1] /\ n + 1 \in 1..(count + 1) /\ n + 1 <= k /\ n + 1 <= l
    BY <1>2, <1>5, <2>1, <2>2, <2>3
  <2> QED
    BY <2>4
<1>7. ASSUME NEW i \in 1..(count + 1), i <= k, i <= l, s[i] # t[i]
      PROVE  strncmp(m, p, q, count) # 0
  <2>1. PICK j \in 0..count : i = j + 1
    <3>1. i - 1 \in 0..count /\ i = (i - 1) + 1
      OBVIOUS
    <3> QED
      BY <3>1
  <2>2. j \in Nat /\ j < k /\ j < l /\ Difference(m, p, q, j) # 0
    <3>1. j \in Nat /\ j < k /\ j < l
      BY <1>7, <2>1
    <3> QED
      BY <1>5, <1>7, <2>1, <3>1
  <2>3. n <= j
    BY <1>3, <2>2
  <2>4. n \in Nat /\ n < k /\ n < l
    BY <1>2, <2>2, <2>3
  <2>5. At(m, p + n) # 0 /\ At(m, q + n) # 0
    BY <1>5, <2>4
  <2>6. Difference(m, p, q, n) # 0
    <3>1. n = count => n = j
      BY <1>2, <2>1, <2>3
    <3> QED
      BY <1>2, <2>2, <2>5, <3>1
  <2> QED
    BY <1>4, <2>5, <2>6
<1>8. ASSUME NEW i \in 1..count, DifferFirst(s, t, i)
      PROVE  strncmp(m, p, q, count) = s[i] - t[i]
  <2>1. /\ i <= k /\ i <= l /\ s[i] # t[i] /\ \A j \in 1..(i - 1) : s[j] = t[j]
    BY <1>8 DEF DifferFirst, IsString, Spells
  <2>2. PICK j \in 0..count : i = j + 1 /\ j < count
    <3>1. i - 1 \in 0..count /\ i = (i - 1) + 1 /\ i - 1 < count
      OBVIOUS
    <3> QED
      BY <3>1
  <2>3. j \in Nat /\ j < k /\ j < l /\ Difference(m, p, q, j) # 0
    <3>1. j \in Nat /\ j < k /\ j < l
      BY <2>1, <2>2
    <3> QED
      BY <1>5, <2>1, <2>2, <3>1
  <2>4. n <= j /\ n \in Nat /\ n < k /\ n < l
    BY <1>2, <1>3, <2>3
  <2>5. /\ At(m, p + n) # 0 /\ At(m, q + n) # 0
        /\ Difference(m, p, q, n) = s[n + 1] - t[n + 1]
        /\ (Difference(m, p, q, n) # 0) <=> (s[n + 1] # t[n + 1])
    BY <1>5, <2>4
  <2>6. n = j
    <3> SUFFICES ASSUME n < j PROVE FALSE
      BY <2>4
    <3>1. n + 1 \in 1..(i - 1) /\ n # count
      BY <2>2, <2>4
    <3> QED
      BY <1>2, <2>1, <2>5, <3>1
  <2> QED
    BY <1>4, <2>2, <2>5, <2>6
<1> QED
  BY <1>6, <1>7, <1>8

\* StringsCompare: of any two strings in the buffers, strcmp and strncmp find equal
\* what is equal and order ASCII as the standard does, strncmp where they differ
\* within the count and before either ends (string.c).
THEOREM FlatFileStringsCompare == Spec => []StringsCompare
<1>1. TypeOK => StringsCompare
  <2> SUFFICES ASSUME TypeOK, NEW p \in Buffers, NEW q \in Buffers, Text(p), Text(q)
               PROVE  LET s == Chars(p)
                          t == Chars(q)
                      IN  /\ (strcmp(mem, p, q) = 0) <=> (s = t)
                          /\ Ascii(s) /\ Ascii(t) =>
                                ((strcmp(mem, p, q) < 0) <=> Before(s, t))
                          /\ \A n \in 0..BufferSize :
                                /\ s = t => strncmp(mem, p, q, n) = 0
                                /\ \A i \in 1..n : DifferFirst(s, t, i) =>
                                      /\ strncmp(mem, p, q, n) # 0
                                      /\ Ascii(s) /\ Ascii(t) =>
                                            ((strncmp(mem, p, q, n) < 0) <=> (s[i] < t[i]))
    BY DEF StringsCompare
  <2> DEFINE s == Chars(p)
             t == Chars(q)
  <2>1. PICK k \in Nat : p \in Nat /\ p + k < Total /\ IsString(s, mem, p, k)
    BY TextIsString
  <2>2. PICK l \in Nat : q \in Nat /\ q + l < Total /\ IsString(t, mem, q, l)
    BY TextIsString
  <2> HIDE DEF s, t
  <2>3. Total \in Nat /\ mem \in Memories(Total)
    BY Sizes, MemoryType DEF TypeOK
  <2>4. Seen(s, mem, p, k) /\ Seen(t, mem, q, l)
    BY <2>1, <2>2, <2>3, StringSeen
  <2>5. s \in Seq(Int) /\ Len(s) = k /\ t \in Seq(Int) /\ Len(t) = l
    BY <2>1, <2>2 DEF IsString, Spells
  <2>6. PICK n \in Nat : /\ Stops(s, t, k, l, n)
                         /\ strcmp(mem, p, q) = CharAt(s, n + 1) - CharAt(t, n + 1)
    BY <2>1, <2>2, <2>3, <2>4, StrcmpStops
  <2>7. /\ (strcmp(mem, p, q) = 0) <=> (s = t)
        /\ (strcmp(mem, p, q) < 0) <=> Before(s, t)
    BY <2>4, <2>5, <2>6, StopsDecide
  <2>8. ASSUME NEW c \in 0..BufferSize
        PROVE  /\ s = t => strncmp(mem, p, q, c) = 0
               /\ \A i \in 1..c : DifferFirst(s, t, i) =>
                    /\ strncmp(mem, p, q, c) # 0
                    /\ Ascii(s) /\ Ascii(t) =>
                          ((strncmp(mem, p, q, c) < 0) <=> (s[i] < t[i]))
    <3>1. c \in Nat
      BY Sizes
    <3>2. /\ (strncmp(mem, p, q, c) # 0) <=>
                  \E i \in 1..(c + 1) : i <= k /\ i <= l /\ s[i] # t[i]
          /\ \A i \in 1..c : DifferFirst(s, t, i) => strncmp(mem, p, q, c) = s[i] - t[i]
      BY <2>1, <2>2, <2>3, <2>4, <3>1, StrncmpTells
    <3>3. s = t => strncmp(mem, p, q, c) = 0
      BY <3>2
    <3>4. ASSUME NEW i \in 1..c, DifferFirst(s, t, i)
          PROVE  /\ strncmp(mem, p, q, c) # 0
                 /\ (strncmp(mem, p, q, c) < 0) <=> (s[i] < t[i])
      <4>1. s[i] \in Int /\ t[i] \in Int /\ s[i] # t[i]
        BY <2>5, <3>4, ElementOfSeq DEF DifferFirst
      <4>2. strncmp(mem, p, q, c) = s[i] - t[i]
        BY <3>2, <3>4
      <4> QED
        BY <4>1, <4>2
    <3> QED
      BY <3>3, <3>4
  <2> QED
    BY <2>7, <2>8 DEF s, t
<1> QED
  BY <1>1, FlatFileTypeCorrect, PTL

-----------------------------------------------------------------------------
(* Searching.                                                              *)

\* The l characters of t are behind the first i of the k of s.
Occurs(t, s, l, k, i) == i + l <= k /\ \A j \in 1..l : t[j] = s[i + j]

LEMMA PrefixOccurs ==
    ASSUME NEW k \in Nat, NEW l \in Nat, NEW i \in 0..k,
           NEW s \in Seq(Int), Len(s) = k, NEW t \in Seq(Int), Len(t) = l
    PROVE  IsPrefixOf(t, SubSeq(s, i + 1, Len(s))) <=> Occurs(t, s, l, k, i)
<1> DEFINE u == SubSeq(s, i + 1, k)
<1>1. PICK a \in Int : a = i + 1
  OBVIOUS
<1>2. \A j \in a..k : s[j] \in Int
  <2>1. \A j \in a..k : j \in 1..k
    BY <1>1
  <2> QED
    BY <2>1, ElementOfSeq
<1>3. /\ Len(SubSeq(s, a, k)) = IF a <= k THEN k - a + 1 ELSE 0
      /\ \A j \in 1..(k - a + 1) : SubSeq(s, a, k)[j] = s[a + j - 1]
  <2>1. k \in Int
    OBVIOUS
  <2> QED
    BY <1>2, <2>1, SubSeqProperties
<1>4. u = SubSeq(s, a, k)
  BY <1>1
<1> HIDE DEF u
<1>5. Len(u) = k - i /\ \A j \in 1..(k - i) : u[j] = s[i + j]
  <2>1. k - a + 1 = k - i /\ (a <= k \/ k - i = 0) /\ \A j \in 1..(k - i) : a + j - 1 = i + j
    BY <1>1
  <2> QED
    BY <1>3, <1>4, <2>1
<1>6. (l <= Len(u)) <=> (i + l <= k)
  BY <1>5
<1>7. ASSUME i + l <= k, NEW j \in 1..l PROVE u[j] = s[i + j]
  <2>1. j \in 1..(k - i)
    BY <1>7
  <2> QED
    BY <1>5, <2>1
<1>8. IsPrefixOf(t, u) <=> Occurs(t, s, l, k, i)
  BY <1>6, <1>7 DEF IsPrefixOf, Occurs
<1> QED
  BY <1>8 DEF u

\* strstr returns the first of these places.
Found(m, p, q) == {b \in Tried(m, p, q) : Matches(m, b, q)}

LEMMA FoundOccurs ==
    ASSUME NEW N \in Nat, NEW m \in Memories(N), NEW p \in Nat, NEW q \in Nat,
           NEW k \in Nat, NEW l \in Nat \ {0}, p + k < N, q + l < N, l <= k + 1,
           NEW s, IsString(s, m, p, k), NEW t, IsString(t, m, q, l),
           NEW i \in Nat
    PROVE  (p + i \in Found(m, p, q)) <=> Occurs(t, s, l, k, i)
<1>1. strlen(m, q) = l /\ DOMAIN m = 0..(N - 1)
  BY Strlen DEF IsString, Memories
<1>2. ASSUME NEW j \in 0..(k - 1) PROVE At(m, p + j) # 0
  <2>1. p + j \in 0..(N - 1)
    OBVIOUS
  <2> QED
    BY <1>1, <2>1 DEF At, IsString, EndsAfter
<1>3. At(m, p + k) = 0
  <2>1. p + k \in 0..(N - 1)
    OBVIOUS
  <2> QED
    BY <1>1, <2>1 DEF At, IsString, EndsAfter
<1>4. (p + i \in Tried(m, p, q)) <=> (i + l <= k)
  <2>1. ASSUME i + l <= k PROVE p + i \in Tried(m, p, q)
    <3>1. p + i \in 0..(N - 1) /\ p + i >= p
      BY <2>1
    <3>2. ASSUME NEW a \in p..(p + i) PROVE At(m, a + l - 1) # 0
      <4>1. (a - p) + l - 1 \in 0..(k - 1) /\ p + ((a - p) + l - 1) = a + l - 1
        BY <2>1
      <4> QED
        BY <1>2, <4>1
    <3> QED
      BY <1>1, <3>1, <3>2 DEF Tried
  <2>2. ASSUME p + i \in Tried(m, p, q), ~(i + l <= k) PROVE FALSE
    <3>1. \A a \in p..(p + i) : At(m, a + l - 1) # 0
      BY <1>1, <2>2 DEF Tried
    <3>2. p + (k - l + 1) \in p..(p + i) /\ (p + (k - l + 1)) + l - 1 = p + k
      BY <2>2
    <3> QED
      BY <1>3, <3>1, <3>2
  <2> QED
    BY <2>1, <2>2
<1>5. ASSUME i + l <= k
      PROVE  Matches(m, p + i, q) <=> \A j \in 1..l : t[j] = s[i + j]
  <2>1. ASSUME NEW j \in 0..(l - 1)
        PROVE  (At(m, (p + i) + j) = m[q + j]) <=> (t[j + 1] = s[i + (j + 1)])
    <3>1. /\ (p + i) + j \in 0..(N - 1) /\ q + j \in 0..(N - 1)
          /\ j + 1 \in 1..l /\ i + (j + 1) \in 1..k
          /\ q + (j + 1) - 1 = q + j /\ p + (i + (j + 1)) - 1 = (p + i) + j
      BY <1>5
    <3>2. PICK a \in Bytes : a = m[(p + i) + j] /\ a = At(m, (p + i) + j)
      BY <1>1, <3>1 DEF At, Memories
    <3>3. PICK b \in Bytes : b = m[q + j]
      BY <3>1 DEF Memories
    <3>4. t[j + 1] = Char(b) /\ s[i + (j + 1)] = Char(a)
      BY <3>1, <3>2, <3>3 DEF IsString, Spells
    <3> QED
      BY <3>2, <3>3, <3>4, CharInjective
  <2>2. Matches(m, p + i, q) <=> \A j \in 0..(l - 1) : At(m, (p + i) + j) = m[q + j]
    BY <1>1 DEF Matches
  <2>3. (\A j \in 0..(l - 1) : t[j + 1] = s[i + (j + 1)]) <=> (\A j \in 1..l : t[j] = s[i + j])
    <3>1. ASSUME \A j \in 0..(l - 1) : t[j + 1] = s[i + (j + 1)], NEW j \in 1..l
          PROVE  t[j] = s[i + j]
      <4>1. j - 1 \in 0..(l - 1) /\ (j - 1) + 1 = j
        OBVIOUS
      <4> QED
        BY <3>1, <4>1
    <3>2. ASSUME \A j \in 1..l : t[j] = s[i + j], NEW j \in 0..(l - 1)
          PROVE  t[j + 1] = s[i + (j + 1)]
      <4>1. j + 1 \in 1..l
        OBVIOUS
      <4> QED
        BY <3>2, <4>1
    <3> QED
      BY <3>1, <3>2
  <2> QED
    BY <2>1, <2>2, <2>3
<1> QED
  BY <1>4, <1>5 DEF Found, Occurs

\* StringsFound: strstr returns the first place where the target is, and nothing
\* if it is nowhere, as long as the target is at most one character longer than
\* the string, whose end the pointer that runs ahead would miss (string.c).
THEOREM FlatFileStringsFound == Spec => []StringsFound
<1>1. TypeOK => StringsFound
  <2> SUFFICES ASSUME TypeOK, NEW p \in Buffers, NEW q \in Buffers, Text(p), Text(q)
               PROVE  LET s == Chars(p)
                          t == Chars(q)
                          places == {i \in 0..Len(s) : IsPrefixOf(t, SubSeq(s, i + 1, Len(s)))}
                      IN  Len(t) <= Len(s) + 1 =>
                            strstr(mem, p, q) = IF places = {} THEN NotFound ELSE p + Min(places)
    BY DEF StringsFound
  <2> DEFINE s == Chars(p)
             t == Chars(q)
             places == {i \in 0..Len(s) : IsPrefixOf(t, SubSeq(s, i + 1, Len(s)))}
  <2>1. PICK k \in Nat : p \in Nat /\ p + k < Total /\ IsString(s, mem, p, k)
    BY TextIsString
  <2>2. PICK l \in Nat : q \in Nat /\ q + l < Total /\ IsString(t, mem, q, l)
    BY TextIsString
  <2>3. Total \in Nat /\ mem \in Memories(Total)
    BY Sizes, MemoryType DEF TypeOK
  <2> HIDE DEF s, t
  <2>4. s \in Seq(Int) /\ Len(s) = k /\ t \in Seq(Int) /\ Len(t) = l
    BY <2>1, <2>2 DEF IsString, Spells
  <2>5. places = {i \in 0..k : Occurs(t, s, l, k, i)}
    <3>1. \A i \in 0..k : IsPrefixOf(t, SubSeq(s, i + 1, Len(s))) <=> Occurs(t, s, l, k, i)
      BY <2>4, PrefixOccurs
    <3> QED
      BY <2>4, <3>1
  <2> HIDE DEF places
  <2> SUFFICES ASSUME l <= k + 1
               PROVE  strstr(mem, p, q) = IF places = {} THEN NotFound ELSE p + Min(places)
    BY <2>4 DEF s, t, places
  <2>6. places \subseteq Nat /\ \A i \in Nat : i \in places <=> Occurs(t, s, l, k, i)
    <3>1. ASSUME NEW i \in Nat, Occurs(t, s, l, k, i) PROVE i \in 0..k
      BY <3>1 DEF Occurs
    <3> QED
      BY <2>5, <3>1
  <2>7. CASE l = 0
    <3>1. mem[q] = 0
      <4>1. q + l = q
        BY <2>2, <2>7
      <4> QED
        BY <2>2, <4>1 DEF IsString, EndsAfter
    <3>2. 0 \in places
      <4>1. 0 + l <= k /\ \A j \in 1..l : FALSE
        BY <2>7
      <4> QED
        BY <2>6, <4>1 DEF Occurs
    <3>3. Min(places) = 0
      <4>1. \A j \in places : 0 <= j
        BY <2>6
      <4> QED
        BY <2>6, <3>2, <4>1, MinIs
    <3>4. p + 0 = p
      BY <2>1
    <3>5. strstr(mem, p, q) = p
      BY <3>1 DEF strstr
    <3> QED
      BY <3>2, <3>3, <3>4, <3>5
  <2>8. CASE l # 0
    <3> DEFINE found == Found(mem, p, q)
    <3>1. mem[q] # 0
      <4>1. 0 \in 0..(l - 1) /\ q + 0 = q
        BY <2>2, <2>8
      <4> QED
        BY <2>2, <4>1 DEF IsString, EndsAfter
    <3>2. strstr(mem, p, q) = IF found = {} THEN NotFound ELSE Min(found)
      BY <3>1 DEF strstr, Found
    <3>3. found \subseteq Nat /\ \A b \in found : b >= p
      BY <2>3 DEF Found, Tried, Memories
    <3>4. l \in Nat \ {0}
      BY <2>8
    <3>5. ASSUME NEW i \in Nat PROVE p + i \in found <=> i \in places
      BY <2>1, <2>2, <2>3, <2>6, <3>4, FoundOccurs
    <3> HIDE DEF found
    <3>6. \A b \in found : b - p \in Nat /\ p + (b - p) = b /\ b - p \in places
      <4>1. ASSUME NEW b \in found PROVE b - p \in Nat /\ p + (b - p) = b
        BY <2>1, <3>3
      <4> QED
        BY <3>5, <4>1
    <3>7. CASE places = {}
      BY <3>2, <3>6, <3>7
    <3>8. CASE places # {}
      <4>1. PICK i \in Nat : i = Min(places) /\ i \in places /\ \A j \in places : i <= j
        BY <2>6, <3>8, MinOfNaturals
      <4>2. p + i \in found
        BY <3>5, <4>1
      <4>3. ASSUME NEW b \in found PROVE p + i <= b
        <5>1. b \in Nat /\ b - p \in Nat /\ i <= b - p
          BY <3>3, <3>6, <4>1
        <5> QED
          BY <2>1, <5>1
      <4>4. Min(found) = p + i
        BY <3>3, <4>2, <4>3, MinIs
      <4> QED
        BY <3>2, <3>8, <4>1, <4>2, <4>4
    <3> QED
      BY <3>7, <3>8
  <2> QED
    BY <2>7, <2>8
<1> QED
  BY <1>1, FlatFileTypeCorrect, PTL
=============================================================================
