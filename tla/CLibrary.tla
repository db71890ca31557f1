----------------------------- MODULE CLibrary ------------------------------
(***************************************************************************)
(* The functions of string.c and stdlib.c on a memory m, a function from   *)
(* addresses, counted from 0, to bytes, as the loops of the code compute   *)
(* them.  Strings that a caller passes end inside the memory; what a loop  *)
(* reads behind the memory is 0.                                           *)
(***************************************************************************)
EXTENDS Integers, Sequences, FiniteSetsExt

NotFound == -1

At(m, a) == IF a \in DOMAIN m THEN m[a] ELSE 0

\* A byte as a char, which is signed.
Char(b) == IF b < 128 THEN b ELSE b - 256

strlen(m, p) == Min({n \in DOMAIN m : p + n \in DOMAIN m /\ m[p + n] = 0})

-----------------------------------------------------------------------------
(* Comparing and searching.                                                *)

Difference(m, p, q, n) == Char(At(m, p + n)) - Char(At(m, q + n))

\* Slip: it stops at the end of either string.
strcmpShort(m, p, q) ==
    LET n == Min({i \in DOMAIN m :
                    \/ At(m, p + i) = 0 \/ At(m, q + i) = 0
                    \/ Difference(m, p, q, i) # 0})
    IN  IF At(m, p + n) = 0 THEN 0 ELSE Difference(m, p, q, n)

strcmp(m, p, q) ==
    LET n == Min({i \in DOMAIN m :
                    Difference(m, p, q, i) # 0 \/ At(m, p + i) = 0})
    IN  Difference(m, p, q, n)

\* The count is looked at after the characters, so one more is compared, and the
\* result is not set where one of the strings ends.
strncmp(m, p, q, count) ==
    LET n == Min({i \in 0..count : \/ At(m, p + i) = 0 \/ At(m, q + i) = 0
                                   \/ Difference(m, p, q, i) # 0 \/ i = count})
    IN  IF At(m, p + n) # 0 /\ At(m, q + n) # 0 THEN Difference(m, p, q, n) ELSE 0

Matches(m, b, t) == \A i \in 0..(strlen(m, t) - 1) : At(m, b + i) = m[t + i]

\* Slip: the pointer that runs ahead starts behind the first place of a match.
TriedShort(m, p, t) ==
    {b \in DOMAIN m : b >= p /\ \A a \in p..b : At(m, a + strlen(m, t)) # 0}

\* A place is tried if the pointer that runs ahead, by the length of the target,
\* has found no end up to there.  Where it starts it does not look for one.
Tried(m, p, t) ==
    {b \in DOMAIN m : b >= p /\ \A a \in p..b : At(m, a + strlen(m, t) - 1) # 0}

strstr(m, p, t) ==
    LET found == {b \in Tried(m, p, t) : Matches(m, b, t)}
    IN  IF m[t] = 0 THEN p ELSE IF found = {} THEN NotFound ELSE Min(found)

-----------------------------------------------------------------------------
(* Copying.                                                                *)

\* Byte after byte, so that a byte that has been copied may be copied again.
memcpy(m, d, s, n) ==
    LET copied[i \in 0..n] ==
            IF i = 0 THEN m
            ELSE [copied[i - 1] EXCEPT ![d + i - 1] = copied[i - 1][s + i - 1]]
    IN  copied[n]

Backwards(m, d, s, n) ==
    LET copied[i \in 0..n] ==
            IF i = 0 THEN m
            ELSE [copied[i - 1] EXCEPT ![d + n - i] = copied[i - 1][s + n - i]]
    IN  copied[n]

\* Slip: the directions are swapped.
memmoveSwapped(m, d, s, n) == IF d < s THEN Backwards(m, d, s, n) ELSE memcpy(m, d, s, n)

memmove(m, d, s, n) == IF d < s THEN memcpy(m, d, s, n) ELSE Backwards(m, d, s, n)

memset(m, d, val, n) == [a \in DOMAIN m |-> IF a \in d..(d + n - 1) THEN val ELSE m[a]]

\* No NUL is stored, neither behind the characters nor up to the count.
strncpy(m, d, s, count) == memcpy(m, d, s, Min({count, strlen(m, s)}))

\* Slip: no end is stored when the count runs out.
strncatOpen(m, d, s, count) ==
    LET e == d + strlen(m, d)
    IN  memcpy(m, e, s, Min({count, strlen(m, s) + 1}))

\* The NUL of s, or one behind count characters, becomes the end.
strncat(m, d, s, count) ==
    LET e == d + strlen(m, d)
        n == Min({count, strlen(m, s)})
    IN  [memcpy(m, e, s, n) EXCEPT ![e + n] = 0]

-----------------------------------------------------------------------------
(* Numbers.                                                                *)

Minus == 45

Numeral(digit) == IF digit < 10 THEN 48 + digit ELSE 55 + digit

\* What is left of i after k rounds of the loop.
Quotient(i, base, k) ==
    LET left[j \in 0..k] == IF j = 0 THEN i ELSE left[j - 1] \div base
    IN  left[k]

DigitCount(i, base) == Min({k \in 1..(i + 1) : Quotient(i, base, k) = 0})

\* Slip: the digits stay in the order in which they are found.
itoa_uFlipped(m, i, buf, base) ==
    LET n == DigitCount(i, base)
    IN  IF i = 0 THEN [m EXCEPT ![buf] = Numeral(0)]
        ELSE [a \in DOMAIN m |->
                IF a = buf + n THEN 0
                ELSE IF a \in buf..(buf + n) THEN Numeral(Quotient(i, base, a - buf) % base)
                ELSE m[a]]

\* No NUL is stored behind the digit of zero.
itoa_u(m, i, buf, base) ==
    LET n == DigitCount(i, base)
    IN  IF i = 0 THEN [m EXCEPT ![buf] = Numeral(0)]
        ELSE [a \in DOMAIN m |->
                IF a = buf + n THEN 0
                ELSE IF a \in buf..(buf + n)
                     THEN Numeral(Quotient(i, base, n - 1 - (a - buf)) % base)
                ELSE m[a]]

\* The smallest integer, whose negation traps, is not passed.
itoa(m, i, buf, base) ==
    IF base > 16 THEN m
    ELSE IF i < 0 THEN itoa_u([m EXCEPT ![buf] = Minus], -i, buf + 1, base)
    ELSE itoa_u(m, i, buf, base)

\* A sign is a digit like any other character.
atoi(m, p) ==
    LET n == strlen(m, p)
        value[k \in 0..n] ==
            IF k = 0 THEN 0 ELSE 10 * value[k - 1] + (Char(m[p + k - 1]) - 48)
    IN  value[n]
=============================================================================
