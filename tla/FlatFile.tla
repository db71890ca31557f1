------------------------------ MODULE FlatFile ------------------------------
(***************************************************************************)
(* The file wrapper (unistd.c, mman.c) over the C library: one memory, in  *)
(* which the flat file lies behind the programs' buffers, one cursor for   *)
(* all contexts, and programs that call the file's functions and those of  *)
(* string.c and stdlib.c in any order.                                     *)
(*                                                                         *)
(* What the code leaves to its callers is in the guards.  A context uses   *)
(* the file from open to close with no other in between, since there is    *)
(* one cursor.  It reads and writes inside the file, whose end nothing     *)
(* checks, and lets string functions write inside the buffers.             *)
(***************************************************************************)
EXTENDS CLibrary

CONSTANTS
    Contexts,
    NULL,
    BufferSize,     \* the buffers are at addresses from 0 ...
    FileSize,       \* ... and the file behind them
    Numbers,        \* what itoa may be called with ...
    PrintedNumbers, \* ... and which of them the programs print (a bound)
    Values          \* the bytes that programs store themselves

ASSUME FlatFileAssumption ==
    /\ NULL \notin Contexts
    /\ BufferSize \in Nat \ {0} /\ FileSize \in Nat \ {0}
    /\ Numbers \subseteq Int /\ PrintedNumbers \subseteq Numbers /\ Values \subseteq 0..255

VARIABLES
    mem,
    fs_cursor,
    holder,         \* the context that has the file open, or NULL
    result          \* what the last call of unistd.c has returned, 0 after others

vars == <<mem, fs_cursor, holder, result>>

\* 0xdeadbeef as the int that open returns.
FLATFS_FD == -559038737

\* init_unistd_lib.
start_fs_cursor == BufferSize

Memory == 0..(BufferSize + FileSize - 1)

Buffers == 0..(BufferSize - 1)

\* calloc and the bss are zero.
Init ==
    /\ mem = [a \in Memory |-> 0]
    /\ fs_cursor = start_fs_cursor
    /\ holder = NULL
    /\ result = 0

-----------------------------------------------------------------------------
(* unistd.c.                                                               *)

Open(c) ==
    /\ holder = NULL
    /\ holder' = c
    /\ fs_cursor' = start_fs_cursor
    /\ result' = FLATFS_FD
    /\ UNCHANGED mem

Transfer(c, buf, count) ==
    /\ holder = c
    /\ buf + count <= BufferSize /\ fs_cursor + count <= BufferSize + FileSize
    /\ fs_cursor' = fs_cursor + count
    /\ result' = count
    /\ UNCHANGED holder

Read(c, buf, count) ==
    /\ Transfer(c, buf, count)
    /\ mem' = memcpy(mem, buf, fs_cursor, count)

Write(c, buf, count) ==
    /\ Transfer(c, buf, count)
    /\ mem' = memcpy(mem, fs_cursor, buf, count)

\* Slip: the offset is counted from the cursor.
LseekFromCursor(c, offset) ==
    /\ holder = c
    /\ fs_cursor' = fs_cursor + offset
    /\ result' = offset
    /\ UNCHANGED <<mem, holder>>

\* With SEEK_SET: the others return the offset and change nothing.
Lseek(c, offset) ==
    /\ holder = c
    /\ fs_cursor' = start_fs_cursor + offset
    /\ result' = offset
    /\ UNCHANGED <<mem, holder>>

Close(c) ==
    /\ holder = c
    /\ holder' = NULL
    /\ fs_cursor' = start_fs_cursor
    /\ result' = 0
    /\ UNCHANGED mem

\* A program stores through what mmap returned, open or not.
StoreMapped(offset, val) ==
    /\ mem' = [mem EXCEPT ![start_fs_cursor + offset] = val]
    /\ result' = 0
    /\ UNCHANGED <<fs_cursor, holder>>

FileCall ==
    \E c \in Contexts :
        \/ Open(c) \/ Close(c)
        \/ \E offset \in 0..FileSize : Lseek(c, offset)
        \/ \E buf \in Buffers, count \in 1..FileSize : Read(c, buf, count) \/ Write(c, buf, count)

-----------------------------------------------------------------------------
(* string.c and stdlib.c.                                                  *)

\* A call that leaves the memory as after.
Becomes(after) == mem' = after /\ result' = 0 /\ UNCHANGED <<fs_cursor, holder>>

InBuffers(p, n) == p \in Buffers /\ p + n <= BufferSize

\* The string at p ends in the buffers.
Text(p) == p \in Buffers /\ \E a \in p..(BufferSize - 1) : mem[a] = 0

Set == \E d \in Buffers, val \in Values, n \in 1..BufferSize :
          InBuffers(d, n) /\ Becomes(memset(mem, d, val, n))

Move == \E d, s \in Buffers, n \in 1..BufferSize :
          InBuffers(d, n) /\ InBuffers(s, n) /\ Becomes(memmove(mem, d, s, n))

\* Apart means that the source is not written to while it is read.
Apart(d, n, s, k) == d + n <= s \/ s + k <= d

CopyText == \E d, s \in Buffers, n \in 1..BufferSize :
          /\ Text(s) /\ InBuffers(d, n) /\ Apart(d, n, s, strlen(mem, s) + 1)
          /\ Becomes(strncpy(mem, d, s, n))

AppendText == \E d, s \in Buffers, n \in 1..BufferSize :
          /\ Text(d) /\ Text(s)
          /\ InBuffers(d, strlen(mem, d) + n + 1)
          /\ Apart(d, strlen(mem, d) + n + 1, s, strlen(mem, s) + 1)
          /\ Becomes(strncat(mem, d, s, n))

\* A sign, the digits and the end.
TextLength(i) == DigitCount(IF i < 0 THEN -i ELSE i, 10) + (IF i < 0 THEN 2 ELSE 1)

PrintNumber == \E i \in PrintedNumbers, b \in Buffers :
          InBuffers(b, TextLength(i)) /\ Becomes(itoa(mem, i, b, 10))

Next ==
    \/ FileCall
    \/ \E offset \in 0..(FileSize - 1), val \in Values : StoreMapped(offset, val)
    \/ Set \/ Move \/ CopyText \/ AppendText \/ PrintNumber

Spec == Init /\ [][Next]_vars

-----------------------------------------------------------------------------
(* Properties.                                                             *)

\* The variables have their types: the cursor stays inside the file.
TypeOK ==
    /\ mem \in [Memory -> 0..255]
    /\ fs_cursor \in BufferSize..(BufferSize + FileSize)
    /\ holder \in Contexts \cup {NULL}
    /\ result \in 0..FileSize \cup {FLATFS_FD}

\* The file, the buffers, and the position of each context.
Content == [o \in 0..(FileSize - 1) |-> mem[start_fs_cursor + o]]

Buffer == [a \in Buffers |-> mem[a]]

Position == [c \in Contexts |-> IF c = holder THEN fs_cursor - start_fs_cursor ELSE -1]

TheFile == INSTANCE File WITH
    Bytes <- 0..255, Descriptor <- FLATFS_FD, content <- Content, buffer <- Buffer, position <- Position

\* For contexts that use the file one after the other the one cursor is as good as
\* a position of their own: reads find what was last written there, by whatever context or through the mapping,
\* and no string function touches the file.
ImplementsFile == TheFile!Spec

-----------------------------------------------------------------------------

Chars(p) == [i \in 1..strlen(mem, p) |-> Char(mem[p + i - 1])]

IsPrefixOf(s, t) == Len(s) <= Len(t) /\ \A i \in 1..Len(s) : s[i] = t[i]

\* The end of a string counts as a character that is zero.
CharAt(s, i) == IF i <= Len(s) THEN s[i] ELSE 0

Before(s, t) ==
    \E i \in 1..(Len(s) + 1) : /\ CharAt(s, i) < CharAt(t, i)
                              /\ \A j \in 1..(i - 1) : CharAt(s, j) = CharAt(t, j)

Ascii(s) == \A i \in 1..Len(s) : s[i] >= 0

\* The i-th characters are the first in which s and t differ, before either ends.
DifferFirst(s, t, i) ==
    /\ i <= Len(s) /\ i <= Len(t) /\ s[i] # t[i]
    /\ \A j \in 1..(i - 1) : s[j] = t[j]

\* What the standard asks of them, where the code keeps to it.  Of whatever the
\* buffers have come to hold, strcmp finds equal what is equal and nothing else,
\* and gives strings of ASCII in their order; strncmp finds equal what is equal,
\* and where two strings differ within the count, before either ends, it tells
\* them apart and gives ASCII in its order.
StringsCompare ==
    \A p, q \in Buffers : (Text(p) /\ Text(q)) =>
        LET s == Chars(p)
            t == Chars(q)
        IN  /\ (strcmp(mem, p, q) = 0) <=> (s = t)
            /\ Ascii(s) /\ Ascii(t) => ((strcmp(mem, p, q) < 0) <=> Before(s, t))
            /\ \A n \in 0..BufferSize :
                  /\ s = t => strncmp(mem, p, q, n) = 0
                  /\ \A i \in 1..n : DifferFirst(s, t, i) =>
                        /\ strncmp(mem, p, q, n) # 0
                        /\ Ascii(s) /\ Ascii(t) =>
                              ((strncmp(mem, p, q, n) < 0) <=> (s[i] < t[i]))

\* strstr finds the first place where the target is in the string, and nothing
\* if it is nowhere, provided that the target is at most one longer.
StringsFound ==
    \A p, q \in Buffers : (Text(p) /\ Text(q)) =>
        LET s == Chars(p)
            t == Chars(q)
            places == {i \in 0..Len(s) : IsPrefixOf(t, SubSeq(s, i + 1, Len(s)))}
        IN  Len(t) <= Len(s) + 1 =>
                strstr(mem, p, q) = IF places = {} THEN NotFound ELSE p + Min(places)

\* However the two places overlap, memmove leaves at the one what was at the
\* other, and changes nothing else; memcpy does so if it does not write over
\* what it has yet to read.
BytesMove ==
    \A d, s \in Buffers, n \in 0..BufferSize : (InBuffers(d, n) /\ InBuffers(s, n)) =>
        LET moved == [a \in Memory |-> IF a \in d..(d + n - 1) THEN mem[s + (a - d)] ELSE mem[a]]
        IN  /\ memmove(mem, d, s, n) = moved
            /\ d <= s \/ s + n <= d => memcpy(mem, d, s, n) = moved

\* strncat makes one string of both, and ends it, within the bytes it is allowed.
TextsJoin ==
    \A d, s \in Buffers, n \in 0..BufferSize :
        (/\ Text(d) /\ Text(s) /\ InBuffers(d, strlen(mem, d) + n + 1)
         /\ Apart(d, strlen(mem, d) + n + 1, s, strlen(mem, s) + 1)) =>
            LET after == strncat(mem, d, s, n)
                joined == Chars(d) \o SubSeq(Chars(s), 1, Min({n, Len(Chars(s))}))
            IN  /\ strlen(after, d) = Len(joined)
                /\ \A i \in 1..Len(joined) : Char(after[d + i - 1]) = joined[i]
                /\ \A a \in Memory \ (d..(d + Len(joined))) : after[a] = mem[a]

\* atoi reads back what itoa has written, behind the sign, over whatever was in
\* the buffer before; of zero only if the byte behind was zero already.
NumbersReadBack ==
    \A i \in Numbers, b \in Buffers :
        (InBuffers(b, TextLength(i)) /\ (i = 0 => mem[b + 1] = 0)) =>
            LET after == itoa(mem, i, b, 10)
            IN  IF i < 0 THEN after[b] = Minus /\ atoi(after, b + 1) = -i
                ELSE atoi(after, b) = i
=============================================================================
