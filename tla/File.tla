-------------------------------- MODULE File --------------------------------
(***************************************************************************)
(* What unistd.c promises: a file of bytes that any context may open, with *)
(* a position of its own at which it reads and writes, and a mapping of    *)
(* the file through which the same bytes are stored to.                    *)
(***************************************************************************)
EXTENDS Integers

CONSTANTS
    Contexts,
    FileSize,
    BufferSize,     \* the memory of the programs, at addresses from 0
    Bytes,
    Descriptor      \* what opening the file returns

VARIABLES
    content,        \* the file's bytes
    buffer,         \* the programs' bytes
    position,       \* context -> its position, Closed if it has none
    result          \* what the last call has returned, 0 if nothing of interest

Closed == -1

vars == <<content, buffer, position, result>>

Init ==
    /\ content = [o \in 0..(FileSize - 1) |-> 0]
    /\ buffer = [a \in 0..(BufferSize - 1) |-> 0]
    /\ position = [c \in Contexts |-> Closed]
    /\ result = 0

OpenFile(c) ==
    /\ position' = [position EXCEPT ![c] = 0]
    /\ result' = Descriptor
    /\ UNCHANGED <<content, buffer>>

CloseFile(c) ==
    /\ position' = [position EXCEPT ![c] = Closed]
    /\ result' = 0
    /\ UNCHANGED <<content, buffer>>

Seek(c, offset) ==
    /\ position[c] # Closed
    /\ position' = [position EXCEPT ![c] = offset]
    /\ result' = offset
    /\ UNCHANGED <<content, buffer>>

Inside(c, buf, count) ==
    position[c] # Closed /\ position[c] + count <= FileSize /\ buf + count <= BufferSize

Read(c, buf, count) ==
    /\ result' = count
    /\ Inside(c, buf, count)
    /\ buffer' = [a \in DOMAIN buffer |->
                    IF a \in buf..(buf + count - 1)
                    THEN content[position[c] + (a - buf)] ELSE buffer[a]]
    /\ position' = [position EXCEPT ![c] = @ + count]
    /\ UNCHANGED content

Write(c, buf, count) ==
    /\ result' = count
    /\ Inside(c, buf, count)
    /\ content' = [o \in DOMAIN content |->
                    IF o \in position[c]..(position[c] + count - 1)
                    THEN buffer[buf + (o - position[c])] ELSE content[o]]
    /\ position' = [position EXCEPT ![c] = @ + count]
    /\ UNCHANGED buffer

\* One byte is stored through the mapping.
Store(offset) ==
    /\ result' = 0
    /\ content' \in [DOMAIN content -> Bytes]
    /\ \A o \in DOMAIN content \ {offset} : content'[o] = content[o]
    /\ UNCHANGED <<buffer, position>>

\* Whatever else a program does leaves the file alone.
Compute ==
    /\ UNCHANGED <<content, position>>
    /\ result' = 0
    /\ buffer' \in [DOMAIN buffer -> Bytes]

Next ==
    \/ Compute
    \/ \E c \in Contexts : OpenFile(c) \/ CloseFile(c)
    \/ \E c \in Contexts, offset \in 0..FileSize : Seek(c, offset)
    \/ \E c \in Contexts, buf \in 0..(BufferSize - 1), count \in 0..BufferSize :
          Read(c, buf, count) \/ Write(c, buf, count)
    \/ \E offset \in 0..(FileSize - 1) : Store(offset)

Spec == Init /\ [][Next]_vars
=============================================================================
