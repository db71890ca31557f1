---------------------------- MODULE MCPhysMemory ----------------------------
(* Twenty-two blocks of four bytes in words of four bits for TLC.            *)
EXTENDS PhysMemory

\* Memory that ends in block 17, a reserved part of block 18, a reserved entry
\* from block 19 to the end of the address space, which is not found, and memory
\* whose address needs more bits than there are and is taken for that of block 7.
SomeMap ==
    << [addr |-> 0, len |-> 72, available |-> TRUE],
       [addr |-> 72, len |-> 3, available |-> FALSE],
       [addr |-> 76, len |-> 16, available |-> FALSE],
       [addr |-> 92 + 28, len |-> 4, available |-> TRUE] >>
=============================================================================
