----------------------------- MODULE MCLibrary ------------------------------
(* Two contexts, four bytes of buffers and a file of two for TLC.          *)
EXTENDS FlatFile, TLC

\* A negative number, zero, and one of two digits.
MCNumbers == {-1, 0, 10}

\* What the programs leave in their buffers: NumbersReadBack tries the others.
MCPrintedNumbers == {0, 10}

ContextSymmetry == Permutations(Contexts)
=============================================================================
