------------------------------- MODULE MCHeap -------------------------------
(* A heap of a few dozen bytes with two-byte headers for TLC.              *)
EXTENDS Heap
=============================================================================
