----------------------------- MODULE MCConsole -----------------------------
(* A screen of two rows and two columns for TLC.                           *)
EXTENDS Console
=============================================================================
