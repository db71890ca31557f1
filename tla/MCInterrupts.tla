---------------------------- MODULE MCInterrupts ----------------------------
(* Timer, keyboard and one device on the slave PIC, two handlers deep.     *)
EXTENDS Interrupts
=============================================================================
