----------------------------- MODULE MCContexts -----------------------------
(* Three contexts for TLC.                                                 *)
EXTENDS Contexts

Use(p, h, f) == [programs |-> p, handlers |-> h, flag |-> f]

\* Programs switch and handlers do not, as in kernel_main.c; or handlers do and
\* programs do not.  Contexts are made with interrupts on, or off.
OneOfThem == {Use(p, ~p, f) : p \in BOOLEAN, f \in BOOLEAN}

\* Handlers switch, programs may do so too, and contexts are made as getcontext
\* leaves them in the running kernel, with interrupts on.
HandlersSwitch == {Use(p, TRUE, TRUE) : p \in BOOLEAN}
=============================================================================
