------------------------------ MODULE MCTimer -------------------------------
(* Three tasks and a table for two, two handlers of one kind and one of the  *)
(* other, and intervals whose bytes differ, for TLC.                       *)
EXTENDS Timer

CONSTANTS k_timer_handler, on_alarm

Plain(h, f) == [sa_handler |-> h, sa_sigaction |-> NULL, sa_flags |-> f]

Siginfo(h, f) == [sa_handler |-> NULL, sa_sigaction |-> h, sa_flags |-> f \cup {"SIGINFO"}]

MCActions == {Siginfo(k_timer_handler, {"RESTART"}), Plain(on_alarm, {})}
=============================================================================
