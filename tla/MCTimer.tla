------------------------------- MODULE MCTimer -------------------------------
(* Instances of ModuleTimer for TLC. *)
EXTENDS ModuleTimer

MCSettings == {[escape |-> 2, times |-> 1], [escape |-> 1, times |-> 2]}
MCEndless == {[escape |-> 1, times |-> Forever]}
=============================================================================
