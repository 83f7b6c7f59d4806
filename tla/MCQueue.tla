------------------------------- MODULE MCQueue -------------------------------
(* Instances of ModuleQueue for TLC. *)
EXTENDS ModuleQueue

MCSizes == {1, 3}
=============================================================================
