---------------------------- MODULE MCSupervisor ----------------------------
(* Instances of Supervisor for TLC. *)
EXTENDS Supervisor

Symmetry == Permutations(Names) \cup Permutations(Pids)
=============================================================================
