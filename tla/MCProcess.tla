------------------------------ MODULE MCProcess ------------------------------
(* Small instances of Process for TLC. *)
EXTENDS Process, TLC

(* Ordinary processes, names and monitors are interchangeable. *)
Symmetry == Permutations(Pids \ SystemPids) \cup Permutations(Mons) \cup Permutations(Names)
=============================================================================
