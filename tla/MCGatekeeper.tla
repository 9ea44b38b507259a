---------------------------- MODULE MCGatekeeper ----------------------------
(* Small instances of Gatekeeper for TLC. *)
EXTENDS Gatekeeper, TLC

(* Clients are interchangeable, and so are resources. *)
Symmetry == Permutations(Clients) \cup Permutations(Resources)
=============================================================================
