------------------------------ MODULE MCCycle ------------------------------
(* Instances of Cycle for TLC. *)
EXTENDS Cycle, TLC

Symmetry == Permutations(Orchs)
=============================================================================
