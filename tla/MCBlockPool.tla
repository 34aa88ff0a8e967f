------------------------------ MODULE MCBlockPool ------------------------------
(* Instances of BlockPool for TLC. *)
EXTENDS BlockPool, TLC

Symmetry == Permutations(Threads)
================================================================================
