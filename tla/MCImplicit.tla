------------------------------- MODULE MCImplicit ------------------------------
(* Instances of ImplicitQueue for TLC. *)
EXTENDS ImplicitQueue, TLC

Symmetry == Permutations(Consumers)
================================================================================
