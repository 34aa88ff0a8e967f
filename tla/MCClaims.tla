------------------------------- MODULE MCClaims --------------------------------
(* DequeueClaims for TLC: the consumers are interchangeable.                   *)
EXTENDS DequeueClaims, TLC

Symmetry == Permutations(Consumers)
================================================================================
