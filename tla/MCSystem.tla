------------------------------- MODULE MCSystem --------------------------------
(* Instances of the T7 module for TLC. *)
EXTENDS T7Properties, TLC

\* Tasks and handles are interchangeable in the specification and in every safety
\* property; runs with a liveness property do not use this.
Symmetry == Permutations(Tasks) \union Permutations(Handles)
================================================================================
