------------------------------ MODULE MCProducers ------------------------------
(* Instances of Producers for TLC: the threads' ids have the same hash.        *)
EXTENDS Producers

SameHome == [i \in Ids |-> 0]
================================================================================
