------------------------------- MODULE MCDigital -------------------------------
(* An instance of the digital write task for TLC. *)
EXTENDS T7Digital, TLC

CONSTANTS w1, w2, c1, c2

\* The tasks share DIO0 and write it from different channels; the first has a
\* mapping that is left out, the second the highest register.
SharedRegister ==
    (w1 :> <<[register |-> 23, channel |-> c2], [register |-> 0, channel |-> c1]>>) @@
    (w2 :> <<[register |-> 0, channel |-> c2]>>)
================================================================================
