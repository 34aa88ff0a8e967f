------------------------------- MODULE MCSamples -------------------------------
(* Instances of a stream task's mappings and samples for TLC.                  *)
EXTENDS StreamSamples

\* An even and an odd built-in input, one of an extension board, one that LJM does
\* not know.
SomeRegisters == {-1, 0, 1, 48, 255}

\* The partner of input 0, what an odd input has next to it, ground, and a channel
\* out of bounds.
SomeNegatives == {1, 2, 199, 254}

\* Three mappings, two of them with the same destination.
SharedChannel == <<"level", "valve", "level">>
================================================================================
