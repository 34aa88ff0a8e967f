------------------------------ MODULE ItemClaims -------------------------------
(***************************************************************************)
(* What the counters of a producer's sub-queue promise: items are numbered *)
(* as they are published, and a consumer that dequeues is given the next   *)
(* numbers that no other was given, never one that is not published yet.   *)
(***************************************************************************)
EXTENDS Naturals

CONSTANT MaxBulk    \* most items one operation moves

VARIABLES
    tailIndex,   \* items published
    headIndex    \* items given out

claimVars == <<tailIndex, headIndex>>

Init == tailIndex = 0 /\ headIndex = 0

Publish(n) == tailIndex' = tailIndex + n /\ UNCHANGED headIndex

Claim(n) ==
    /\ headIndex + n <= tailIndex
    /\ headIndex' = headIndex + n
    /\ UNCHANGED tailIndex

Next == \E n \in 1..MaxBulk : Publish(n) \/ Claim(n)
Spec == Init /\ [][Next]_claimVars
================================================================================
