----------------------------- MODULE DequeueClaims -----------------------------
(***************************************************************************)
(* The counters of one sub-queue of a ConcurrentQueue, and the optimistic  *)
(* protocol by which consumers claim items from it without a lock.  A      *)
(* consumer takes tickets from dequeueOptimisticCount and may find that    *)
(* fewer items are there; it then counts the tickets it wasted in          *)
(* dequeueOvercommit.  dequeue takes one ticket, dequeue_bulk several.     *)
(*                                                                         *)
(* A step is one atomic operation; memory is sequentially consistent here. *)
(* The counters do not wrap: they are as wide as a size_t.                 *)
(***************************************************************************)
EXTENDS Integers, FiniteSets

CONSTANTS
    Consumers,
    MaxBulk,      \* most items one call enqueues or dequeues
    MaxItems,     \* bound: items ever published
    MaxTickets    \* bound: tickets ever taken

ASSUME ClaimAssumption ==
    /\ MaxBulk \in Nat \ {0}
    /\ MaxItems \in Nat
    /\ MaxTickets \in Nat

VARIABLES
    tailIndex, headIndex,
    dequeueOptimisticCount,
    dequeueOvercommit,
    at,         \* where each consumer is in dequeue or dequeue_bulk
    overcommit, \* its local variables: the overcommit it read,
    desired,    \* desiredCount,
    ticket,     \* myDequeueCount,
    actual,     \* actualCount
    granted, refused,   \* history: the tickets that were found good, and wasted;
    claimed, counted    \* of these, the ones in headIndex and dequeueOvercommit

counterVars == <<tailIndex, headIndex, dequeueOptimisticCount, dequeueOvercommit>>
localVars == <<at, overcommit, desired, ticket, actual>>
ticketVars == <<granted, refused, claimed, counted>>
claimsVars == <<counterVars, localVars, ticketVars>>

ClaimsInit ==
    /\ tailIndex = 0 /\ headIndex = 0
    /\ dequeueOptimisticCount = 0 /\ dequeueOvercommit = 0
    /\ at = [c \in Consumers |-> "idle"]
    /\ overcommit = [c \in Consumers |-> 0]
    /\ desired = [c \in Consumers |-> 0]
    /\ ticket = [c \in Consumers |-> 0]
    /\ actual = [c \in Consumers |-> 0]
    /\ granted = {} /\ refused = {} /\ claimed = {} /\ counted = {}

Advance(c, from, to) == at[c] = from /\ at' = [at EXCEPT ![c] = to]

\* The tickets of a consumer: all, the good ones, the wasted ones.
Tickets(c) == ticket[c] .. (ticket[c] + desired[c] - 1)
Good(c) == ticket[c] .. (ticket[c] + actual[c] - 1)
Wasted(c) == (ticket[c] + actual[c]) .. (ticket[c] + desired[c] - 1)

--------------------------------------------------------------------------------
(* The store to tailIndex that ends an enqueue of n items.                     *)
Publish(n) ==
    /\ tailIndex + n <= MaxItems
    /\ tailIndex' = tailIndex + n
    /\ UNCHANGED <<headIndex, dequeueOptimisticCount, dequeueOvercommit, localVars, ticketVars>>

\* The relaxed loads.  Those after the one of dequeueOvercommit may find more
\* tickets gone, hence fewer desired.
Look(c) ==
    /\ Advance(c, "idle", "looked")
    /\ overcommit' = [overcommit EXCEPT ![c] = dequeueOvercommit]
    /\ \E d \in 1..MaxBulk :
          /\ dequeueOptimisticCount - dequeueOvercommit + d <= tailIndex
          /\ desired' = [desired EXCEPT ![c] = d]
    /\ UNCHANGED <<counterVars, ticket, actual, ticketVars>>

TakeTickets(c) ==
    /\ dequeueOptimisticCount + desired[c] <= MaxTickets
    /\ Advance(c, "looked", "took")
    /\ ticket' = [ticket EXCEPT ![c] = dequeueOptimisticCount]
    /\ dequeueOptimisticCount' = dequeueOptimisticCount + desired[c]
    /\ UNCHANGED <<tailIndex, headIndex, dequeueOvercommit, overcommit, desired, actual, ticketVars>>

\* Faulty: dequeueOvercommit is read again after the tickets were taken.
CompareAfresh(c) ==
    LET found == tailIndex - (ticket[c] - dequeueOvercommit)
        a == IF found <= 0 THEN 0 ELSE IF found < desired[c] THEN found ELSE desired[c]
    IN  /\ Advance(c, "took", IF a < desired[c] THEN "waste" ELSE "claim")
        /\ actual' = [actual EXCEPT ![c] = a]
        /\ granted' = granted \union ticket[c]..(ticket[c] + a - 1)
        /\ refused' = refused \union (ticket[c] + a)..(ticket[c] + desired[c] - 1)
        /\ UNCHANGED <<counterVars, overcommit, desired, ticket, claimed, counted>>

\* The second load of tailIndex decides how many of the tickets are good.
Compare(c) ==
    LET found == tailIndex - (ticket[c] - overcommit[c])
        a == IF found <= 0 THEN 0 ELSE IF found < desired[c] THEN found ELSE desired[c]
    IN  /\ Advance(c, "took", IF a < desired[c] THEN "waste" ELSE "claim")
        /\ actual' = [actual EXCEPT ![c] = a]
        /\ granted' = granted \union ticket[c]..(ticket[c] + a - 1)
        /\ refused' = refused \union (ticket[c] + a)..(ticket[c] + desired[c] - 1)
        /\ UNCHANGED <<counterVars, overcommit, desired, ticket, claimed, counted>>

\* Faulty: a partial success counts every ticket as wasted.
WasteAll(c) ==
    /\ Advance(c, "waste", IF actual[c] = 0 THEN "idle" ELSE "claim")
    /\ dequeueOvercommit' = dequeueOvercommit + desired[c]
    /\ counted' = counted \union Wasted(c)
    /\ UNCHANGED <<tailIndex, headIndex, dequeueOptimisticCount, overcommit, desired,
                   ticket, actual, granted, refused, claimed>>

Waste(c) ==
    /\ Advance(c, "waste", IF actual[c] = 0 THEN "idle" ELSE "claim")
    /\ dequeueOvercommit' = dequeueOvercommit + (desired[c] - actual[c])
    /\ counted' = counted \union Wasted(c)
    /\ UNCHANGED <<tailIndex, headIndex, dequeueOptimisticCount, overcommit, desired,
                   ticket, actual, granted, refused, claimed>>

\* headIndex.fetch_add: the items from the old value on are the consumer's.
Claim(c) ==
    /\ Advance(c, "claim", "idle")
    /\ headIndex' = headIndex + actual[c]
    /\ claimed' = claimed \union Good(c)
    /\ UNCHANGED <<tailIndex, dequeueOptimisticCount, dequeueOvercommit, overcommit,
                   desired, ticket, actual, granted, refused, counted>>

Dequeue(c) == Look(c) \/ TakeTickets(c) \/ Compare(c) \/ Waste(c) \/ Claim(c)
ClaimsNext ==
    \/ \E n \in 1..MaxBulk : Publish(n)
    \/ \E c \in Consumers : Dequeue(c)
ClaimsSpec == ClaimsInit /\ [][ClaimsNext]_claimsVars

--------------------------------------------------------------------------------
(* Properties.                                                                 *)

ClaimsTypeOK ==
    /\ tailIndex \in 0..MaxItems /\ headIndex \in Nat
    /\ dequeueOptimisticCount \in 0..MaxTickets /\ dequeueOvercommit \in Nat
    /\ at \in [Consumers -> {"idle", "looked", "took", "waste", "claim"}]
    /\ overcommit \in [Consumers -> Nat]
    /\ desired \in [Consumers -> 0..MaxBulk]
    /\ ticket \in [Consumers -> Nat]
    /\ actual \in [Consumers -> 0..MaxBulk]
    /\ granted \subseteq 0..(dequeueOptimisticCount - 1)
    /\ refused \subseteq 0..(dequeueOptimisticCount - 1)
    /\ claimed \subseteq granted
    /\ counted \subseteq refused

\* No consumer is given an item that is not published, although the claim is made
\* after the comparison and others take and waste tickets in between.
NoClaimPastTail == headIndex <= tailIndex

\* Wasted tickets never hide an item: once no dequeue is under way, the tickets
\* that are neither wasted nor spent are none, so the next dequeue finds every
\* item that is left.
NoItemHidden ==
    (\A c \in Consumers : at[c] \in {"idle", "looked"})
        => dequeueOptimisticCount - dequeueOvercommit = headIndex

\* The protocol gives out items as ItemClaims does, so that NoClaimPastTail holds.
Abstract == INSTANCE ItemClaims
ImplementsItemClaims == Abstract!Spec
================================================================================
