----------------------------- MODULE BlockingQueue -----------------------------
(***************************************************************************)
(* BlockingConcurrentQueue: a ConcurrentQueue and a LightweightSemaphore   *)
(* that counts its items.  Items enter the queue before they are           *)
(* signalled; a consumer obtains permits, then dequeues as many items,     *)
(* repeating a dequeue that finds nothing.                                 *)
(*                                                                         *)
(* The inner queue is its two counters, as in ItemClaims: what it promises *)
(* whatever its producers are, and which DequeueClaims implements.         *)
(***************************************************************************)
EXTENDS LightSemaphore

CONSTANT MaxItems    \* bound: items ever enqueued

ASSUME QueueAssumption == MaxItems \in Nat

VARIABLES
    tailIndex, headIndex,  \* items enqueued in and dequeued from inner
    unsignalled            \* per producer: the items it has enqueued and not signalled

vars == <<semaphoreVars, tailIndex, headIndex, unsignalled>>

Init ==
    /\ SemaphoreInit
    /\ tailIndex = 0 /\ headIndex = 0
    /\ unsignalled = [s \in Signallers |-> 0]

\* enqueue, enqueue_bulk and their try_ forms; one that fails changes nothing.
Enqueue(s) ==
    /\ unsignalled[s] = 0 /\ release[s] = 0
    /\ \E n \in 1..MaxBulk :
          /\ tailIndex + n <= MaxItems
          /\ tailIndex' = tailIndex + n
          /\ unsignalled' = [unsignalled EXCEPT ![s] = n]
    /\ UNCHANGED <<semaphoreVars, headIndex>>

Signal(s) ==
    /\ unsignalled[s] > 0
    /\ Add(s, unsignalled[s])
    /\ unsignalled' = [unsignalled EXCEPT ![s] = 0]
    /\ UNCHANGED <<tailIndex, headIndex>>

\* Faulty: the consumer gives up when a bulk dequeue returned fewer than its permits.
DequeueOnce(w) ==
    \E k \in 1..got[w] :
        /\ headIndex + k <= tailIndex
        /\ Goto(w, "served", "idle")
        /\ headIndex' = headIndex + k
        /\ got' = [got EXCEPT ![w] = 0]
        /\ UNCHANGED <<m_count, m_sema, callVars, release, tailIndex, unsignalled>>

\* try_dequeue(_bulk) in the loop that ends when every permit is used.
Dequeue(w) ==
    \E k \in 1..got[w] :
        /\ headIndex + k <= tailIndex
        /\ Goto(w, "served", IF k = got[w] THEN "idle" ELSE "served")
        /\ headIndex' = headIndex + k
        /\ got' = [got EXCEPT ![w] = @ - k]
        /\ UNCHANGED <<m_count, m_sema, callVars, release, tailIndex, unsignalled>>

size_approx == availableApprox

SemaphoreStep(A) == A /\ UNCHANGED <<tailIndex, headIndex, unsignalled>>
ConsumerStep(w) == SemaphoreStep(WaitStep(w)) \/ Dequeue(w)
ProducerStep(s) == Signal(s) \/ SemaphoreStep(ReleaseSema(s))

Next ==
    \/ \E w \in Waiters : \/ SemaphoreStep(Call(w)) \/ SemaphoreStep(TimeOut(w))
                          \/ ConsumerStep(w)
    \/ \E s \in Signallers : Enqueue(s) \/ ProducerStep(s)

\* A thread inside a call keeps running; whether one is made is the caller's choice.
Fairness ==
    /\ \A w \in Waiters : WF_vars(ConsumerStep(w)) /\ WF_vars(SemaphoreStep(TimeOut(w)))
    /\ \A s \in Signallers : WF_vars(ProducerStep(s))

Spec == Init /\ [][Next]_vars /\ Fairness

--------------------------------------------------------------------------------
(* Properties.                                                                 *)

TypeOK ==
    /\ m_count \in -Cardinality(Waiters)..MaxItems
    /\ m_sema \in 0..Cardinality(Waiters)
    /\ at \in [Waiters -> {"idle", "try", "spin", "asleep", "adjust", "signalled", "more", "served"}]
    /\ max \in [Waiters -> 0..MaxBulk]
    /\ patience \in [Waiters -> {"none", "zero", "timed", "forever"}]
    /\ got \in [Waiters -> 0..MaxBulk] /\ \A w \in Waiters : got[w] <= max[w]
    /\ release \in [Signallers -> 0..MaxBulk]
    /\ unsignalled \in [Signallers -> 0..MaxBulk]
    /\ headIndex \in 0..MaxItems /\ tailIndex \in 0..MaxItems

\* The sum of f[x] over all x: what f counts, each of it once.
Units(f) == {u \in (DOMAIN f) \X (1..MaxBulk) : u[2] <= f[u[1]]}
Sum(f) == Cardinality(Units(f))

\* Waiters between fetch_sub and the end of their wait.
Committed == {w \in Waiters : at[w] \in {"asleep", "adjust", "signalled"}}

\* Every waiter that has decremented the count is either still counted below zero or
\* has a wake-up in the semaphore or on its way there: none is forgotten when a
\* timeout races a signal, and no wake-up is left over for a later waiter.
WaitersAccounted ==
    Cardinality(Committed) = Sum(release) + m_sema + (IF m_count < 0 THEN -m_count ELSE 0)

\* Every item in the queue is promised to exactly one permit: one not yet signalled,
\* one to be had, one held by a consumer, or one that a wake-up carries.  So a
\* consumer that was given a permit finds its item, and size_approx never exceeds
\* what the queue holds.
PermitsAccounted ==
    tailIndex - headIndex = Sum(unsignalled) + size_approx + Sum(got) + m_sema + Sum(release)

\* The books of the semaphore and of the queue agree at every step: permits, wake-ups,
\* waiters and items.
BlockingInv == TypeOK /\ WaitersAccounted /\ PermitsAccounted

\* No wake-up is lost: a consumer does not sleep on while items stay in the queue.
NoLostWakeup ==
    \A w \in Waiters : at[w] = "asleep" /\ headIndex < tailIndex
                         ~> at[w] # "asleep" \/ headIndex = tailIndex

\* A wait that has timed out returns: the re-adjusting loop ends, by withdrawing or
\* by taking the wake-up that was sent in the meantime.
TimedWaitReturns ==
    \A w \in Waiters : at[w] = "adjust" ~> at[w] \in {"idle", "more"}
================================================================================
