---------------------------- MODULE LightSemaphore -----------------------------
(***************************************************************************)
(* LightweightSemaphore: a count kept in user space in front of a          *)
(* semaphore of the operating system.  A negative count is the number of   *)
(* waiters that have not been signalled.  wait and its variants for many   *)
(* permits are one operation here, of which wait asks for one permit.      *)
(*                                                                         *)
(* A load followed by a successful compare_exchange is one step: the value *)
(* compared is the one loaded.  A failed one only repeats its loop.        *)
(***************************************************************************)
EXTENDS Integers, FiniteSets

CONSTANTS Waiters, Signallers,
          MaxBulk    \* most permits one call asks for or gives

ASSUME SemaphoreAssumption ==
    /\ IsFiniteSet(Waiters) /\ IsFiniteSet(Signallers)
    /\ MaxBulk \in Nat \ {0}

VARIABLES
    m_count, m_sema,
    at,        \* where each waiter is
    max,       \* the permits it asks for
    patience,  \* how long it waits: "none" in tryWait, else its timeout_usecs
    got,       \* the permits it was given
    release    \* per signaller: what it has still to add to m_sema

semaphoreVars == <<m_count, m_sema, at, max, patience, got, release>>
callVars == <<max, patience>>

SemaphoreInit ==
    /\ m_count = 0 /\ m_sema = 0
    /\ at = [w \in Waiters |-> "idle"]
    /\ max = [w \in Waiters |-> 0]
    /\ patience = [w \in Waiters |-> "none"]
    /\ got = [w \in Waiters |-> 0]
    /\ release = [s \in Signallers |-> 0]

Least(a, b) == IF a < b THEN a ELSE b
Goto(w, from, to) == at[w] = from /\ at' = [at EXCEPT ![w] = to]

--------------------------------------------------------------------------------
Call(w) ==
    /\ Goto(w, "idle", "try")
    /\ \E n \in 1..MaxBulk, p \in {"none", "zero", "timed", "forever"} :
          /\ max' = [max EXCEPT ![w] = n]
          /\ patience' = [patience EXCEPT ![w] = p]
    /\ UNCHANGED <<m_count, m_sema, got, release>>

\* tryWait, tryWaitMany and the spinning: what is there is taken, up to max.
TakeCount(w, n) ==
    /\ m_count > 0 /\ n > 0
    /\ m_count' = m_count - Least(m_count, n)
    /\ got' = [got EXCEPT ![w] = @ + Least(m_count, n)]

TryTakes(w) ==
    /\ \E from \in {"try", "spin"} : Goto(w, from, "served")
    /\ TakeCount(w, max[w])
    /\ UNCHANGED <<m_sema, callVars, release>>

TryFails(w) ==
    /\ m_count <= 0
    /\ Goto(w, "try", IF patience[w] = "none" THEN "idle" ELSE "spin")
    /\ UNCHANGED <<m_count, m_sema, callVars, got, release>>

\* The spins are used up: fetch_sub.  From here the waiter has one permit coming
\* unless it withdraws.
Decrement(w) ==
    /\ Goto(w, "spin", IF m_count > 0 THEN "more"
                       ELSE IF patience[w] = "zero" THEN "adjust" ELSE "asleep")
    /\ m_count' = m_count - 1
    /\ got' = [got EXCEPT ![w] = IF m_count > 0 THEN 1 ELSE 0]
    /\ UNCHANGED <<m_sema, callVars, release>>

TakeSema(w, from) ==
    /\ m_sema > 0
    /\ Goto(w, from, "more")
    /\ m_sema' = m_sema - 1
    /\ got' = [got EXCEPT ![w] = 1]
    /\ UNCHANGED <<m_count, callVars, release>>

Wake(w) == TakeSema(w, "asleep")

TimeOut(w) ==
    /\ patience[w] = "timed"
    /\ Goto(w, "asleep", "adjust")
    /\ UNCHANGED <<m_count, m_sema, callVars, got, release>>

\* Faulty: the last waiter never withdraws.
WithdrawNotLast(w) ==
    /\ m_count < -1
    /\ Goto(w, "adjust", "idle")
    /\ m_count' = m_count + 1
    /\ UNCHANGED <<m_sema, callVars, got, release>>

\* The loop that re-adjusts the count: a waiter that was not signalled withdraws,
\* one that was tries to take its signal, which may not have arrived.
Withdraw(w) ==
    /\ m_count < 0
    /\ Goto(w, "adjust", "idle")
    /\ m_count' = m_count + 1
    /\ UNCHANGED <<m_sema, callVars, got, release>>

WasSignalled(w) ==
    /\ m_count >= 0
    /\ Goto(w, "adjust", "signalled")
    /\ UNCHANGED <<m_count, m_sema, callVars, got, release>>

LateWake(w) == TakeSema(w, "signalled")

NotYet(w) ==
    /\ m_sema = 0
    /\ Goto(w, "signalled", "adjust")
    /\ UNCHANGED <<m_count, m_sema, callVars, got, release>>

\* waitMany: one permit, and as many of the others as are there.
TopUp(w) ==
    /\ Goto(w, "more", "served")
    /\ \/ TakeCount(w, max[w] - 1)
       \/ (m_count <= 0 \/ max[w] = 1) /\ UNCHANGED <<m_count, got>>
    /\ UNCHANGED <<m_sema, callVars, release>>

\* Everything a waiter does once it has called, except that a timeout need not occur.
WaitStep(w) ==
    \/ TryTakes(w) \/ TryFails(w) \/ Decrement(w) \/ Wake(w) \/ Withdraw(w)
    \/ WasSignalled(w) \/ LateWake(w) \/ NotYet(w) \/ TopUp(w)

--------------------------------------------------------------------------------
(* signal(n): the count first, then the waiters it found.                      *)

\* Faulty: a signal of many wakes one waiter.
AddWakesOne(s, n) ==
    /\ release[s] = 0
    /\ m_count' = m_count + n
    /\ release' = [release EXCEPT ![s] = IF m_count < 0 THEN 1 ELSE 0]
    /\ UNCHANGED <<m_sema, at, callVars, got>>

Add(s, n) ==
    /\ release[s] = 0
    /\ m_count' = m_count + n
    /\ release' = [release EXCEPT ![s] = IF m_count < 0 THEN Least(-m_count, n) ELSE 0]
    /\ UNCHANGED <<m_sema, at, callVars, got>>

ReleaseSema(s) ==
    /\ release[s] > 0
    /\ m_sema' = m_sema + release[s]
    /\ release' = [release EXCEPT ![s] = 0]
    /\ UNCHANGED <<m_count, at, callVars, got>>

availableApprox == IF m_count > 0 THEN m_count ELSE 0
================================================================================
