----------------------------- MODULE BlockingProofs ----------------------------
(***************************************************************************)
(* The books of the blocking queue, proved for any number of producers and *)
(* consumers, any number of items and calls of any size.                   *)
(***************************************************************************)
EXTENDS BlockingQueue, FiniteSetTheorems, TLAPS

Places == {"idle", "try", "spin", "asleep", "adjust", "signalled", "more", "served"}

\* The types, without the bounds that follow from the accounts.
Types ==
    /\ m_count \in Int /\ m_sema \in Nat
    /\ at \in [Waiters -> Places]
    /\ max \in [Waiters -> 0..MaxBulk]
    /\ patience \in [Waiters -> {"none", "zero", "timed", "forever"}]
    /\ got \in [Waiters -> 0..MaxBulk]
    /\ release \in [Signallers -> 0..MaxBulk]
    /\ unsignalled \in [Signallers -> 0..MaxBulk]
    /\ headIndex \in Nat /\ tailIndex \in 0..MaxItems

\* A waiter has no permit until it was served, and one when it tops up.
Calls ==
    \A w \in Waiters :
        /\ at[w] \in {"idle", "try", "spin", "asleep", "adjust", "signalled"} => got[w] = 0
        /\ at[w] = "more" => got[w] = 1
        /\ at[w] # "idle" => max[w] >= 1
        /\ got[w] <= max[w]

Inv == Types /\ Calls /\ WaitersAccounted /\ PermitsAccounted

--------------------------------------------------------------------------------
(* Sums and counts.                                                            *)

\* What one value is worth in a sum.
Rest(f, x) == {u \in Units(f) : u[1] # x}

LEMMA UnitsFinite ==
    ASSUME NEW S, IsFiniteSet(S), NEW f \in [S -> 0..MaxBulk]
    PROVE  IsFiniteSet(Units(f)) /\ Sum(f) \in Nat
<1>1. IsFiniteSet(1..MaxBulk)
  BY SemaphoreAssumption, FS_Interval
<1>2. IsFiniteSet(S \X (1..MaxBulk))
  BY <1>1, FS_Product, Zenon
<1>3. Units(f) \subseteq S \X (1..MaxBulk)
  BY DEF Units
<1> QED
  BY <1>2, <1>3, FS_Subset, FS_CardinalityType DEF Sum

LEMMA SumParts ==
    ASSUME NEW S, IsFiniteSet(S), NEW f \in [S -> 0..MaxBulk], NEW x \in S
    PROVE  Cardinality(Rest(f, x)) \in Nat /\ Sum(f) = Cardinality(Rest(f, x)) + f[x]
<1> DEFINE own == {x} \X (1..f[x])
<1>1. f[x] \in Nat /\ f[x] <= MaxBulk /\ MaxBulk \in Nat
  BY SemaphoreAssumption
<1>2. IsFiniteSet(Rest(f, x)) /\ Cardinality(Rest(f, x)) \in Nat
  BY UnitsFinite, FS_Subset, FS_CardinalityType DEF Rest
<1>3. IsFiniteSet(own) /\ Cardinality(own) = f[x]
  <2>1. IsFiniteSet({x}) /\ Cardinality({x}) = 1
    BY FS_Singleton
  <2>2. IsFiniteSet(1..f[x]) /\ Cardinality(1..f[x]) = f[x]
    BY <1>1, FS_Interval
  <2>3. IsFiniteSet(own) /\ Cardinality(own) = Cardinality({x}) * Cardinality(1..f[x])
    BY <2>1, <2>2, FS_Product, Zenon
  <2> HIDE DEF own
  <2> QED
    BY <1>1, <2>1, <2>2, <2>3
<1>4. Units(f) = Rest(f, x) \union own /\ Rest(f, x) \intersect own = {}
  BY <1>1 DEF Units, Rest
<1> HIDE DEF own
<1>5. Cardinality({}) = 0
  BY FS_EmptySet
<1>6. Sum(f) = Cardinality(Rest(f, x)) + Cardinality(own)
                 - Cardinality(Rest(f, x) \intersect own)
  BY <1>2, <1>3, <1>4, FS_Union DEF Sum
<1> QED
  BY <1>1, <1>2, <1>3, <1>4, <1>5, <1>6

\* The function g is f with the value v at x.
Becomes(g, f, x, v) == g = [f EXCEPT ![x] = v]

LEMMA SumUpdate ==
    ASSUME NEW S, IsFiniteSet(S), NEW f \in [S -> 0..MaxBulk],
           NEW x \in S, NEW v \in 0..MaxBulk, NEW g, Becomes(g, f, x, v)
    PROVE  /\ g \in [S -> 0..MaxBulk]
           /\ Sum(g) = Sum(f) - f[x] + v /\ Sum(f) >= f[x]
<1>1. g \in [S -> 0..MaxBulk] /\ g[x] = v
  BY DEF Becomes
<1>2. Rest(f, x) = Rest(g, x)
  BY DEF Rest, Units, Becomes
<1>3. Cardinality(Rest(f, x)) \in Nat /\ Sum(f) = Cardinality(Rest(f, x)) + f[x]
  BY SumParts
<1>4. Sum(g) = Cardinality(Rest(g, x)) + g[x]
  BY <1>1, SumParts
<1> QED
  BY <1>1, <1>2, <1>3, <1>4, SemaphoreAssumption

\* A sum of zeros.
LEMMA SumZero ==
    ASSUME NEW S
    PROVE  Sum([x \in S |-> 0]) = 0
<1>1. Units([x \in S |-> 0]) = {}
  BY DEF Units
<1> QED
  BY <1>1, FS_EmptySet DEF Sum

LEMMA CommittedFinite ==
    /\ IsFiniteSet(Committed) /\ Cardinality(Committed) \in Nat
    /\ Cardinality(Committed) <= Cardinality(Waiters)
<1>1. Committed \subseteq Waiters
  BY DEF Committed
<1> QED
  BY <1>1, SemaphoreAssumption, FS_Subset, FS_CardinalityType

\* A waiter begins to wait, or its wait is over, or neither.
Waits(l) == l \in {"asleep", "adjust", "signalled"}

LEMMA CommittedChange ==
    ASSUME at \in [Waiters -> Places], NEW w \in Waiters, NEW l \in Places,
           at' = [at EXCEPT ![w] = l]
    PROVE  /\ Waits(l) /\ ~Waits(at[w])
                => Cardinality(Committed)' = Cardinality(Committed) + 1
           /\ ~Waits(l) /\ Waits(at[w])
                => Cardinality(Committed)' = Cardinality(Committed) - 1
           /\ Waits(l) = Waits(at[w])
                => Cardinality(Committed)' = Cardinality(Committed)
<1>1. CASE Waits(l) /\ ~Waits(at[w])
  <2>1. Committed' = Committed \union {w} /\ w \notin Committed
    BY <1>1 DEF Committed, Waits
  <2> QED
    BY <1>1, <2>1, CommittedFinite, FS_AddElement
<1>2. CASE ~Waits(l) /\ Waits(at[w])
  <2>1. Committed' = Committed \ {w} /\ w \in Committed
    BY <1>2 DEF Committed, Waits
  <2> QED
    BY <1>2, <2>1, CommittedFinite, FS_RemoveElement
<1>3. CASE Waits(l) = Waits(at[w])
  <2>1. Committed' = Committed
    BY <1>3 DEF Committed, Waits
  <2> QED
    BY <1>3, <2>1
<1> QED
  BY <1>1, <1>2, <1>3 DEF Waits

LEMMA CommittedSame ==
    ASSUME at' = at
    PROVE  Cardinality(Committed)' = Cardinality(Committed)
BY DEF Committed

\* What every action finds.
LEMMA Known ==
    ASSUME Inv
    PROVE  /\ Types /\ Calls /\ MaxBulk \in Nat \ {0} /\ MaxItems \in Nat
           /\ IsFiniteSet(Waiters) /\ IsFiniteSet(Signallers)
           /\ Sum(got) \in Nat /\ Sum(release) \in Nat /\ Sum(unsignalled) \in Nat
           /\ Cardinality(Committed) \in Nat /\ Cardinality(Waiters) \in Nat
           /\ Cardinality(Committed) <= Cardinality(Waiters)
<1>1. Types /\ Calls
  BY DEF Inv
<1>2. /\ Sum(got) \in Nat /\ Sum(release) \in Nat /\ Sum(unsignalled) \in Nat
  BY <1>1, UnitsFinite, SemaphoreAssumption DEF Types
<1> QED
  BY <1>1, <1>2, CommittedFinite, SemaphoreAssumption, QueueAssumption, FS_CardinalityType

\* What a waiter's permits add to the accounts.
LEMMA GotChange ==
    ASSUME Inv, NEW w \in Waiters, NEW v \in 0..MaxBulk, got' = [got EXCEPT ![w] = v]
    PROVE  /\ got' \in [Waiters -> 0..MaxBulk]
           /\ Sum(got') = Sum(got) - got[w] + v /\ Sum(got) >= got[w]
<1>1. got \in [Waiters -> 0..MaxBulk] /\ IsFiniteSet(Waiters)
  BY Known DEF Types
<1>2. Becomes(got', got, w, v)
  BY DEF Becomes
<1> QED
  BY <1>1, <1>2, SumUpdate

LEMMA ReleaseChange ==
    ASSUME Inv, NEW s \in Signallers, NEW v \in 0..MaxBulk,
           release' = [release EXCEPT ![s] = v]
    PROVE  /\ release' \in [Signallers -> 0..MaxBulk]
           /\ Sum(release') = Sum(release) - release[s] + v
<1>1. release \in [Signallers -> 0..MaxBulk] /\ IsFiniteSet(Signallers)
  BY Known DEF Types
<1>2. Becomes(release', release, s, v)
  BY DEF Becomes
<1> QED
  BY <1>1, <1>2, SumUpdate

LEMMA UnsignalledChange ==
    ASSUME Inv, NEW s \in Signallers, NEW v \in 0..MaxBulk,
           unsignalled' = [unsignalled EXCEPT ![s] = v]
    PROVE  /\ unsignalled' \in [Signallers -> 0..MaxBulk]
           /\ Sum(unsignalled') = Sum(unsignalled) - unsignalled[s] + v
<1>1. unsignalled \in [Signallers -> 0..MaxBulk] /\ IsFiniteSet(Signallers)
  BY Known DEF Types
<1>2. Becomes(unsignalled', unsignalled, s, v)
  BY DEF Becomes
<1> QED
  BY <1>1, <1>2, SumUpdate

--------------------------------------------------------------------------------
(* The invariant holds at first and implies the bounds of the types.           *)

LEMMA InitInv == Init => Inv
<1> SUFFICES ASSUME Init PROVE Inv
  OBVIOUS
<1> USE DEF Init, SemaphoreInit
<1>1. Types
  BY SemaphoreAssumption, QueueAssumption DEF Types, Places
<1>2. Calls
  BY DEF Calls
<1>3. Sum(got) = 0 /\ Sum(release) = 0 /\ Sum(unsignalled) = 0
  BY SumZero
<1>4. Committed = {} /\ Cardinality({}) = 0
  BY FS_EmptySet DEF Committed
<1>5. WaitersAccounted
  BY <1>3, <1>4 DEF WaitersAccounted
<1>6. PermitsAccounted
  BY <1>3 DEF PermitsAccounted, size_approx, availableApprox
<1> QED
  BY <1>1, <1>2, <1>5, <1>6 DEF Inv

LEMMA InvBooks == Inv => BlockingInv
<1> SUFFICES ASSUME Inv PROVE BlockingInv
  OBVIOUS
<1>1. WaitersAccounted /\ PermitsAccounted
  BY DEF Inv
<1>2. m_count \in -Cardinality(Waiters)..MaxItems /\ m_sema \in 0..Cardinality(Waiters)
      /\ headIndex \in 0..MaxItems
  BY <1>1, Known DEF Types, WaitersAccounted, PermitsAccounted, size_approx, availableApprox
<1>3. \A w \in Waiters : got[w] <= max[w]
  BY Known DEF Calls
<1>4. TypeOK
  BY <1>2, <1>3, Known DEF Types, TypeOK, Places
<1> QED
  BY <1>1, <1>4 DEF BlockingInv

--------------------------------------------------------------------------------
(* The steps of a waiter.                                                      *)

\* The program counter moves.
LEMMA GotoTypes ==
    ASSUME Inv, NEW w \in Waiters, NEW from \in Places, NEW to \in Places, Goto(w, from, to)
    PROVE  /\ at' \in [Waiters -> Places] /\ at[w] = from /\ at' = [at EXCEPT ![w] = to]
           /\ Waits(to) /\ ~Waits(from)
                => Cardinality(Committed)' = Cardinality(Committed) + 1
           /\ ~Waits(to) /\ Waits(from)
                => Cardinality(Committed)' = Cardinality(Committed) - 1
           /\ Waits(to) = Waits(from)
                => Cardinality(Committed)' = Cardinality(Committed)
<1>1. at \in [Waiters -> Places] /\ at[w] = from /\ at' = [at EXCEPT ![w] = to]
  BY Known DEF Types, Goto
<1> QED
  BY <1>1, CommittedChange

LEMMA CallStep ==
    ASSUME Inv, NEW w \in Waiters, SemaphoreStep(Call(w))
    PROVE  Inv'
<1> USE DEF SemaphoreStep, Call
<1>1. /\ at' \in [Waiters -> Places] /\ at[w] = "idle" /\ at' = [at EXCEPT ![w] = "try"]
      /\ Cardinality(Committed)' = Cardinality(Committed)
  BY GotoTypes DEF Places, Waits
<1>2. PICK n \in 1..MaxBulk, p \in {"none", "zero", "timed", "forever"} :
          max' = [max EXCEPT ![w] = n] /\ patience' = [patience EXCEPT ![w] = p]
  OBVIOUS
<1>3. Types'
  BY <1>1, <1>2, Known DEF Types
<1>4. Calls'
  BY <1>1, <1>2, Known DEF Types, Calls
<1>5. WaitersAccounted' /\ PermitsAccounted'
  BY <1>1 DEF Inv, WaitersAccounted, PermitsAccounted, size_approx, availableApprox
<1> QED
  BY <1>3, <1>4, <1>5 DEF Inv

LEMMA TryTakesStep ==
    ASSUME Inv, NEW w \in Waiters, SemaphoreStep(TryTakes(w))
    PROVE  Inv'
<1> USE DEF SemaphoreStep, TryTakes, TakeCount, callVars
<1> DEFINE taken == Least(m_count, max[w])
<1>1. PICK from \in {"try", "spin"} : Goto(w, from, "served")
  OBVIOUS
<1>2. /\ at' \in [Waiters -> Places] /\ at[w] = from /\ at' = [at EXCEPT ![w] = "served"]
      /\ Cardinality(Committed)' = Cardinality(Committed)
  BY <1>1, GotoTypes DEF Places, Waits
<1>3. got[w] = 0 /\ m_count \in Int /\ max[w] \in 0..MaxBulk
  BY <1>2, Known DEF Types, Calls
<1>4. taken \in 1..max[w] /\ taken \in 0..MaxBulk /\ taken <= m_count
  BY <1>3, Known DEF Least
<1>5. m_count' = m_count - taken /\ got' = [got EXCEPT ![w] = taken]
  <2>1. got[w] + taken = taken
    BY <1>3, <1>4, Known
  <2> QED
    BY <2>1
<1> HIDE DEF taken
<1>6. got' \in [Waiters -> 0..MaxBulk] /\ Sum(got') = Sum(got) - got[w] + taken
  BY <1>4, <1>5, GotChange, Zenon
<1>7. Types'
  BY <1>2, <1>3, <1>4, <1>5, <1>6, Known DEF Types
<1>8. Calls'
  BY <1>2, <1>4, <1>5, Known DEF Types, Calls
<1>9. WaitersAccounted' /\ PermitsAccounted'
  BY <1>2, <1>3, <1>4, <1>5, <1>6, Known
     DEF Inv, Types, WaitersAccounted, PermitsAccounted, size_approx, availableApprox
<1> QED
  BY <1>7, <1>8, <1>9 DEF Inv

LEMMA TryFailsStep ==
    ASSUME Inv, NEW w \in Waiters, SemaphoreStep(TryFails(w))
    PROVE  Inv'
<1> USE DEF SemaphoreStep, TryFails, callVars
<1>1. PICK to \in {"idle", "spin"} : Goto(w, "try", to)
  OBVIOUS
<1>2. /\ at' \in [Waiters -> Places] /\ at[w] = "try" /\ at' = [at EXCEPT ![w] = to]
      /\ Cardinality(Committed)' = Cardinality(Committed)
  BY <1>1, GotoTypes DEF Places, Waits
<1>3. Types'
  BY <1>2, Known DEF Types
<1>4. Calls'
  BY <1>2, Known DEF Types, Calls
<1>5. WaitersAccounted' /\ PermitsAccounted'
  BY <1>2 DEF Inv, WaitersAccounted, PermitsAccounted, size_approx, availableApprox
<1> QED
  BY <1>3, <1>4, <1>5 DEF Inv

LEMMA DecrementStep ==
    ASSUME Inv, NEW w \in Waiters, SemaphoreStep(Decrement(w))
    PROVE  Inv'
<1> USE DEF SemaphoreStep, Decrement, callVars
<1> DEFINE given == IF m_count > 0 THEN 1 ELSE 0
<1>1. PICK to \in {"more", "adjust", "asleep"} :
          Goto(w, "spin", to) /\ (to = "more" <=> m_count > 0)
  OBVIOUS
<1>2. /\ at' \in [Waiters -> Places] /\ at[w] = "spin" /\ at' = [at EXCEPT ![w] = to]
      /\ Cardinality(Committed)' = Cardinality(Committed) + 1 - given
  <2>1. Cardinality(Committed) \in Nat
    BY Known
  <2>2. /\ at' \in [Waiters -> Places] /\ at[w] = "spin" /\ at' = [at EXCEPT ![w] = to]
    BY <1>1, GotoTypes DEF Places
  <2>3. CASE to = "more"
    <3>1. given = 1 /\ Waits("more") = Waits("spin") /\ Goto(w, "spin", "more")
      BY <1>1, <2>3 DEF Waits
    <3>2. Cardinality(Committed)' = Cardinality(Committed)
      BY <3>1, GotoTypes, Zenon DEF Places
    <3> QED
      BY <2>1, <2>2, <3>1, <3>2
  <2>4. CASE to # "more"
    <3>1. given = 0 /\ Waits(to) /\ ~Waits("spin")
      BY <1>1, <2>4 DEF Waits
    <3>2. Cardinality(Committed)' = Cardinality(Committed) + 1
      <4>1. PICK from : from = "spin"
        OBVIOUS
      <4>2. /\ to \in Places /\ from \in Places /\ Goto(w, from, to)
            /\ Waits(to) /\ ~Waits(from)
        BY <1>1, <3>1, <4>1 DEF Places
      <4> QED
        BY <4>2, GotoTypes, ZenonT(40)
    <3> QED
      BY <2>1, <2>2, <3>1, <3>2
  <2> QED
    BY <2>2, <2>3, <2>4
<1>3. got[w] = 0 /\ max[w] >= 1 /\ m_count \in Int /\ given \in 0..MaxBulk
  BY <1>2, Known DEF Types, Calls
<1>4. got' \in [Waiters -> 0..MaxBulk] /\ Sum(got') = Sum(got) - got[w] + given
  BY <1>3, GotChange, Zenon
<1>5. Types'
  BY <1>2, <1>3, <1>4, Known DEF Types
<1>6. Calls'
  BY <1>1, <1>2, <1>3, Known DEF Types, Calls
<1>7. WaitersAccounted' /\ PermitsAccounted'
  BY <1>2, <1>3, <1>4, Known
     DEF Inv, Types, WaitersAccounted, PermitsAccounted, size_approx, availableApprox
<1> QED
  BY <1>5, <1>6, <1>7 DEF Inv

LEMMA TakeSemaStep ==
    ASSUME Inv, NEW w \in Waiters, NEW from \in {"asleep", "signalled"},
           SemaphoreStep(TakeSema(w, from))
    PROVE  Inv'
<1> USE DEF SemaphoreStep, TakeSema, callVars
<1>1. /\ at' \in [Waiters -> Places] /\ at[w] = from /\ at' = [at EXCEPT ![w] = "more"]
      /\ Cardinality(Committed)' = Cardinality(Committed) - 1
  BY GotoTypes DEF Places, Waits
<1>2. got[w] = 0 /\ max[w] >= 1 /\ max[w] \in 0..MaxBulk /\ 1 \in 0..MaxBulk
  BY <1>1, Known DEF Types, Calls
<1>3. got' \in [Waiters -> 0..MaxBulk] /\ Sum(got') = Sum(got) - got[w] + 1
  BY <1>2, GotChange, Zenon
<1>4. Types'
  BY <1>1, <1>2, <1>3, Known DEF Types
<1>5. Calls'
  BY <1>1, <1>2, Known DEF Types, Calls
<1>6. WaitersAccounted' /\ PermitsAccounted'
  BY <1>1, <1>2, <1>3, Known
     DEF Inv, Types, WaitersAccounted, PermitsAccounted, size_approx, availableApprox
<1> QED
  BY <1>4, <1>5, <1>6 DEF Inv

\* A timeout, a waiter that finds it was signalled, and one whose signal is late: the
\* waiter stays committed.
LEMMA StillWaitsStep ==
    ASSUME Inv, NEW w \in Waiters,
           NEW from \in {"asleep", "adjust", "signalled"}, NEW to \in {"adjust", "signalled"},
           Goto(w, from, to),
           UNCHANGED <<m_count, m_sema, max, patience, got, release,
                       tailIndex, headIndex, unsignalled>>
    PROVE  Inv'
<1>1. /\ at' \in [Waiters -> Places] /\ at[w] = from /\ at' = [at EXCEPT ![w] = to]
      /\ Cardinality(Committed)' = Cardinality(Committed)
  BY GotoTypes DEF Places, Waits
<1>2. Types'
  BY <1>1, Known DEF Types
<1>3. Calls'
  BY <1>1, Known DEF Types, Calls
<1>4. WaitersAccounted' /\ PermitsAccounted'
  BY <1>1 DEF Inv, WaitersAccounted, PermitsAccounted, size_approx, availableApprox
<1> QED
  BY <1>2, <1>3, <1>4 DEF Inv

LEMMA WithdrawStep ==
    ASSUME Inv, NEW w \in Waiters, SemaphoreStep(Withdraw(w))
    PROVE  Inv'
<1> USE DEF SemaphoreStep, Withdraw, callVars
<1>1. /\ at' \in [Waiters -> Places] /\ at[w] = "adjust" /\ at' = [at EXCEPT ![w] = "idle"]
      /\ Cardinality(Committed)' = Cardinality(Committed) - 1
  BY GotoTypes DEF Places, Waits
<1>2. Types'
  BY <1>1, Known DEF Types
<1>3. Calls'
  BY <1>1, Known DEF Types, Calls
<1>4. WaitersAccounted' /\ PermitsAccounted'
  BY <1>1, Known
     DEF Inv, Types, WaitersAccounted, PermitsAccounted, size_approx, availableApprox
<1> QED
  BY <1>2, <1>3, <1>4 DEF Inv

LEMMA TopUpStep ==
    ASSUME Inv, NEW w \in Waiters, SemaphoreStep(TopUp(w))
    PROVE  Inv'
<1> USE DEF SemaphoreStep, TopUp, TakeCount, callVars
<1>1. /\ at' \in [Waiters -> Places] /\ at[w] = "more" /\ at' = [at EXCEPT ![w] = "served"]
      /\ Cardinality(Committed)' = Cardinality(Committed)
  BY GotoTypes DEF Places, Waits
<1>2. got[w] = 1 /\ m_count \in Int /\ max[w] \in 1..MaxBulk
  BY <1>1, Known DEF Types, Calls
<1>3. PICK taken \in 0..(max[w] - 1) :
          /\ m_count' = m_count - taken /\ (taken = 0 \/ taken <= m_count)
          /\ got' = [got EXCEPT ![w] = 1 + taken]
  <2>1. CASE TakeCount(w, max[w] - 1)
    <3>1. Least(m_count, max[w] - 1) \in 0..(max[w] - 1) /\ Least(m_count, max[w] - 1) <= m_count
      BY <1>2, <2>1, Known DEF Least
    <3> QED
      BY <1>2, <2>1, <3>1
  <2>2. CASE UNCHANGED <<m_count, got>>
    <3>1. got' = [got EXCEPT ![w] = 1 + 0] /\ 0 \in 0..(max[w] - 1) /\ m_count' = m_count - 0
      BY <1>2, <2>2, Known DEF Types
    <3> QED
      BY <3>1
  <2> QED
    BY <2>1, <2>2
<1>4. 1 + taken \in 0..MaxBulk /\ 1 + taken <= max[w]
  BY <1>2, <1>3, Known
<1>5. got' \in [Waiters -> 0..MaxBulk] /\ Sum(got') = Sum(got) - got[w] + (1 + taken)
  BY <1>3, <1>4, GotChange, Zenon
<1>6. Types'
  BY <1>1, <1>2, <1>3, <1>5, Known DEF Types
<1>7. Calls'
  BY <1>1, <1>3, <1>4, Known DEF Types, Calls
<1>8. WaitersAccounted' /\ PermitsAccounted'
  BY <1>1, <1>2, <1>3, <1>5, Known
     DEF Inv, Types, WaitersAccounted, PermitsAccounted, size_approx, availableApprox
<1> QED
  BY <1>6, <1>7, <1>8 DEF Inv

LEMMA DequeueStep ==
    ASSUME Inv, NEW w \in Waiters, Dequeue(w)
    PROVE  Inv'
<1> USE DEF Dequeue, callVars
<1>1. PICK k \in 1..got[w] :
          /\ headIndex + k <= tailIndex /\ headIndex' = headIndex + k
          /\ Goto(w, "served", IF k = got[w] THEN "idle" ELSE "served")
          /\ got' = [got EXCEPT ![w] = @ - k]
          /\ UNCHANGED <<m_count, m_sema, callVars, release, tailIndex, unsignalled>>
  BY Zenon
<1>2. PICK to \in {"idle", "served"} : Goto(w, "served", to) /\ (to = "idle" => k = got[w])
  BY <1>1
<1>3. /\ at' \in [Waiters -> Places] /\ at[w] = "served" /\ at' = [at EXCEPT ![w] = to]
      /\ Cardinality(Committed)' = Cardinality(Committed)
  BY <1>2, GotoTypes DEF Places, Waits
<1>4. got[w] \in 0..MaxBulk /\ got[w] - k \in 0..MaxBulk /\ k \in Nat
  BY <1>1, Known DEF Types
<1>5. got' = [got EXCEPT ![w] = got[w] - k]
  BY <1>1
<1>6. got' \in [Waiters -> 0..MaxBulk] /\ Sum(got') = Sum(got) - got[w] + (got[w] - k)
  BY <1>4, <1>5, GotChange, Zenon
<1>7. Types'
  BY <1>1, <1>3, <1>4, <1>6, Known DEF Types
<1>8. Calls'
  <2> SUFFICES ASSUME NEW v \in Waiters
               PROVE  /\ at'[v] \in {"idle", "try", "spin", "asleep", "adjust", "signalled"}
                            => got'[v] = 0
                      /\ at'[v] = "more" => got'[v] = 1
                      /\ at'[v] # "idle" => max'[v] >= 1
                      /\ got'[v] <= max'[v]
    BY DEF Calls
  <2>1. CASE v = w
    BY <1>1, <1>2, <1>3, <1>4, <1>5, <2>1, Known DEF Types, Calls
  <2>2. CASE v # w
    BY <1>1, <1>3, <1>5, <2>2, Known DEF Types, Calls
  <2> QED
    BY <2>1, <2>2
<1>9. WaitersAccounted' /\ PermitsAccounted'
  BY <1>1, <1>3, <1>4, <1>6, Known
     DEF Inv, Types, WaitersAccounted, PermitsAccounted, size_approx, availableApprox
<1> QED
  BY <1>7, <1>8, <1>9 DEF Inv

--------------------------------------------------------------------------------
(* The steps of a producer.                                                    *)

LEMMA EnqueueStep ==
    ASSUME Inv, NEW s \in Signallers, Enqueue(s)
    PROVE  Inv'
<1> USE DEF Enqueue, semaphoreVars
<1>1. PICK n \in 1..MaxBulk :
          /\ tailIndex + n <= MaxItems /\ tailIndex' = tailIndex + n
          /\ unsignalled' = [unsignalled EXCEPT ![s] = n]
  OBVIOUS
<1>2. Cardinality(Committed)' = Cardinality(Committed)
  BY CommittedSame
<1>3. n \in 0..MaxBulk /\ n \in Nat /\ unsignalled \in [Signallers -> 0..MaxBulk]
  BY <1>1, Known DEF Types
<1>4. /\ unsignalled' \in [Signallers -> 0..MaxBulk]
      /\ Sum(unsignalled') = Sum(unsignalled) - unsignalled[s] + n
  BY <1>1, <1>3, UnsignalledChange
<1>5. Types'
  BY <1>1, <1>3, <1>4, Known DEF Types
<1>6. Calls'
  BY Known DEF Calls
<1>7. WaitersAccounted' /\ PermitsAccounted'
  BY <1>1, <1>2, <1>3, <1>4, Known
     DEF Inv, Types, WaitersAccounted, PermitsAccounted, size_approx, availableApprox
<1> QED
  BY <1>5, <1>6, <1>7 DEF Inv

LEMMA SignalStep ==
    ASSUME Inv, NEW s \in Signallers, Signal(s)
    PROVE  Inv'
<1> USE DEF Signal, Add, callVars
<1> DEFINE n == unsignalled[s]
           woken == IF m_count < 0 THEN Least(-m_count, n) ELSE 0
<1>1. n \in 1..MaxBulk /\ n \in Nat /\ m_count \in Int /\ 0 \in 0..MaxBulk
      /\ release \in [Signallers -> 0..MaxBulk] /\ unsignalled \in [Signallers -> 0..MaxBulk]
  BY Known DEF Types
<1>2. woken \in 0..n /\ woken \in 0..MaxBulk /\ (m_count >= 0 => woken = 0)
      /\ (m_count < 0 /\ m_count + n >= 0 => woken = -m_count)
      /\ (m_count + n < 0 => woken = n)
  BY <1>1, Known DEF Least
<1>3. /\ release' = [release EXCEPT ![s] = woken] /\ unsignalled' = [unsignalled EXCEPT ![s] = 0]
      /\ m_count' = m_count + n /\ release[s] = 0
  OBVIOUS
<1> HIDE DEF woken
<1>4. /\ release' \in [Signallers -> 0..MaxBulk]
      /\ Sum(release') = Sum(release) - release[s] + woken
  BY <1>1, <1>2, <1>3, ReleaseChange, Zenon
<1>5. /\ unsignalled' \in [Signallers -> 0..MaxBulk]
      /\ Sum(unsignalled') = Sum(unsignalled) - n + 0
  BY <1>1, <1>3, UnsignalledChange
<1> HIDE DEF n
<1>6. Cardinality(Committed)' = Cardinality(Committed)
  BY CommittedSame
<1>7. Types'
  BY <1>1, <1>3, <1>4, <1>5, Known DEF Types
<1>8. Calls'
  BY Known DEF Calls
<1>9. WaitersAccounted' /\ PermitsAccounted'
  BY <1>1, <1>2, <1>3, <1>4, <1>5, <1>6, Known
     DEF Inv, Types, WaitersAccounted, PermitsAccounted, size_approx, availableApprox
<1> QED
  BY <1>7, <1>8, <1>9 DEF Inv

LEMMA ReleaseStep ==
    ASSUME Inv, NEW s \in Signallers, SemaphoreStep(ReleaseSema(s))
    PROVE  Inv'
<1> USE DEF SemaphoreStep, ReleaseSema, callVars
<1>1. release \in [Signallers -> 0..MaxBulk] /\ 0 \in 0..MaxBulk /\ release[s] \in Nat
  BY Known DEF Types
<1>2. /\ release' \in [Signallers -> 0..MaxBulk]
      /\ Sum(release') = Sum(release) - release[s] + 0
  BY <1>1, ReleaseChange, Zenon
<1>3. Cardinality(Committed)' = Cardinality(Committed)
  BY CommittedSame
<1>4. Types'
  BY <1>1, <1>2, Known DEF Types
<1>5. Calls'
  BY Known DEF Calls
<1>6. WaitersAccounted' /\ PermitsAccounted'
  BY <1>1, <1>2, <1>3, Known
     DEF Inv, Types, WaitersAccounted, PermitsAccounted, size_approx, availableApprox
<1> QED
  BY <1>4, <1>5, <1>6 DEF Inv

--------------------------------------------------------------------------------
LEMMA WaiterStep ==
    ASSUME Inv, NEW w \in Waiters,
           \/ SemaphoreStep(Call(w)) \/ SemaphoreStep(TimeOut(w)) \/ ConsumerStep(w)
    PROVE  Inv'
<1>1. CASE SemaphoreStep(TimeOut(w))
  BY <1>1, StillWaitsStep DEF SemaphoreStep, TimeOut, callVars
<1>2. CASE SemaphoreStep(WasSignalled(w))
  BY <1>2, StillWaitsStep DEF SemaphoreStep, WasSignalled, callVars
<1>3. CASE SemaphoreStep(NotYet(w))
  BY <1>3, StillWaitsStep DEF SemaphoreStep, NotYet, callVars
<1>4. CASE SemaphoreStep(Wake(w)) \/ SemaphoreStep(LateWake(w))
  BY <1>4, TakeSemaStep DEF SemaphoreStep, Wake, LateWake
<1>5. CASE \/ SemaphoreStep(TryTakes(w)) \/ SemaphoreStep(TryFails(w))
           \/ SemaphoreStep(Decrement(w)) \/ SemaphoreStep(Withdraw(w))
           \/ SemaphoreStep(TopUp(w))
  BY <1>5, TryTakesStep, TryFailsStep, DecrementStep, WithdrawStep, TopUpStep
<1>6. CASE SemaphoreStep(Call(w)) \/ Dequeue(w)
  BY <1>6, CallStep, DequeueStep
<1> QED
  BY <1>1, <1>2, <1>3, <1>4, <1>5, <1>6 DEF ConsumerStep, WaitStep, SemaphoreStep

LEMMA StepInv == Inv /\ [Next]_vars => Inv'
<1> SUFFICES ASSUME Inv, [Next]_vars PROVE Inv'
  OBVIOUS
<1>1. CASE UNCHANGED vars
  <2>1. Cardinality(Committed)' = Cardinality(Committed)
    BY <1>1, CommittedSame DEF vars, semaphoreVars
  <2> QED
    BY <1>1, <2>1 DEF Inv, vars, semaphoreVars, Types, Calls, WaitersAccounted,
                      PermitsAccounted, size_approx, availableApprox
<1>2. CASE Next
  BY <1>2, WaiterStep, EnqueueStep, SignalStep, ReleaseStep DEF Next, ProducerStep
<1> QED
  BY <1>1, <1>2

\* The accounts of the semaphore and of the queue balance at every step, whoever
\* enqueues, waits, times out and wakes: no wake-up is lost or left over, every item
\* has one permit, and size_approx never exceeds what the queue holds.
THEOREM BooksBalance == Spec => []BlockingInv
<1>1. Init => Inv
  BY InitInv
<1>2. Inv /\ [Next]_vars => Inv'
  BY StepInv
<1>3. Inv => BlockingInv
  BY InvBooks
<1> QED
  BY <1>1, <1>2, <1>3, PTL DEF Spec
================================================================================
