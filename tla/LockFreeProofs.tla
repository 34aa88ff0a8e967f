----------------------------- MODULE LockFreeProofs ----------------------------
(***************************************************************************)
(* The two lock-free protocols of the queue that stand by themselves: the  *)
(* claims that consumers make on a sub-queue's items (DequeueClaims) and   *)
(* the free list of blocks (BlockPool).  They share no state.              *)
(*                                                                         *)
(* Claims, for any number of consumers, items and tickets: none goes past  *)
(* tailIndex, no item is hidden by wasted tickets, and the protocol        *)
(* implements ItemClaims.  The argument: a consumer reads                  *)
(* dequeueOvercommit before it takes its tickets, so every wasted ticket   *)
(* it counts on lies below its own.  The highest granted ticket g is       *)
(* therefore less than tailIndex plus the wasted tickets below g; the      *)
(* granted tickets are among 0..g and are not wasted, so there are at most *)
(* tailIndex of them.                                                      *)
(*                                                                         *)
(* Free list, for every set of threads, any number of blocks, and with or  *)
(* without the recycling of the blocks that were allocated later: no block *)
(* is handed out while somebody has it, and none is lost.                  *)
(***************************************************************************)
EXTENDS DequeueClaims, BlockPool, FiniteSetTheorems, SequenceTheorems, TLAPS

(***************************************************************************)
(* DequeueClaims.                                                          *)
(***************************************************************************)
RefusedBelow(t) == {r \in refused : r < t}
InFlight(c) == at[c] \in {"took", "waste", "claim"}

Typed ==
    /\ tailIndex \in Nat /\ headIndex \in Nat
    /\ dequeueOptimisticCount \in Nat /\ dequeueOvercommit \in Nat
    /\ at \in [Consumers -> {"idle", "looked", "took", "waste", "claim"}]
    /\ overcommit \in [Consumers -> Nat]
    /\ desired \in [Consumers -> Nat]
    /\ ticket \in [Consumers -> Nat]
    /\ actual \in [Consumers -> Nat]
    /\ granted \subseteq 0..(dequeueOptimisticCount - 1)
    /\ refused \subseteq 0..(dequeueOptimisticCount - 1)
    /\ claimed \subseteq granted
    /\ counted \subseteq refused

Tallies ==
    /\ headIndex = Cardinality(claimed)
    /\ dequeueOvercommit = Cardinality(counted)
    /\ granted \intersect refused = {}

Lookers == \A c \in Consumers : at[c] = "looked" => overcommit[c] <= Cardinality(refused)

Takers == \A c \in Consumers : at[c] = "took" =>
    /\ Tickets(c) \intersect (granted \union refused) = {}
    /\ overcommit[c] <= Cardinality(RefusedBelow(ticket[c]))

Finders == \A c \in Consumers : at[c] \in {"waste", "claim"} =>
    /\ actual[c] <= desired[c]
    /\ Good(c) \subseteq granted /\ Good(c) \intersect claimed = {}
    /\ at[c] = "waste" => Wasted(c) \subseteq refused /\ Wasted(c) \intersect counted = {}

Apart ==
    /\ \A c \in Consumers : InFlight(c) => ticket[c] + desired[c] <= dequeueOptimisticCount
    /\ \A c, d \in Consumers : c # d /\ InFlight(c) /\ InFlight(d)
          => Tickets(c) \intersect Tickets(d) = {}

Backed == \A g \in granted : g < tailIndex + Cardinality(RefusedBelow(g))

Topped == granted # {} => \E g \in granted : \A k \in granted : k <= g

Covered ==
    /\ \A t \in 0..(dequeueOptimisticCount - 1) :
          \/ t \in granted \union refused
          \/ \E c \in Consumers : at[c] = "took" /\ t \in Tickets(c)
    /\ \A t \in granted \ claimed :
          \E c \in Consumers : at[c] \in {"waste", "claim"} /\ t \in Good(c)
    /\ \A t \in refused \ counted : \E c \in Consumers : at[c] = "waste" /\ t \in Wasted(c)

TicketInv == Typed /\ Tallies /\ Lookers /\ Takers /\ Finders /\ Apart /\ Backed /\ Topped /\ Covered

--------------------------------------------------------------------------------
(* Finite sets of tickets.                                                     *)

\* A part of a finite set is finite and no larger.
LEMMA PartOf ==
    ASSUME NEW T, IsFiniteSet(T), NEW S \in SUBSET T
    PROVE  /\ IsFiniteSet(S) /\ Cardinality(S) \in Nat /\ Cardinality(T) \in Nat
           /\ Cardinality(S) <= Cardinality(T)
  BY FS_Subset, FS_CardinalityType

\* The sizes of disjoint sets add up.
LEMMA DisjointSum ==
    ASSUME NEW S, NEW T, IsFiniteSet(S), IsFiniteSet(T), S \intersect T = {}
    PROVE  /\ IsFiniteSet(S \union T)
           /\ Cardinality(S \union T) = Cardinality(S) + Cardinality(T)
  <1>1. Cardinality(S) \in Nat /\ Cardinality(T) \in Nat
    BY FS_CardinalityType
  <1>2. Cardinality(S \intersect T) = 0
    BY FS_EmptySet
  <1>3. /\ IsFiniteSet(S \union T)
        /\ Cardinality(S \union T)
              = Cardinality(S) + Cardinality(T) - Cardinality(S \intersect T)
    BY FS_Union, Zenon
  <1> QED BY <1>1, <1>2, <1>3

\* The tickets taken so far are finitely many, and so is every set of them.
LEMMA FiniteTickets ==
    ASSUME Typed
    PROVE  /\ IsFiniteSet(granted) /\ IsFiniteSet(refused)
           /\ IsFiniteSet(claimed) /\ IsFiniteSet(counted)
           /\ \A t : IsFiniteSet(RefusedBelow(t)) /\ Cardinality(RefusedBelow(t)) \in Nat
           /\ Cardinality(granted) \in Nat /\ Cardinality(refused) \in Nat
           /\ Cardinality(claimed) \in Nat /\ Cardinality(counted) \in Nat
  <1>1. IsFiniteSet(0..(dequeueOptimisticCount - 1))
    BY FS_Interval DEF Typed
  <1>2. IsFiniteSet(granted) /\ IsFiniteSet(refused)
    BY <1>1, FS_Subset DEF Typed
  <1>3. IsFiniteSet(claimed) /\ IsFiniteSet(counted)
    BY <1>2, FS_Subset DEF Typed
  <1>4. ASSUME NEW t PROVE IsFiniteSet(RefusedBelow(t))
    BY <1>2, FS_Subset DEF RefusedBelow
  <1> QED BY <1>2, <1>3, <1>4, FS_CardinalityType

\* There are never more granted tickets than published items.
LEMMA GrantedBound ==
    ASSUME Typed, Tallies, Backed, Topped
    PROVE  Cardinality(granted) <= tailIndex
  <1>1. CASE granted = {}
    BY <1>1, FS_EmptySet DEF Typed
  <1>2. CASE granted # {}
    <2>1. PICK g \in granted : \A k \in granted : k <= g
      BY <1>2 DEF Topped
    <2>2. g \in Nat /\ granted \subseteq 0..g /\ RefusedBelow(g) \subseteq 0..g
      <3>1. granted \subseteq Nat /\ refused \subseteq Nat
        BY DEF Typed
      <3>2. g \in Nat
        BY <3>1
      <3>3. \A r \in RefusedBelow(g) : r \in Nat /\ r < g
        BY <3>1 DEF RefusedBelow
      <3>4. \A k \in granted : k \in Nat /\ k <= g
        BY <2>1, <3>1
      <3> QED BY <3>2, <3>3, <3>4
    <2>3. granted \intersect RefusedBelow(g) = {}
      BY DEF Tallies, RefusedBelow
    <2>4. IsFiniteSet(0..g) /\ Cardinality(0..g) = g + 1
      BY <2>2, FS_Interval
    <2>5. Cardinality(granted \union RefusedBelow(g)) <= g + 1
      <3>1. granted \union RefusedBelow(g) \in SUBSET (0..g)
        BY <2>2
      <3> QED BY <3>1, <2>4, PartOf
    <2>6. Cardinality(granted \union RefusedBelow(g))
            = Cardinality(granted) + Cardinality(RefusedBelow(g))
      BY <2>3, FiniteTickets, DisjointSum
    <2>7. g < tailIndex + Cardinality(RefusedBelow(g))
      BY <2>1 DEF Backed
    <2>8. Cardinality(granted) \in Nat /\ Cardinality(RefusedBelow(g)) \in Nat
      BY FiniteTickets
    <2> QED BY <2>2, <2>5, <2>6, <2>7, <2>8 DEF Typed
  <1> QED BY <1>1, <1>2

--------------------------------------------------------------------------------
(* The invariant is inductive: one lemma per action.                           *)

LEMMA TicketInit == ClaimsInit => TicketInv
  <1> SUFFICES ASSUME ClaimsInit PROVE TicketInv
    OBVIOUS
  <1> QED
    BY FS_EmptySet DEF ClaimsInit, TicketInv, Typed, Tallies, Lookers, Takers, Finders, Apart, Backed,
       Topped, Covered, InFlight

LEMMA PublishInv ==
    ASSUME TicketInv, NEW n \in 1..MaxBulk, Publish(n)
    PROVE  TicketInv'
  <1>1. n \in Nat
    BY ClaimAssumption
  <1>2. UNCHANGED <<headIndex, dequeueOptimisticCount, dequeueOvercommit, at, overcommit,
                    desired, ticket, actual, granted, refused, claimed, counted>>
        /\ tailIndex' = tailIndex + n
    BY DEF Publish, localVars, ticketVars
  <1>3. Typed'
    BY <1>1, <1>2 DEF TicketInv, Typed
  <1>4. Backed'
    <2>1. \A t : RefusedBelow(t)' = RefusedBelow(t)
      BY <1>2 DEF RefusedBelow
    <2>2. ASSUME NEW g \in granted PROVE g < tailIndex' + Cardinality(RefusedBelow(g))
      <3>1. g \in Nat /\ Cardinality(RefusedBelow(g)) \in Nat
        BY FiniteTickets DEF TicketInv, Typed
      <3> QED BY <3>1, <1>1, <1>2 DEF TicketInv, Typed, Backed
    <2> QED BY <2>1, <2>2, <1>2 DEF Backed
  <1>5. Tallies' /\ Lookers' /\ Apart' /\ Topped' /\ Covered' /\ Finders' /\ Takers'
    BY <1>2 DEF TicketInv, Tallies, Lookers, Takers, Finders, Apart, Topped, Covered, InFlight,
       Tickets, Good, Wasted, RefusedBelow
  <1> QED BY <1>3, <1>4, <1>5 DEF TicketInv

LEMMA LookInv ==
    ASSUME TicketInv, NEW c \in Consumers, Look(c)
    PROVE  TicketInv'
  <1>1. PICK d \in 1..MaxBulk : desired' = [desired EXCEPT ![c] = d]
    BY DEF Look
  <1>2. /\ at[c] = "idle" /\ at' = [at EXCEPT ![c] = "looked"]
        /\ overcommit' = [overcommit EXCEPT ![c] = dequeueOvercommit]
        /\ UNCHANGED <<tailIndex, headIndex, dequeueOptimisticCount, dequeueOvercommit,
                       ticket, actual, granted, refused, claimed, counted>>
    BY DEF Look, Advance, counterVars, ticketVars
  <1>3. Typed'
    BY <1>1, <1>2, ClaimAssumption DEF TicketInv, Typed
  <1>4. dequeueOvercommit <= Cardinality(refused)
    BY FiniteTickets, PartOf DEF TicketInv, Typed, Tallies
  <1>5. Lookers'
    BY <1>2, <1>4 DEF TicketInv, Typed, Lookers
  <1>6. \A e \in Consumers : at'[e] \in {"took", "waste", "claim"}
          => e # c /\ at'[e] = at[e] /\ desired'[e] = desired[e] /\ overcommit'[e] = overcommit[e]
    BY <1>1, <1>2 DEF TicketInv, Typed
  <1>7. \A e \in Consumers : at[e] \in {"took", "waste", "claim"} => at'[e] = at[e] /\ e # c
    BY <1>2 DEF TicketInv, Typed
  <1>8. Takers' /\ Finders'
    BY <1>2, <1>6 DEF TicketInv, Takers, Finders, Tickets, Good, Wasted, RefusedBelow
  <1>9. Apart'
    BY <1>2, <1>6 DEF TicketInv, Apart, InFlight, Tickets
  <1>10. Covered'
    BY <1>2, <1>6, <1>7 DEF TicketInv, Covered, Tickets, Good, Wasted
  <1>11. Tallies' /\ Backed' /\ Topped'
    BY <1>2 DEF TicketInv, Tallies, Backed, Topped, RefusedBelow
  <1> QED BY <1>3, <1>5, <1>8, <1>9, <1>10, <1>11 DEF TicketInv

LEMMA TakeTicketsInv ==
    ASSUME TicketInv, NEW c \in Consumers, TakeTickets(c)
    PROVE  TicketInv'
  <1> DEFINE opt == dequeueOptimisticCount
  <1>1. /\ at[c] = "looked" /\ at' = [at EXCEPT ![c] = "took"]
        /\ ticket' = [ticket EXCEPT ![c] = opt]
        /\ dequeueOptimisticCount' = opt + desired[c]
        /\ UNCHANGED <<tailIndex, headIndex, dequeueOvercommit, overcommit, desired, actual,
                       granted, refused, claimed, counted>>
    BY DEF TakeTickets, Advance, ticketVars
  <1>2. Typed
    BY DEF TicketInv
  <1>3. opt \in Nat /\ desired[c] \in Nat
    BY <1>2 DEF Typed
  <1>4. Typed'
    BY <1>1, <1>2, <1>3 DEF Typed
  <1>5. \A e \in Consumers : e # c => at'[e] = at[e] /\ ticket'[e] = ticket[e]
    BY <1>1, <1>2 DEF Typed
  <1>6. at'[c] = "took" /\ ticket'[c] = opt /\ at[c] = "looked"
    BY <1>1, <1>2 DEF Typed
  <1>7. Tickets(c)' = opt..(opt + desired[c] - 1)
    BY <1>1, <1>6 DEF Tickets
  <1>8. \A e \in Consumers : e # c => /\ Tickets(e)' = Tickets(e)
                                      /\ Good(e)' = Good(e) /\ Wasted(e)' = Wasted(e)
    BY <1>1, <1>5 DEF Tickets, Good, Wasted
  <1>9. Takers'
    <2>1. RefusedBelow(opt) = refused
      <3>1. \A r \in refused : r < opt
        BY <1>2, <1>3 DEF Typed
      <3> QED BY <3>1 DEF RefusedBelow
    <2>2. overcommit[c] <= Cardinality(refused)
      BY <1>6 DEF TicketInv, Lookers
    <2>3. opt..(opt + desired[c] - 1) \intersect (granted \union refused) = {}
      BY <1>2, <1>3 DEF Typed
    <2>4. \A t : RefusedBelow(t)' = RefusedBelow(t)
      BY <1>1 DEF RefusedBelow
    <2>5. /\ Tickets(c)' \intersect (granted' \union refused') = {}
          /\ overcommit'[c] <= Cardinality(RefusedBelow(ticket'[c]))
      BY <1>1, <1>6, <1>7, <2>1, <2>2, <2>3
    <2>6. ASSUME NEW e \in Consumers, e # c, at'[e] = "took"
          PROVE  /\ Tickets(e)' \intersect (granted' \union refused') = {}
                 /\ overcommit'[e] <= Cardinality(RefusedBelow(ticket'[e]))
      BY <1>1, <1>5, <1>8, <2>6 DEF TicketInv, Takers
    <2>7. \A t : RefusedBelow(t)' = {r \in refused' : r < t}
      BY DEF RefusedBelow
    <2>8. \A e \in Consumers : at'[e] = "took" =>
                 /\ Tickets(e)' \intersect (granted' \union refused') = {}
                 /\ overcommit'[e] <= Cardinality(RefusedBelow(ticket'[e]))
      BY <2>5, <2>6
    <2>9. \A e \in Consumers : RefusedBelow(ticket[e])' = RefusedBelow(ticket'[e])
      BY <1>1 DEF RefusedBelow
    <2> QED BY <2>8, <2>9 DEF Takers
  <1>10. Apart'
    <2>1. ASSUME NEW e \in Consumers, InFlight(e)'
          PROVE  ticket'[e] + desired'[e] <= dequeueOptimisticCount'
      <3>1. CASE e = c
        BY <3>1, <1>1, <1>3, <1>6
      <3>2. CASE e # c
        <4>1. ticket[e] + desired[e] <= opt
          BY <3>2, <2>1, <1>5 DEF TicketInv, Apart, InFlight
        <4> QED BY <4>1, <3>2, <1>1, <1>2, <1>3, <1>5 DEF Typed
      <3> QED BY <3>1, <3>2
    <2>2. ASSUME NEW e \in Consumers, e # c, InFlight(e)'
          PROVE  Tickets(c)' \intersect Tickets(e)' = {}
      <3>1. ticket[e] + desired[e] <= opt
        BY <2>2, <1>5 DEF TicketInv, Apart, InFlight
      <3>2. Tickets(e) \subseteq 0..(opt - 1)
        BY <3>1, <1>2, <1>3 DEF Typed, Tickets
      <3> QED BY <3>2, <2>2, <1>3, <1>7, <1>8
    <2>3. ASSUME NEW e \in Consumers, NEW d \in Consumers, e # d, InFlight(e)', InFlight(d)'
          PROVE  Tickets(e)' \intersect Tickets(d)' = {}
      <3>1. CASE e = c \/ d = c
        BY <3>1, <2>2, <2>3
      <3>2. CASE e # c /\ d # c
        BY <3>2, <2>3, <1>5, <1>8 DEF TicketInv, Apart, InFlight
      <3> QED BY <3>1, <3>2
    <2> QED BY <2>1, <2>3 DEF Apart
  <1>11. Finders' /\ Lookers'
    BY <1>1, <1>5, <1>6, <1>8 DEF TicketInv, Finders, Lookers
  <1>12. Covered'
    <2>1. ASSUME NEW t \in 0..(opt + desired[c] - 1)
          PROVE  \/ t \in granted' \union refused'
                 \/ \E e \in Consumers : at'[e] = "took" /\ t \in Tickets(e)'
      <3>1. CASE t >= opt
        BY <3>1, <1>3, <1>6, <1>7
      <3>2. CASE t < opt
        <4>1. t \in 0..(opt - 1)
          BY <3>2, <1>3
        <4> QED BY <4>1, <1>1, <1>5, <1>6, <1>8 DEF TicketInv, Covered
      <3> QED BY <3>1, <3>2, <1>3
    <2>2. \A t \in granted' \ claimed' :
             \E e \in Consumers : at'[e] \in {"waste", "claim"} /\ t \in Good(e)'
      BY <1>1, <1>5, <1>6, <1>8 DEF TicketInv, Covered
    <2>3. \A t \in refused' \ counted' : \E e \in Consumers : at'[e] = "waste" /\ t \in Wasted(e)'
      BY <1>1, <1>5, <1>6, <1>8 DEF TicketInv, Covered
    <2>4. \A t \in 0..(dequeueOptimisticCount' - 1) :
             \/ t \in granted' \union refused'
             \/ \E e \in Consumers : at'[e] = "took" /\ t \in Tickets(e)'
      <3>1. dequeueOptimisticCount' = opt + desired[c]
        BY <1>1
      <3>2. ASSUME NEW t \in 0..(dequeueOptimisticCount' - 1)
            PROVE  t \in 0..(opt + desired[c] - 1)
        BY <3>1, <3>2, <1>3
      <3> QED BY <3>2, <2>1, Zenon
    <2> QED BY <2>2, <2>3, <2>4 DEF Covered
  <1>13. Tallies' /\ Backed' /\ Topped'
    BY <1>1 DEF TicketInv, Tallies, Backed, Topped, RefusedBelow
  <1> QED BY <1>4, <1>9, <1>10, <1>11, <1>12, <1>13 DEF TicketInv

LEMMA CompareInv ==
    ASSUME TicketInv, NEW c \in Consumers, Compare(c)
    PROVE  TicketInv'
  <1> DEFINE found == tailIndex - (ticket[c] - overcommit[c])
             a == IF found <= 0 THEN 0 ELSE IF found < desired[c] THEN found ELSE desired[c]
             good == ticket[c]..(ticket[c] + a - 1)
             bad == (ticket[c] + a)..(ticket[c] + desired[c] - 1)
  <1>1. /\ at[c] = "took"
        /\ at' = [at EXCEPT ![c] = IF a < desired[c] THEN "waste" ELSE "claim"]
        /\ actual' = [actual EXCEPT ![c] = a]
        /\ granted' = granted \union good
        /\ refused' = refused \union bad
        /\ UNCHANGED <<tailIndex, headIndex, dequeueOptimisticCount, dequeueOvercommit,
                       overcommit, desired, ticket, claimed, counted>>
    BY DEF Compare, Advance, counterVars
  <1>2. Typed
    BY DEF TicketInv
  <1>3. /\ ticket[c] \in Nat /\ desired[c] \in Nat /\ overcommit[c] \in Nat
        /\ tailIndex \in Nat /\ dequeueOptimisticCount \in Nat
    BY <1>2 DEF Typed
  <1>4. a \in Nat /\ a <= desired[c] /\ (a > 0 => a <= tailIndex - (ticket[c] - overcommit[c]))
    BY <1>3
  <1> HIDE DEF a, found
  <1>5. ticket[c] + desired[c] <= dequeueOptimisticCount
    BY <1>1 DEF TicketInv, Apart, InFlight
  <1>6. /\ good \subseteq 0..(dequeueOptimisticCount - 1)
        /\ bad \subseteq 0..(dequeueOptimisticCount - 1)
        /\ good \intersect bad = {} /\ Tickets(c) = good \union bad
    BY <1>3, <1>4, <1>5 DEF Tickets
  <1>7. Typed'
    <2>1. at' \in [Consumers -> {"idle", "looked", "took", "waste", "claim"}]
      BY <1>1, <1>2 DEF Typed
    <2>2. actual' \in [Consumers -> Nat]
      BY <1>1, <1>2, <1>4 DEF Typed
    <2> QED BY <1>1, <1>2, <1>6, <2>1, <2>2 DEF Typed
  <1>8. Tickets(c) \intersect (granted \union refused) = {}
    BY <1>1 DEF TicketInv, Takers
  <1>9. Tallies'
    BY <1>1, <1>6, <1>8 DEF TicketInv, Tallies
  <1>10. \A e \in Consumers : e # c => at'[e] = at[e] /\ actual'[e] = actual[e]
    BY <1>1, <1>2 DEF Typed
  <1>11. /\ at'[c] = IF a < desired[c] THEN "waste" ELSE "claim"
         /\ actual'[c] = a
    BY <1>1, <1>2 DEF Typed
  <1>12. \A e \in Consumers : Tickets(e)' = Tickets(e)
    BY <1>1 DEF Tickets
  <1>13. \A e \in Consumers : e # c => Good(e)' = Good(e) /\ Wasted(e)' = Wasted(e)
    BY <1>1, <1>10 DEF Good, Wasted
  <1>14. Good(c)' = good /\ Wasted(c)' = bad
    BY <1>1, <1>11 DEF Good, Wasted
  <1>14a. IsFiniteSet(refused')
    <2>1. IsFiniteSet(0..(dequeueOptimisticCount - 1))
      BY <1>3, FS_Interval
    <2>2. refused' \in SUBSET (0..(dequeueOptimisticCount - 1))
      BY <1>1, <1>2, <1>6 DEF Typed
    <2> QED BY <2>1, <2>2, PartOf
  <1>15. \A t : /\ RefusedBelow(t) \in SUBSET {r \in refused' : r < t}
                /\ IsFiniteSet({r \in refused' : r < t})
                /\ Cardinality({r \in refused' : r < t}) \in Nat
                /\ Cardinality(RefusedBelow(t)) \in Nat
                /\ Cardinality(RefusedBelow(t)) <= Cardinality({r \in refused' : r < t})
    <2>2. ASSUME NEW t
          PROVE  /\ RefusedBelow(t) \in SUBSET {r \in refused' : r < t}
                 /\ IsFiniteSet({r \in refused' : r < t})
      <3>1. {r \in refused' : r < t} \in SUBSET refused'
        OBVIOUS
      <3>2. RefusedBelow(t) \in SUBSET {r \in refused' : r < t}
        BY <1>1 DEF RefusedBelow
      <3> QED BY <1>14a, <3>1, <3>2, PartOf
    <2> QED BY <2>2, PartOf
  <1>16. Lookers'
    <2>1. ASSUME NEW e \in Consumers, at'[e] = "looked"
          PROVE  overcommit'[e] <= Cardinality(refused')
      <3>1. at[e] = "looked"
        BY <2>1, <1>10, <1>11
      <3>2. overcommit[e] <= Cardinality(refused) /\ overcommit[e] \in Nat
        BY <3>1, <1>2 DEF TicketInv, Lookers, Typed
      <3>3. IsFiniteSet(refused') /\ refused \in SUBSET refused'
        BY <1>1, <1>14a
      <3>4. /\ Cardinality(refused) <= Cardinality(refused')
            /\ Cardinality(refused) \in Nat /\ Cardinality(refused') \in Nat
        BY <3>3, PartOf
      <3> QED BY <3>2, <3>4, <1>1
    <2> QED BY <2>1 DEF Lookers
  <1>17. Takers'
    <2>1. ASSUME NEW e \in Consumers, at'[e] = "took"
          PROVE  /\ Tickets(e)' \intersect (granted \union refused)' = {}
                 /\ overcommit'[e] <= Cardinality(RefusedBelow(ticket[e])')
      <3>1. e # c /\ at[e] = "took"
        BY <2>1, <1>10, <1>11
      <3>2. Tickets(e) \intersect Tickets(c) = {}
        BY <3>1, <1>1 DEF TicketInv, Apart, InFlight
      <3>3. /\ Tickets(e) \intersect (granted \union refused) = {}
            /\ overcommit[e] <= Cardinality(RefusedBelow(ticket[e]))
        BY <3>1 DEF TicketInv, Takers
      <3>4. RefusedBelow(ticket[e])' = {r \in refused' : r < ticket[e]}
        BY <1>1 DEF RefusedBelow
      <3>5. overcommit[e] \in Nat
        BY <1>2 DEF Typed
      <3>6. overcommit[e] <= Cardinality({r \in refused' : r < ticket[e]})
        BY <3>3, <3>5, <1>15
      <3>7. Tickets(e)' \intersect (granted \union refused)' = {}
        BY <3>2, <3>3, <1>1, <1>6, <1>12
      <3> QED BY <3>4, <3>6, <3>7, <1>1
    <2> QED BY <2>1 DEF Takers
  <1>18. Finders'
    <2>1. ASSUME NEW e \in Consumers, at'[e] \in {"waste", "claim"}
          PROVE  /\ actual'[e] <= desired'[e]
                 /\ Good(e)' \subseteq granted' /\ Good(e)' \intersect claimed' = {}
                 /\ at'[e] = "waste"
                      => Wasted(e)' \subseteq refused' /\ Wasted(e)' \intersect counted' = {}
      <3>1. CASE e = c
        <4>1. good \intersect claimed = {} /\ bad \intersect counted = {}
          BY <1>6, <1>8, <1>2 DEF Typed
        <4> QED BY <3>1, <4>1, <1>1, <1>4, <1>11, <1>14
      <3>2. CASE e # c
        BY <3>2, <2>1, <1>1, <1>10, <1>13 DEF TicketInv, Finders
      <3> QED BY <3>1, <3>2
    <2> QED BY <2>1 DEF Finders
  <1>19. Apart'
    <2>1. \A e \in Consumers : InFlight(e)' => InFlight(e)
      BY <1>1, <1>10 DEF InFlight
    <2> QED BY <2>1, <1>1, <1>12 DEF TicketInv, Apart
  <1>20. Backed'
    <2>1. ASSUME NEW g \in granted' PROVE g < tailIndex + Cardinality({r \in refused' : r < g})
      <3>1. CASE g \in granted
        <4>1. g < tailIndex + Cardinality(RefusedBelow(g)) /\ g \in Nat
          BY <3>1, <1>2 DEF TicketInv, Backed, Typed
        <4> QED BY <4>1, <1>3, <1>15
      <3>2. CASE g \in good
        <4>1. g \in Nat /\ ticket[c] <= g /\ g <= ticket[c] + a - 1 /\ a > 0
          BY <3>2, <1>3, <1>4
        <4>2. overcommit[c] <= Cardinality(RefusedBelow(ticket[c]))
          BY <1>1 DEF TicketInv, Takers
        <4>3. RefusedBelow(ticket[c]) \in SUBSET {r \in refused' : r < g}
          <5>1. \A r \in refused : r \in Nat
            BY <1>2 DEF Typed
          <5> QED BY <5>1, <4>1, <1>1, <1>3 DEF RefusedBelow
        <4>4. /\ Cardinality(RefusedBelow(ticket[c])) <= Cardinality({r \in refused' : r < g})
              /\ Cardinality(RefusedBelow(ticket[c])) \in Nat
              /\ Cardinality({r \in refused' : r < g}) \in Nat
          BY <4>3, <1>15, PartOf
        <4> QED BY <4>1, <4>2, <4>4, <1>3, <1>4
      <3> QED BY <3>1, <3>2, <1>1
    <2>2. \A g : RefusedBelow(g)' = {r \in refused' : r < g}
      BY DEF RefusedBelow
    <2> QED BY <2>1, <2>2, <1>1 DEF Backed
  <1>21. Topped'
    <2>1. CASE a = 0
      <3>1. granted' = granted
        BY <2>1, <1>1, <1>3
      <3> QED BY <3>1 DEF TicketInv, Topped
    <2>2. CASE a > 0
      <3> DEFINE last == ticket[c] + a - 1
      <3>1. last \in good /\ last \in Nat /\ \A k \in good : k <= last
        BY <2>2, <1>3, <1>4
      <3>2. \A k \in granted : k \in Nat
        BY <1>2 DEF Typed
      <3>3. CASE \A k \in granted : k <= last
        BY <3>1, <3>3, <1>1 DEF Topped
      <3>4. CASE ~ \A k \in granted : k <= last
        <4>1. PICK g \in granted : \A k \in granted : k <= g
          BY <3>4 DEF TicketInv, Topped
        <4>2. last <= g
          BY <3>1, <3>2, <3>4, <4>1
        <4>3. \A k \in good : k <= g
          BY <3>1, <3>2, <4>1, <4>2, <1>3, <1>4
        <4> QED BY <4>1, <4>3, <1>1 DEF Topped
      <3> QED BY <3>3, <3>4
    <2> QED BY <2>1, <2>2, <1>4
  <1>22. Covered'
    <2>1. ASSUME NEW t \in 0..(dequeueOptimisticCount - 1)
          PROVE  \/ t \in granted' \union refused'
                 \/ \E e \in Consumers : at'[e] = "took" /\ t \in Tickets(e)'
      BY <1>1, <1>6, <1>10, <1>12 DEF TicketInv, Covered
    <2>2. ASSUME NEW t \in granted' \ claimed'
          PROVE  \E e \in Consumers : at'[e] \in {"waste", "claim"} /\ t \in Good(e)'
      <3>1. CASE t \in granted
        <4>1. PICK e \in Consumers : at[e] \in {"waste", "claim"} /\ t \in Good(e)
          BY <3>1, <2>2, <1>1 DEF TicketInv, Covered
        <4> QED BY <4>1, <1>1, <1>10, <1>13
      <3>2. CASE t \in good
        BY <3>2, <1>11, <1>14
      <3> QED BY <3>1, <3>2, <2>2, <1>1
    <2>3. ASSUME NEW t \in refused' \ counted'
          PROVE  \E e \in Consumers : at'[e] = "waste" /\ t \in Wasted(e)'
      <3>1. CASE t \in refused
        <4>1. PICK e \in Consumers : at[e] = "waste" /\ t \in Wasted(e)
          BY <3>1, <2>3, <1>1 DEF TicketInv, Covered
        <4> QED BY <4>1, <1>1, <1>10, <1>13
      <3>2. CASE t \in bad
        <4>1. a < desired[c]
          BY <3>2, <1>3, <1>4
        <4> QED BY <3>2, <4>1, <1>11, <1>14
      <3> QED BY <3>1, <3>2, <2>3, <1>1
    <2> QED BY <2>1, <2>2, <2>3, <1>1 DEF Covered
  <1> QED BY <1>7, <1>9, <1>16, <1>17, <1>18, <1>19, <1>20, <1>21, <1>22 DEF TicketInv

LEMMA WasteInv ==
    ASSUME TicketInv, NEW c \in Consumers, Waste(c)
    PROVE  TicketInv'
  <1>1. /\ at[c] = "waste"
        /\ at' = [at EXCEPT ![c] = IF actual[c] = 0 THEN "idle" ELSE "claim"]
        /\ dequeueOvercommit' = dequeueOvercommit + (desired[c] - actual[c])
        /\ counted' = counted \union Wasted(c)
        /\ UNCHANGED <<tailIndex, headIndex, dequeueOptimisticCount, overcommit, desired,
                       ticket, actual, granted, refused, claimed>>
    BY DEF Waste, Advance
  <1>2. Typed
    BY DEF TicketInv
  <1>3. /\ ticket[c] \in Nat /\ desired[c] \in Nat /\ actual[c] \in Nat
        /\ dequeueOvercommit \in Nat /\ actual[c] <= desired[c]
        /\ Wasted(c) \subseteq refused /\ Wasted(c) \intersect counted = {}
    BY <1>1, <1>2 DEF TicketInv, Typed, Finders
  <1>4. Typed'
    <2>1. at' \in [Consumers -> {"idle", "looked", "took", "waste", "claim"}]
      BY <1>1, <1>2 DEF Typed
    <2>2. dequeueOvercommit' \in Nat
      BY <1>1, <1>3
    <2> QED BY <1>1, <1>2, <1>3, <2>1, <2>2 DEF Typed
  <1>5. Cardinality(counted') = dequeueOvercommit'
    <2>1. IsFiniteSet(Wasted(c)) /\ Cardinality(Wasted(c)) = desired[c] - actual[c]
      <3> DEFINE lo == ticket[c] + actual[c]
                 hi == ticket[c] + desired[c] - 1
      <3>1. lo \in Int /\ hi \in Int
        BY <1>3
      <3>2. (IF lo > hi THEN 0 ELSE hi - lo + 1) = desired[c] - actual[c]
        BY <1>3
      <3>3. Wasted(c) = lo..hi
        BY DEF Wasted
      <3> HIDE DEF lo, hi
      <3> QED BY <3>1, <3>2, <3>3, FS_Interval
    <2>2. IsFiniteSet(counted)
      BY <1>2, FiniteTickets
    <2>3. Cardinality(counted \union Wasted(c)) = Cardinality(counted) + Cardinality(Wasted(c))
      BY <1>3, <2>1, <2>2, DisjointSum
    <2> QED BY <1>1, <2>1, <2>3 DEF TicketInv, Tallies
  <1>6. \A e \in Consumers : e # c => at'[e] = at[e]
    BY <1>1, <1>2 DEF Typed
  <1>7. at'[c] = IF actual[c] = 0 THEN "idle" ELSE "claim"
    BY <1>1, <1>2 DEF Typed
  <1>8. \A e \in Consumers : /\ Tickets(e)' = Tickets(e) /\ Good(e)' = Good(e)
                             /\ Wasted(e)' = Wasted(e)
    BY <1>1 DEF Tickets, Good, Wasted
  <1>9. Finders'
    <2>1. ASSUME NEW e \in Consumers, e # c, at[e] = "waste"
          PROVE  Wasted(e) \intersect Wasted(c) = {}
      <3>1. Tickets(e) \intersect Tickets(c) = {}
        BY <2>1, <1>1 DEF TicketInv, Apart, InFlight
      <3>2. ticket[e] \in Nat /\ actual[e] \in Nat /\ desired[e] \in Nat
        BY <1>2 DEF Typed
      <3>3. Wasted(e) \subseteq Tickets(e) /\ Wasted(c) \subseteq Tickets(c)
        BY <1>3, <3>2 DEF Tickets, Wasted
      <3> QED BY <3>1, <3>3
    <2>2. ASSUME NEW e \in Consumers, at'[e] \in {"waste", "claim"}
          PROVE  /\ actual'[e] <= desired'[e]
                 /\ Good(e)' \subseteq granted' /\ Good(e)' \intersect claimed' = {}
                 /\ at'[e] = "waste"
                      => Wasted(e)' \subseteq refused' /\ Wasted(e)' \intersect counted' = {}
      <3>1. CASE e = c
        BY <3>1, <1>1, <1>3, <1>7, <1>8 DEF TicketInv, Finders
      <3>2. CASE e # c
        <4>1. at[e] = at'[e]
          BY <3>2, <1>6
        <4>2. at[e] = "waste" => Wasted(e) \intersect (counted \union Wasted(c)) = {}
          BY <3>2, <2>1 DEF TicketInv, Finders
        <4> QED BY <4>1, <4>2, <2>2, <1>1, <1>8 DEF TicketInv, Finders
      <3> QED BY <3>1, <3>2
    <2> QED BY <2>2 DEF Finders
  <1>10. Covered'
    <2>1. \A t \in refused' \ counted' : \E e \in Consumers : at'[e] = "waste" /\ t \in Wasted(e)'
      BY <1>1, <1>6, <1>8 DEF TicketInv, Covered
    <2>2. ASSUME NEW t \in granted' \ claimed'
          PROVE  \E e \in Consumers : at'[e] \in {"waste", "claim"} /\ t \in Good(e)'
      <3>1. PICK e \in Consumers : at[e] \in {"waste", "claim"} /\ t \in Good(e)
        BY <2>2, <1>1 DEF TicketInv, Covered
      <3>2. CASE e # c
        BY <3>1, <3>2, <1>6, <1>8
      <3>3. CASE e = c
        <4>1. actual[c] # 0
          BY <3>1, <3>3, <1>3 DEF Good
        <4> QED BY <3>1, <3>3, <4>1, <1>7, <1>8
      <3> QED BY <3>2, <3>3
    <2>3. ASSUME NEW t \in 0..(dequeueOptimisticCount - 1)
          PROVE  \/ t \in granted' \union refused'
                 \/ \E e \in Consumers : at'[e] = "took" /\ t \in Tickets(e)'
      BY <1>1, <1>6, <1>8 DEF TicketInv, Covered
    <2> QED BY <1>1, <2>1, <2>2, <2>3 DEF Covered
  <1>11. Apart'
    <2>1. \A e \in Consumers : InFlight(e)' => InFlight(e)
      BY <1>1, <1>6 DEF InFlight
    <2> QED BY <2>1, <1>1, <1>8 DEF TicketInv, Apart
  <1>12. Takers' /\ Lookers' /\ Backed' /\ Topped'
    BY <1>1, <1>6, <1>7, <1>8 DEF TicketInv, Takers, Lookers, Backed, Topped, RefusedBelow
  <1>13. Tallies'
    BY <1>1, <1>5 DEF TicketInv, Tallies
  <1> QED BY <1>4, <1>9, <1>10, <1>11, <1>12, <1>13 DEF TicketInv

LEMMA ClaimInv ==
    ASSUME TicketInv, NEW c \in Consumers, Claim(c)
    PROVE  TicketInv'
  <1>1. /\ at[c] = "claim" /\ at' = [at EXCEPT ![c] = "idle"]
        /\ headIndex' = headIndex + actual[c]
        /\ claimed' = claimed \union Good(c)
        /\ UNCHANGED <<tailIndex, dequeueOptimisticCount, dequeueOvercommit, overcommit,
                       desired, ticket, actual, granted, refused, counted>>
    BY DEF Claim, Advance
  <1>2. Typed
    BY DEF TicketInv
  <1>3. /\ ticket[c] \in Nat /\ desired[c] \in Nat /\ actual[c] \in Nat /\ headIndex \in Nat
        /\ actual[c] <= desired[c]
        /\ Good(c) \subseteq granted /\ Good(c) \intersect claimed = {}
    BY <1>1, <1>2 DEF TicketInv, Typed, Finders
  <1>4. Typed'
    <2>1. at' \in [Consumers -> {"idle", "looked", "took", "waste", "claim"}]
      BY <1>1, <1>2 DEF Typed
    <2>2. headIndex' \in Nat
      BY <1>1, <1>3
    <2> QED BY <1>1, <1>2, <1>3, <2>1, <2>2 DEF Typed
  <1>5. Cardinality(claimed') = headIndex'
    <2>1. IsFiniteSet(Good(c)) /\ Cardinality(Good(c)) = actual[c]
      <3> DEFINE lo == ticket[c]
                 hi == ticket[c] + actual[c] - 1
      <3>1. lo \in Int /\ hi \in Int
        BY <1>3
      <3>2. (IF lo > hi THEN 0 ELSE hi - lo + 1) = actual[c]
        BY <1>3
      <3>3. Good(c) = lo..hi
        BY DEF Good
      <3> HIDE DEF lo, hi
      <3> QED BY <3>1, <3>2, <3>3, FS_Interval
    <2>2. IsFiniteSet(claimed)
      BY <1>2, FiniteTickets
    <2>3. Cardinality(claimed \union Good(c)) = Cardinality(claimed) + Cardinality(Good(c))
      BY <1>3, <2>1, <2>2, DisjointSum
    <2> QED BY <1>1, <2>1, <2>3 DEF TicketInv, Tallies
  <1>6. \A e \in Consumers : e # c => at'[e] = at[e]
    BY <1>1, <1>2 DEF Typed
  <1>7. at'[c] = "idle"
    BY <1>1, <1>2 DEF Typed
  <1>8. \A e \in Consumers : /\ Tickets(e)' = Tickets(e) /\ Good(e)' = Good(e)
                             /\ Wasted(e)' = Wasted(e)
    BY <1>1 DEF Tickets, Good, Wasted
  <1>9. Finders'
    <2>1. ASSUME NEW e \in Consumers, e # c, at[e] \in {"waste", "claim"}
          PROVE  Good(e) \intersect Good(c) = {}
      <3>1. Tickets(e) \intersect Tickets(c) = {}
        BY <2>1, <1>1 DEF TicketInv, Apart, InFlight
      <3>2. ticket[e] \in Nat /\ actual[e] \in Nat /\ desired[e] \in Nat
            /\ actual[e] <= desired[e]
        BY <2>1, <1>2 DEF Typed, TicketInv, Finders
      <3>3. Good(e) \subseteq Tickets(e) /\ Good(c) \subseteq Tickets(c)
        BY <1>3, <3>2 DEF Tickets, Good
      <3> QED BY <3>1, <3>3
    <2>2. ASSUME NEW e \in Consumers, at'[e] \in {"waste", "claim"}
          PROVE  /\ actual'[e] <= desired'[e]
                 /\ Good(e)' \subseteq granted' /\ Good(e)' \intersect claimed' = {}
                 /\ at'[e] = "waste"
                      => Wasted(e)' \subseteq refused' /\ Wasted(e)' \intersect counted' = {}
      <3>1. e # c /\ at[e] = at'[e]
        BY <2>2, <1>6, <1>7
      <3>2. Good(e) \intersect (claimed \union Good(c)) = {}
        BY <3>1, <2>1, <2>2 DEF TicketInv, Finders
      <3> QED BY <3>1, <3>2, <2>2, <1>1, <1>8 DEF TicketInv, Finders
    <2> QED BY <2>2 DEF Finders
  <1>10. Covered'
    BY <1>1, <1>6, <1>8 DEF TicketInv, Covered
  <1>11. Apart'
    <2>1. \A e \in Consumers : InFlight(e)' => InFlight(e)
      BY <1>6, <1>7 DEF InFlight
    <2> QED BY <2>1, <1>1, <1>8 DEF TicketInv, Apart
  <1>12. Takers' /\ Lookers' /\ Backed' /\ Topped'
    BY <1>1, <1>6, <1>7, <1>8 DEF TicketInv, Takers, Lookers, Backed, Topped, RefusedBelow
  <1>13. Tallies'
    BY <1>1, <1>5 DEF TicketInv, Tallies
  <1> QED BY <1>4, <1>9, <1>10, <1>11, <1>12, <1>13 DEF TicketInv

LEMMA TicketStutter ==
    ASSUME TicketInv, UNCHANGED claimsVars
    PROVE  TicketInv'
  BY DEF TicketInv, Typed, Tallies, Lookers, Takers, Finders, Apart, Backed, Topped, Covered,
     InFlight, Tickets, Good, Wasted, RefusedBelow, claimsVars, counterVars, localVars, ticketVars

LEMMA TicketNext == TicketInv /\ [ClaimsNext]_claimsVars => TicketInv'
  <1> SUFFICES ASSUME TicketInv, [ClaimsNext]_claimsVars PROVE TicketInv'
    OBVIOUS
  <1>1. ASSUME NEW n \in 1..MaxBulk, Publish(n) PROVE TicketInv'
    BY <1>1, PublishInv
  <1>2. ASSUME NEW c \in Consumers, Dequeue(c) PROVE TicketInv'
    BY <1>2, LookInv, TakeTicketsInv, CompareInv, WasteInv, ClaimInv DEF Dequeue
  <1>3. CASE UNCHANGED claimsVars
    BY <1>3, TicketStutter
  <1> QED BY <1>1, <1>2, <1>3 DEF ClaimsNext

LEMMA TicketInvariance == ClaimsSpec => []TicketInv
  BY TicketInit, TicketNext, PTL DEF ClaimsSpec

--------------------------------------------------------------------------------
(* What follows from it.                                                       *)

LEMMA InvNoClaimPastTail == TicketInv => NoClaimPastTail
  <1> SUFFICES ASSUME TicketInv PROVE headIndex <= tailIndex
    BY DEF NoClaimPastTail
  <1>1. Cardinality(granted) <= tailIndex
    BY GrantedBound DEF TicketInv
  <1>2. /\ Cardinality(claimed) <= Cardinality(granted)
        /\ Cardinality(claimed) \in Nat /\ Cardinality(granted) \in Nat
    BY FiniteTickets, PartOf DEF TicketInv, Typed
  <1> QED BY <1>1, <1>2 DEF TicketInv, Tallies, Typed

LEMMA InvNoItemHidden == TicketInv => NoItemHidden
  <1> SUFFICES ASSUME TicketInv, \A c \in Consumers : at[c] \in {"idle", "looked"}
               PROVE  dequeueOptimisticCount - dequeueOvercommit = headIndex
    BY DEF NoItemHidden
  <1>1. claimed = granted /\ counted = refused
    BY DEF TicketInv, Covered, Typed
  <1>2. granted \union refused = 0..(dequeueOptimisticCount - 1)
    BY DEF TicketInv, Covered, Typed
  <1>3. Cardinality(granted \union refused) = Cardinality(granted) + Cardinality(refused)
    BY FiniteTickets, DisjointSum DEF TicketInv, Tallies
  <1>4. Cardinality(0..(dequeueOptimisticCount - 1)) = dequeueOptimisticCount
    BY FS_Interval DEF TicketInv, Typed
  <1>5. Cardinality(granted) = headIndex /\ Cardinality(refused) = dequeueOvercommit
    BY <1>1 DEF TicketInv, Tallies
  <1>6. headIndex \in Nat /\ dequeueOvercommit \in Nat /\ dequeueOptimisticCount \in Nat
    BY DEF TicketInv, Typed
  <1>7. dequeueOptimisticCount = headIndex + dequeueOvercommit
    BY <1>2, <1>3, <1>4, <1>5
  <1> QED BY <1>6, <1>7

\* No interleaving of dequeue and dequeue_bulk, by any number of consumers, claims
\* an item that is not published.
THEOREM ClaimsAreSafe == ClaimsSpec => []NoClaimPastTail
  BY TicketInvariance, InvNoClaimPastTail, PTL

\* When no dequeue is under way, the counters hide no item: the next one finds all
\* that are left.
THEOREM NothingHidden == ClaimsSpec => []NoItemHidden
  BY TicketInvariance, InvNoItemHidden, PTL

\* No call dequeues more than MaxBulk items.
Bulk == \A c \in Consumers : desired[c] \in 0..MaxBulk

LEMMA BulkKept == ClaimsSpec => []Bulk
  <1>1. ClaimsInit => Bulk
    BY ClaimAssumption DEF ClaimsInit, Bulk
  <1>2. Typed /\ Bulk /\ [ClaimsNext]_claimsVars => Bulk'
    <2> SUFFICES ASSUME Typed, Bulk, [ClaimsNext]_claimsVars PROVE Bulk'
      OBVIOUS
    <2>1. ASSUME NEW c \in Consumers, Look(c) PROVE Bulk'
      BY <2>1, ClaimAssumption DEF Look, Bulk, Typed
    <2>2. ASSUME NEW c \in Consumers, TakeTickets(c) \/ Compare(c) \/ Waste(c) \/ Claim(c)
          PROVE  Bulk'
      BY <2>2 DEF TakeTickets, Compare, Waste, Claim, counterVars, Bulk
    <2>3. ASSUME NEW n \in 1..MaxBulk, Publish(n) PROVE Bulk'
      BY <2>3 DEF Publish, localVars, Bulk
    <2>4. CASE UNCHANGED claimsVars
      BY <2>4 DEF claimsVars, localVars, Bulk
    <2> QED BY <2>1, <2>2, <2>3, <2>4 DEF ClaimsNext, Dequeue
  <1>3. TicketInv => Typed
    BY DEF TicketInv
  <1> QED BY <1>1, <1>2, <1>3, TicketInvariance, PTL DEF ClaimsSpec

\* The lock-free protocol implements ItemClaims: every step publishes items, claims
\* the next ones that are published, or changes neither counter.
THEOREM RefinesItemClaims == ClaimsSpec => ImplementsItemClaims
  <1>1. ClaimsInit => Abstract!Init
    BY DEF ClaimsInit, Abstract!Init
  <1>2. TicketInv' => NoClaimPastTail'
    BY InvNoClaimPastTail, PTL
  <1>3. TicketInv /\ TicketInv' /\ Bulk /\ [ClaimsNext]_claimsVars => [Abstract!Next]_(Abstract!claimVars)
    <2> SUFFICES ASSUME TicketInv, TicketInv', Bulk, [ClaimsNext]_claimsVars
                 PROVE  Abstract!Next \/ UNCHANGED <<tailIndex, headIndex>>
      BY DEF Abstract!claimVars
    <2>1. ASSUME NEW n \in 1..MaxBulk, Publish(n) PROVE Abstract!Next
      <3>1. n \in Nat /\ Abstract!Publish(n)
        BY <2>1, ClaimAssumption DEF Publish, Abstract!Publish
      <3> QED BY <3>1 DEF Abstract!Next
    <2>2. ASSUME NEW c \in Consumers, Claim(c)
          PROVE  Abstract!Next \/ UNCHANGED <<tailIndex, headIndex>>
      <3>1. headIndex' = headIndex + actual[c] /\ tailIndex' = tailIndex
        BY <2>2 DEF Claim
      <3>2. actual[c] \in 0..MaxBulk /\ headIndex \in Nat /\ headIndex' <= tailIndex'
        BY <1>2, <2>2, ClaimAssumption
        DEF TicketInv, Typed, Finders, Bulk, NoClaimPastTail, Claim, Advance
      <3>3. CASE actual[c] = 0
        BY <3>1, <3>2, <3>3
      <3>4. CASE actual[c] \in 1..MaxBulk
        <4>1. Abstract!Claim(actual[c])
          BY <3>1, <3>2 DEF Abstract!Claim
        <4> QED BY <3>4, <4>1 DEF Abstract!Next
      <3> QED BY <3>2, <3>3, <3>4, ClaimAssumption
    <2>3. ASSUME NEW c \in Consumers, Look(c) \/ TakeTickets(c) \/ Compare(c) \/ Waste(c)
          PROVE  UNCHANGED <<tailIndex, headIndex>>
      BY <2>3 DEF Look, TakeTickets, Compare, Waste, counterVars
    <2>4. CASE UNCHANGED claimsVars
      BY <2>4 DEF claimsVars, counterVars
    <2> QED BY <2>1, <2>2, <2>3, <2>4 DEF ClaimsNext, Dequeue
  <1> QED BY <1>1, <1>3, TicketInvariance, BulkKept, PTL DEF ClaimsSpec, ImplementsItemClaims, Abstract!Spec

(***************************************************************************)
(* BlockPool.                                                              *)
(***************************************************************************)
Owners == Threads \union {"pool", "unmade", "free", "gone"}
Steps == {"idle", "take", "get", "ref", "next", "swap", "got", "drop", "load",
          "link", "push", "retract", "give", "alloc"}

\* The types, without the bounds on the counters.
Types ==
    /\ poolIndex \in Nat
    /\ head \in Pointer
    /\ freeNext \in [Blocks -> Pointer]
    /\ refs \in [Blocks -> Nat]
    /\ should \in [Blocks -> BOOLEAN]
    /\ chain \in [Threads -> Seq(Blocks)]
    /\ cur \in [Threads -> Pointer] /\ node \in [Threads -> Pointer]
    /\ seen \in [Threads -> Pointer]
    /\ giving \subseteq Threads
    /\ owner \in [Blocks -> Owners]
    /\ pc \in [Threads -> Steps]

(***************************************************************************)
(* Who has to do with a block.  A thread holds a block while its reference *)
(* is counted, and adds it from the moment it knows the count to be zero   *)
(* until the block is on the list or left to somebody else.                *)
(***************************************************************************)
Holds(t, b) ==
    \/ pc[t] \in {"next", "swap", "got"} /\ cur[t] = b
    \/ pc[t] = "drop" /\ node[t] = b
Prepares(t, b) == pc[t] \in {"load", "link"} /\ node[t] = b
Pushes(t, b) == pc[t] \in {"push", "retract"} /\ node[t] = b
Adds(t, b) == Prepares(t, b) \/ Pushes(t, b)
Takes(t, b) == pc[t] = "got" /\ cur[t] = b

Holders(b) == {t \in Threads : Holds(t, b)}

\* On the list: free, not marked to be added, and nobody is adding it.
Listed(b) ==
    b \in Blocks /\ owner[b] = "free" /\ ~should[b] /\ \A t \in Threads : ~Adds(t, b)

\* Besides the references of its holders a block has one of the list, from the
\* moment it is linked until the thread that took it off drops both at once.
ListRef(b) ==
    IF (owner[b] = "free" /\ ~should[b]) \/ \E t \in Threads : Takes(t, b)
    THEN 1 ELSE 0

(***************************************************************************)
(* The invariant.                                                          *)
(***************************************************************************)

\* The pointers a thread uses are not null.
Locals ==
    \A t \in Threads :
        /\ pc[t] \in {"ref", "next", "swap", "got"} => cur[t] \in Blocks
        /\ pc[t] \in {"drop", "load", "link", "push", "retract"} => node[t] \in Blocks

\* A thread owns the blocks of its chain, each of them once, and the one it has
\* just taken off the list; the rest of the initial pool is nobody's.
Owned ==
    /\ \A t \in Threads : \A i \in 1..Len(chain[t]) :
          /\ owner[chain[t][i]] = t
          /\ \A j \in 1..Len(chain[t]) : chain[t][i] = chain[t][j] => i = j
    /\ \A t \in Threads : pc[t] = "got" => owner[cur[t]] = t
    /\ \A b \in Blocks : poolIndex < b /\ b <= PoolSize => owner[b] = "pool"

\* One thread at most adds a block, which is free; it is marked until it is linked
\* and from when it is retracted, and its count is zero before it is linked, so that
\* nobody can come to hold it.
Added ==
    /\ \A b \in Blocks : should[b] => owner[b] = "free"
    /\ \A t \in Threads, b \in Blocks :
          Adds(t, b) => owner[b] = "free" /\ \A u \in Threads : Adds(u, b) => u = t
    /\ \A t \in Threads, b \in Blocks : Prepares(t, b) => should[b] /\ refs[b] = 0
    /\ \A t \in Threads, b \in Blocks : Pushes(t, b) => ~should[b]

Counted == \A b \in Blocks : refs[b] = Cardinality(Holders(b)) + ListRef(b)

\* The list is what head and freeNext say: closed, and every block on it is found
\* from one place only.  A thread about to swap the head has the right successor: the
\* block it holds cannot have been linked anew since it read freeListNext.
Linked ==
    /\ head # NoBlock => Listed(head)
    /\ \A b \in Blocks : Listed(b) /\ freeNext[b] # NoBlock =>
          /\ Listed(freeNext[b]) /\ freeNext[b] # head
          /\ \A c \in Blocks : Listed(c) /\ freeNext[c] = freeNext[b] => c = b
    /\ \A t \in Threads : pc[t] = "swap" => seen[t] = freeNext[cur[t]]
    /\ \A t \in Threads : pc[t] = "push" => seen[t] = freeNext[node[t]]

Inv == Types /\ Locals /\ Owned /\ Added /\ Counted /\ Linked

--------------------------------------------------------------------------------

LEMMA OwnerNames == Threads \intersect {"pool", "unmade", "free", "gone"} = {}
  BY PoolAssumption

\* The holders of a block are finitely many.
LEMMA HoldersFinite ==
    ASSUME NEW b
    PROVE  /\ IsFiniteSet(Holders(b)) /\ Cardinality(Holders(b)) \in Nat
           /\ \A t \in Threads : Holds(t, b) => Cardinality(Holders(b)) # 0
<1>1. Holders(b) \subseteq Threads
  BY DEF Holders
<1>2. IsFiniteSet(Holders(b))
  BY <1>1, PoolAssumption, FS_Subset
<1>3. Cardinality(Holders(b)) \in Nat /\ (Cardinality(Holders(b)) = 0 => Holders(b) = {})
  BY <1>2, FS_CardinalityType, FS_EmptySet
<1> QED
  BY <1>2, <1>3 DEF Holders

LEMMA HoldersFinitePrimed ==
    ASSUME NEW b
    PROVE  (IsFiniteSet(Holders(b)) /\ Cardinality(Holders(b)) \in Nat)'
<1>1. Holders(b)' \subseteq Threads
  BY DEF Holders
<1>2. IsFiniteSet(Holders(b)')
  BY <1>1, PoolAssumption, FS_Subset
<1> QED
  BY <1>2, FS_CardinalityType

\* What a step of thread t does to the number of holders.
LEMMA HoldersChange ==
    ASSUME NEW t \in Threads, NEW b,
           \A u \in Threads \ {t} : Holds(u, b)' = Holds(u, b)
    PROVE  Cardinality(Holders(b))' =
             Cardinality(Holders(b))
               + (CASE Holds(t, b)' /\ ~Holds(t, b) -> 1
                    [] ~Holds(t, b)' /\ Holds(t, b) -> -1
                    [] OTHER -> 0)
<1>1. IsFiniteSet(Holders(b)) /\ Cardinality(Holders(b)) \in Nat
  BY HoldersFinite
<1>2. CASE Holds(t, b)' /\ ~Holds(t, b)
  <2>1. Holders(b)' = Holders(b) \union {t} /\ t \notin Holders(b)
    BY <1>2 DEF Holders
  <2> QED
    BY <1>1, <1>2, <2>1, FS_AddElement
<1>3. CASE ~Holds(t, b)' /\ Holds(t, b)
  <2>1. Holders(b)' = Holders(b) \ {t} /\ t \in Holders(b)
    BY <1>3 DEF Holders
  <2> QED
    BY <1>1, <1>3, <2>1, FS_RemoveElement
<1>4. CASE Holds(t, b)' = Holds(t, b)
  <2>1. Holders(b)' = Holders(b)
    BY <1>4 DEF Holders
  <2> QED
    BY <1>1, <1>4, <2>1
<1> QED
  BY <1>2, <1>3, <1>4 DEF Holds

\* What a thread's step leaves as it was for the others.
Others(t) ==
    \A u \in Threads \ {t} :
        /\ pc'[u] = pc[u] /\ cur'[u] = cur[u] /\ node'[u] = node[u] /\ seen'[u] = seen[u]

LEMMA OthersRoles ==
    ASSUME NEW t \in Threads, Others(t)
    PROVE  \A u \in Threads \ {t} : \A b :
              /\ Holds(u, b)' = Holds(u, b)
              /\ Adds(u, b)' = Adds(u, b)
              /\ Prepares(u, b)' = Prepares(u, b)
              /\ Pushes(u, b)' = Pushes(u, b)
              /\ Takes(u, b)' = Takes(u, b)
  BY DEF Others, Holds, Adds, Prepares, Pushes, Takes

\* Every step keeps the types, but for a count that would become negative.
LEMMA TypesStep ==
    ASSUME Types, NEW t \in Threads, Step(t), refs' \in [Blocks -> Nat],
           pc[t] \in {"ref", "next", "swap", "got"} => cur[t] \in Blocks,
           pc[t] \in {"drop", "load", "link", "push", "retract"} => node[t] \in Blocks
    PROVE  Types' /\ Others(t)
<1> USE DEF Types, Others, Goto, listVars, chainVars, Pointer, Steps
<1>1. CASE Requisition(t) \/ GetNothing(t) \/ GiveBack(t) \/ GiveDone(t)
  BY <1>1 DEF Requisition, GetNothing, GiveBack, GiveDone
<1>2. ASSUME NEW b \in Blocks, Hand(t, b)
      PROVE  chain' \in [Threads -> Seq(Blocks)] /\ owner' \in [Blocks -> Owners]
  BY <1>2 DEF Hand, Owners
<1>3. CASE TakeFromPool(t)
  <2>1. poolIndex < PoolSize => poolIndex + 1 \in Blocks
    BY PoolAssumption DEF Blocks
  <2>2. chain' \in [Threads -> Seq(Blocks)] /\ owner' \in [Blocks -> Owners]
    BY <1>2, <1>3, <2>1 DEF TakeFromPool
  <2>3. /\ poolIndex' \in Nat
        /\ UNCHANGED <<head, freeNext, refs, should, cur, node, seen, giving>>
    BY <1>3 DEF TakeFromPool
  <2>4. \E l \in Steps : pc' = [pc EXCEPT ![t] = l]
    BY <1>3 DEF TakeFromPool
  <2> QED
    BY <2>2, <2>3, <2>4
<1>4. CASE Allocate(t)
  <2>1. Dynamic \subseteq Blocks
    BY PoolAssumption DEF Dynamic, Blocks
  <2>2. chain' \in [Threads -> Seq(Blocks)] /\ owner' \in [Blocks -> Owners]
    BY <1>2, <1>4, <2>1 DEF Allocate
  <2> QED
    BY <1>4, <2>2 DEF Allocate
<1>5. CASE LoadHead(t) \/ RefHead(t) \/ ReadNext(t) \/ SwapFails(t) \/ Got(t) \/ Drop(t)
  <2>1. CASE LoadHead(t)
    BY <2>1 DEF LoadHead
  <2>2. CASE RefHead(t)
    BY <2>2 DEF RefHead
  <2>3. CASE ReadNext(t)
    BY <2>3 DEF ReadNext
  <2>4. CASE SwapFails(t)
    BY <2>4 DEF SwapFails
  <2>5. CASE Got(t)
    BY <2>5 DEF Got
  <2>6. CASE Drop(t)
    BY <2>6 DEF Drop
  <2> QED
    BY <1>5, <2>1, <2>2, <2>3, <2>4, <2>5, <2>6
<1>6. CASE SwapHead(t)
  BY <1>2, <1>6 DEF SwapHead
<1>7. CASE LoadForAdd(t) \/ Link(t) \/ Push(t) \/ PushFails(t) \/ Retract(t)
  <2>1. After(t) \in Steps
    BY DEF After
  <2>2. CASE LoadForAdd(t)
    BY <2>2 DEF LoadForAdd
  <2>3. CASE Link(t)
    BY <2>3 DEF Link
  <2>4. CASE Push(t)
    BY <2>1, <2>4 DEF Push, Forget
  <2>5. CASE PushFails(t)
    BY <2>5 DEF PushFails
  <2>6. CASE Retract(t)
    <3>1. CASE refs[node[t]] = 1
      BY <2>6, <3>1 DEF Retract
    <3>2. CASE refs[node[t]] # 1
      BY <2>1, <2>6, <3>2 DEF Retract, Forget
    <3> QED
      BY <3>1, <3>2
  <2> QED
    BY <1>7, <2>2, <2>3, <2>4, <2>5, <2>6
<1>8. CASE GiveDestroy(t) \/ GiveOne(t)
  <2>1. chain[t] \in Seq(Blocks) /\ chain[t] # <<>>
    BY <1>8 DEF GiveDestroy, GiveOne
  <2>2. Head(chain[t]) \in Blocks /\ Tail(chain[t]) \in Seq(Blocks)
    BY <2>1
  <2>3. CASE GiveDestroy(t)
    BY <2>1, <2>2, <2>3 DEF GiveDestroy, Owners
  <2>4. CASE GiveOne(t)
    BY <2>1, <2>2, <2>4 DEF GiveOne, Owners
  <2> QED
    BY <1>8, <2>3, <2>4
<1> QED
  BY <1>1, <1>3, <1>4, <1>5, <1>6, <1>7, <1>8 DEF Step, TryGet, Add


--------------------------------------------------------------------------------
(* Steps that only move a thread or its own pointers.                          *)

\* A thread that looks at shared memory, changes none of it, and stays in its role.
LEMMA QuietStep ==
    ASSUME Inv, NEW t \in Threads, Types', Others(t),
           UNCHANGED <<listVars, chainVars>>, poolIndex' >= poolIndex,
           \A b \in Blocks : /\ Holds(t, b)' = Holds(t, b)
                             /\ Prepares(t, b)' = Prepares(t, b)
                             /\ Pushes(t, b)' = Pushes(t, b),
           pc'[t] # "got",  pc[t] # "got",
           pc'[t] \in {"ref", "next", "swap"} => cur'[t] \in Blocks,
           pc'[t] \in {"drop", "load", "link", "push", "retract"} => node'[t] \in Blocks,
           pc'[t] = "swap" => seen'[t] = freeNext[cur'[t]],
           pc'[t] = "push" => seen'[t] = freeNext[node'[t]]
    PROVE  Inv'
<1> USE DEF listVars, chainVars
<1>1. \A u \in Threads, b \in Blocks :
         /\ Holds(u, b)' = Holds(u, b) /\ Adds(u, b)' = Adds(u, b)
         /\ Prepares(u, b)' = Prepares(u, b) /\ Pushes(u, b)' = Pushes(u, b)
         /\ Takes(u, b)' = Takes(u, b)
  BY OthersRoles DEF Adds, Takes
<1>2. Locals'
  BY DEF Inv, Locals, Others
<1>3. Owned'
  <2>1. \A b \in Blocks : poolIndex' < b => poolIndex < b
    BY DEF Inv, Types, Blocks
  <2> QED
    BY <2>1 DEF Inv, Owned, Others
<1>4. Added'
  BY <1>1 DEF Inv, Added
<1>5. \A b \in Blocks : Holders(b)' = Holders(b) /\ ListRef(b)' = ListRef(b)
  BY <1>1 DEF Holders, ListRef
<1>6. Counted'
  BY <1>5 DEF Inv, Counted
<1>7. \A b : Listed(b)' = Listed(b)
  BY <1>1 DEF Listed
<1>8. Linked'
  BY <1>7 DEF Inv, Linked, Others
<1> QED
  BY <1>2, <1>3, <1>4, <1>6, <1>8 DEF Inv

LEMMA QuietSteps ==
    ASSUME Inv, NEW t \in Threads, Step(t), Types', Others(t),
           \/ Requisition(t) \/ GetNothing(t) \/ GiveBack(t) \/ GiveDone(t)
           \/ LoadHead(t) \/ ReadNext(t) \/ SwapFails(t) \/ LoadForAdd(t) \/ PushFails(t)
    PROVE  Inv'
<1> USE DEF Goto, Holds, Prepares, Pushes, Types
<1>0. /\ pc[t] \in {"ref", "next", "swap", "got"} => cur[t] \in Blocks
      /\ pc[t] \in {"drop", "load", "link", "push", "retract"} => node[t] \in Blocks
      /\ poolIndex' = poolIndex => poolIndex' >= poolIndex
  BY DEF Inv, Types, Locals
<1>1. CASE Requisition(t) \/ GetNothing(t) \/ GiveBack(t) \/ GiveDone(t)
  <2>1. /\ pc[t] \in {"idle", "alloc", "give"} /\ pc'[t] \in {"get", "take", "idle", "give"}
        /\ UNCHANGED <<poolIndex, listVars, chainVars, cur, node, seen>>
    BY <1>1 DEF Inv, Requisition, GetNothing, GiveBack, GiveDone
  <2> QED
    BY <1>0, <2>1, QuietStep
<1>2. CASE LoadHead(t)
  <2>1. /\ pc[t] = "get" /\ pc'[t] \in {"alloc", "ref"} /\ cur'[t] = head
        /\ pc'[t] = "ref" => head # NoBlock
        /\ UNCHANGED <<poolIndex, listVars, chainVars, node, seen>>
    BY <1>2 DEF Inv, LoadHead
  <2> QED
    BY <1>0, <2>1, QuietStep DEF Inv, Pointer
<1>3. CASE ReadNext(t)
  <2>1. /\ pc[t] = "next" /\ pc'[t] = "swap" /\ seen'[t] = freeNext[cur[t]]
        /\ UNCHANGED <<poolIndex, listVars, chainVars, cur, node>>
    BY <1>3 DEF Inv, ReadNext
  <2> QED
    BY <1>0, <2>1, QuietStep
<1>4. CASE SwapFails(t)
  <2>1. /\ pc[t] = "swap" /\ pc'[t] = "drop" /\ node'[t] = cur[t]
        /\ UNCHANGED <<poolIndex, listVars, chainVars>>
    BY <1>4 DEF Inv, SwapFails
  <2> QED
    BY <1>0, <2>1, QuietStep
<1>5. CASE LoadForAdd(t)
  <2>1. /\ pc[t] = "load" /\ pc'[t] = "link"
        /\ UNCHANGED <<poolIndex, listVars, chainVars, cur, node>>
    BY <1>5 DEF Inv, LoadForAdd
  <2> QED
    BY <1>0, <2>1, QuietStep
<1>6. CASE PushFails(t)
  <2>1. /\ pc[t] = "push" /\ pc'[t] = "retract"
        /\ UNCHANGED <<poolIndex, listVars, chainVars, cur, node>>
    BY <1>6 DEF Inv, PushFails
  <2> QED
    BY <1>0, <2>1, QuietStep
<1> QED
  BY <1>1, <1>2, <1>3, <1>4, <1>5, <1>6

--------------------------------------------------------------------------------
(* Steps that count.                                                           *)

\* What a step on block b leaves as it was for the other blocks.
Elsewhere(t, b) ==
    \A c \in Blocks \ {b} :
        /\ refs'[c] = refs[c] /\ should'[c] = should[c] /\ owner'[c] = owner[c]
        /\ Holds(t, c)' = Holds(t, c) /\ Takes(t, c)' = Takes(t, c)
        /\ Prepares(t, c)' = Prepares(t, c) /\ Pushes(t, c)' = Pushes(t, c)

LEMMA ElsewhereStep ==
    ASSUME Inv, NEW t \in Threads, NEW b \in Blocks, Others(t), Elsewhere(t, b)
    PROVE  \A c \in Blocks \ {b} :
              /\ refs'[c] = Cardinality(Holders(c))' + ListRef(c)'
              /\ Listed(c)' = Listed(c)
<1> SUFFICES ASSUME NEW c \in Blocks \ {b}
             PROVE  /\ refs'[c] = Cardinality(Holders(c))' + ListRef(c)'
                    /\ Listed(c)' = Listed(c)
  OBVIOUS
<1>1. \A u \in Threads : /\ Holds(u, c)' = Holds(u, c) /\ Takes(u, c)' = Takes(u, c)
                         /\ Adds(u, c)' = Adds(u, c)
  BY OthersRoles DEF Elsewhere, Adds
<1>2. Holders(c)' = Holders(c) /\ ListRef(c)' = ListRef(c)
  BY <1>1 DEF Holders, ListRef, Elsewhere
<1> QED
  BY <1>1, <1>2 DEF Inv, Counted, Listed, Elsewhere

\* The marks and adders of the other blocks are as they were.
LEMMA ElsewhereAdded ==
    ASSUME Inv, NEW t \in Threads, NEW b \in Blocks, Others(t), Elsewhere(t, b),
           should'[b] => owner'[b] = "free",
           \A u \in Threads :
              Adds(u, b)' => owner'[b] = "free" /\ \A v \in Threads : Adds(v, b)' => v = u,
           \A u \in Threads : Prepares(u, b)' => should'[b] /\ refs'[b] = 0,
           \A u \in Threads : Pushes(u, b)' => ~should'[b]
    PROVE  Added'
<1>1. \A u \in Threads, c \in Blocks \ {b} :
         /\ Adds(u, c)' = Adds(u, c)
         /\ Prepares(u, c)' = Prepares(u, c) /\ Pushes(u, c)' = Pushes(u, c)
  BY OthersRoles DEF Elsewhere, Adds
<1> QED
  BY <1>1 DEF Inv, Added, Elsewhere

\* The count of a block that is held, taken or pushed.
LEMMA Counts ==
    ASSUME Inv, NEW t \in Threads, NEW b \in Blocks
    PROVE  /\ Cardinality(Holders(b)) \in Nat /\ ListRef(b) \in {0, 1}
           /\ refs[b] = Cardinality(Holders(b)) + ListRef(b)
           /\ Holds(t, b) => Cardinality(Holders(b)) >= 1
           /\ Takes(t, b) => Holds(t, b) /\ ListRef(b) = 1 /\ owner[b] = t
           /\ Pushes(t, b) => ListRef(b) = 1 /\ owner[b] = "free"
           /\ refs[b] # 0 => \A u \in Threads : ~Prepares(u, b)
           /\ refs[b] = 0 => \A u \in Threads : ~Holds(u, b)
<1>1. /\ Cardinality(Holders(b)) \in Nat
      /\ \A u \in Threads : Holds(u, b) => Cardinality(Holders(b)) # 0
  BY HoldersFinite
<1>2. ListRef(b) \in {0, 1} /\ refs[b] = Cardinality(Holders(b)) + ListRef(b)
  BY DEF ListRef, Inv, Counted
<1>3. Takes(t, b) => Holds(t, b) /\ ListRef(b) = 1 /\ owner[b] = t
  BY DEF Takes, Holds, ListRef, Inv, Owned
<1>4. Pushes(t, b) => ListRef(b) = 1 /\ owner[b] = "free"
  BY DEF ListRef, Inv, Added, Adds
<1>5. refs[b] # 0 => \A u \in Threads : ~Prepares(u, b)
  BY DEF Inv, Added
<1> QED
  BY <1>1, <1>2, <1>3, <1>4, <1>5

\* A step that changes neither the list nor which blocks are on it.
LEMMA LinkedFrame ==
    ASSUME Inv, NEW t \in Threads, Others(t), UNCHANGED <<head, freeNext>>,
           \A b \in Blocks : Listed(b)' = Listed(b),
           pc'[t] = "swap" => seen'[t] = freeNext[cur'[t]],
           pc'[t] = "push" => seen'[t] = freeNext[node'[t]]
    PROVE  Linked'
<1>1. \A b : Listed(b) => b \in Blocks
  BY DEF Listed
<1>2. \A b : Listed(b)' => b \in Blocks
  BY DEF Listed
<1> QED
  BY <1>1, <1>2 DEF Inv, Linked, Others

LEMMA StepRefHead ==
    ASSUME Inv, NEW t \in Threads, Types', Others(t), RefHead(t)
    PROVE  Inv'
<1> USE DEF Goto, chainVars
<1>0. PICK b \in Blocks : b = cur[t]
  BY DEF RefHead, Inv, Locals
<1>1. pc[t] = "ref" /\ cur[t] = b
  BY <1>0 DEF RefHead
<1>2. CASE refs[b] = 0
  <2>1. /\ pc'[t] = "get" /\ refs' = refs /\ poolIndex' >= poolIndex
        /\ UNCHANGED <<listVars, chainVars>>
    BY <1>1, <1>2 DEF RefHead, Inv, Types, listVars
  <2> QED
    BY <1>1, <2>1, QuietStep DEF Holds, Prepares, Pushes
<1>3. CASE refs[b] # 0
  <2>1. /\ pc'[t] = "next" /\ refs' = [refs EXCEPT ![b] = @ + 1] /\ cur'[t] = b
        /\ UNCHANGED <<poolIndex, head, freeNext, should, chainVars>>
    BY <1>1, <1>3 DEF RefHead, Inv, Types
  <2>2. ~Holds(t, b) /\ Holds(t, b)'
    BY <1>1, <2>1 DEF Holds
  <2>3. \A c : /\ ~Takes(t, c) /\ ~Takes(t, c)' /\ ~Prepares(t, c) /\ ~Prepares(t, c)'
               /\ ~Pushes(t, c) /\ ~Pushes(t, c)' /\ ~Adds(t, c) /\ ~Adds(t, c)'
    BY <1>1, <2>1 DEF Takes, Prepares, Pushes, Adds
  <2>4. refs'[b] = refs[b] + 1 /\ Elsewhere(t, b)
    BY <1>1, <2>1 DEF Elsewhere, Holds, Takes, Prepares, Pushes, Inv, Types
  <2>5. \A u \in Threads : /\ Takes(u, b)' = Takes(u, b) /\ Adds(u, b)' = Adds(u, b)
                           /\ Prepares(u, b)' = Prepares(u, b) /\ Pushes(u, b)' = Pushes(u, b)
    BY <1>1, <2>1, OthersRoles DEF Takes, Prepares, Pushes, Adds
  <2>6. Locals' /\ Owned'
    BY <1>1, <2>1 DEF Inv, Locals, Owned, Others
  <2>7. Added'
    <3>1. \A u \in Threads : ~Prepares(u, b)
      BY <1>1, <1>3, Counts
    <3> QED
      BY <1>1, <2>1, <2>4, <2>5, <3>1, ElsewhereAdded DEF Inv, Added
  <2>8. Counted'
    <3>1. Cardinality(Holders(b))' = Cardinality(Holders(b)) + 1
      BY <2>2, HoldersChange, OthersRoles
    <3>2. ListRef(b)' = ListRef(b)
      BY <2>1, <2>5 DEF ListRef
    <3>3. refs'[b] = Cardinality(Holders(b))' + ListRef(b)'
      BY <1>1, <2>4, <3>1, <3>2, Counts
    <3> QED
      BY <1>1, <2>4, <3>3, ElsewhereStep DEF Counted
  <2>9. Linked'
    <3>1. Listed(b)' = Listed(b)
      BY <2>1, <2>5 DEF Listed
    <3> QED
      BY <1>1, <2>1, <2>4, <3>1, ElsewhereStep, LinkedFrame
  <2> QED
    BY <2>6, <2>7, <2>8, <2>9 DEF Inv
<1> QED
  BY <1>2, <1>3

LEMMA StepGot ==
    ASSUME Inv, NEW t \in Threads, Types', Others(t), Got(t)
    PROVE  Inv'
<1> USE DEF Goto, chainVars
<1>0. PICK b \in Blocks : b = cur[t]
  BY DEF Got, Inv, Locals
<1>1. pc[t] = "got" /\ cur[t] = b /\ owner[b] = t
  BY <1>0 DEF Got, Inv, Owned
<1>2. /\ pc'[t] = "idle" /\ refs' = [refs EXCEPT ![b] = @ - 2]
      /\ UNCHANGED <<poolIndex, head, freeNext, should, chainVars>>
  BY <1>1 DEF Got, Inv, Types
<1>3. Holds(t, b) /\ Takes(t, b)
  BY <1>1 DEF Holds, Takes
<1>4. \A c : /\ ~Holds(t, c)' /\ ~Takes(t, c)' /\ ~Prepares(t, c) /\ ~Prepares(t, c)'
             /\ ~Pushes(t, c) /\ ~Pushes(t, c)' /\ ~Adds(t, c) /\ ~Adds(t, c)'
  BY <1>1, <1>2 DEF Holds, Takes, Prepares, Pushes, Adds
<1>5. refs'[b] = refs[b] - 2 /\ Elsewhere(t, b)
  BY <1>1, <1>2 DEF Elsewhere, Holds, Takes, Prepares, Pushes, Inv, Types
<1>6. owner[b] # "free"
  BY <1>1, OwnerNames
<1>7. \A u \in Threads : ~Adds(u, b)' /\ ~Prepares(u, b)' /\ ~Pushes(u, b)' /\ ~Takes(u, b)'
  <2>1. \A u \in Threads : ~Adds(u, b)
    BY <1>1, <1>6 DEF Inv, Added
  <2>2. \A u \in Threads \ {t} : ~Takes(u, b)
    BY <1>1, Counts
  <2> QED
    BY <1>4, <2>1, <2>2, OthersRoles DEF Adds
<1>8. Locals' /\ Owned'
  BY <1>2 DEF Inv, Locals, Owned, Others
<1>9. Added'
  BY <1>1, <1>2, <1>5, <1>7, ElsewhereAdded DEF Inv, Added
<1>10. Counted'
  <2>1. Cardinality(Holders(b))' = Cardinality(Holders(b)) - 1
    <3>1. Cardinality(Holders(b)) \in Nat
      BY <1>1, Counts
    <3> QED
      BY <1>3, <1>4, <3>1, HoldersChange, OthersRoles
  <2>2. ListRef(b)' = 0
    BY <1>2, <1>6, <1>7 DEF ListRef
  <2>3. refs'[b] = Cardinality(Holders(b))' + ListRef(b)'
    BY <1>1, <1>3, <1>5, <2>1, <2>2, Counts
  <2> QED
    BY <1>1, <1>5, <2>3, ElsewhereStep DEF Counted
<1>11. Linked'
  <2>1. Listed(b)' = Listed(b)
    BY <1>2, <1>6 DEF Listed
  <2> QED
    BY <1>1, <1>2, <1>5, <2>1, ElsewhereStep, LinkedFrame
<1> QED
  BY <1>8, <1>9, <1>10, <1>11 DEF Inv

LEMMA StepDrop ==
    ASSUME Inv, NEW t \in Threads, Types', Others(t), Drop(t)
    PROVE  Inv'
<1> USE DEF Goto, chainVars
<1>0. PICK b \in Blocks : b = node[t]
  BY DEF Drop, Inv, Locals
<1>1. pc[t] = "drop" /\ node[t] = b /\ Holds(t, b)
  BY <1>0 DEF Drop, Holds
<1>2. /\ refs' = [refs EXCEPT ![b] = @ - 1] /\ cur' = cur /\ seen' = seen
      /\ UNCHANGED <<poolIndex, head, freeNext, should, chainVars>>
      /\ \/ refs[b] = 1 /\ should[b] /\ pc'[t] = "load" /\ node'[t] = b
         \/ /\ ~(refs[b] = 1 /\ should[b])
            /\ pc'[t] \in {"alloc", "ref"}
            /\ pc'[t] = "ref" => cur[t] # NoBlock
  BY <1>1 DEF Drop, Inv, Types
<1>3. Cardinality(Holders(b)) >= 1 /\ refs[b] >= 1 /\ \A u \in Threads : ~Prepares(u, b)
  BY <1>1, Counts
<1>4. ~Holds(t, b)'
  BY <1>2 DEF Holds
<1>5. refs'[b] = refs[b] - 1 /\ Elsewhere(t, b)
  BY <1>1, <1>2 DEF Elsewhere, Holds, Takes, Prepares, Pushes, Inv, Types
<1>6. \A u \in Threads : Takes(u, b)' = Takes(u, b)
  BY <1>1, <1>2, OthersRoles DEF Takes
<1>7. Locals' /\ Owned'
  <2>1. /\ pc'[t] \in {"load", "alloc", "ref"} /\ cur' = cur
        /\ pc'[t] = "ref" => cur'[t] \in Blocks
        /\ pc'[t] = "load" => node'[t] \in Blocks
    BY <1>2 DEF Inv, Types, Pointer
  <2>2. Locals'
    BY <2>1 DEF Inv, Locals, Others
  <2> QED
    BY <1>2, <2>1, <2>2 DEF Inv, Owned, Others
<1>8. Counted'
  <2>1. Cardinality(Holders(b))' = Cardinality(Holders(b)) - 1
    BY <1>1, <1>3, <1>4, HoldersChange, OthersRoles, Counts
  <2>2. ListRef(b)' = ListRef(b)
    BY <1>2, <1>6 DEF ListRef
  <2>3. refs'[b] = Cardinality(Holders(b))' + ListRef(b)'
    BY <1>5, <2>1, <2>2, Counts
  <2> QED
    BY <1>5, <2>3, ElsewhereStep DEF Counted
<1>9. CASE refs[b] = 1 /\ should[b] /\ pc'[t] = "load" /\ node'[t] = b
  <2>1. \A u \in Threads : ~Adds(u, b)
    BY <1>3, <1>9 DEF Inv, Added, Adds
  <2>2. \A u \in Threads : /\ Adds(u, b)' => u = t
                           /\ ~Pushes(u, b)'
    BY <1>9, <2>1, OthersRoles DEF Adds, Pushes
  <2>3. owner'[b] = "free" /\ should'[b] /\ refs'[b] = 0
    BY <1>2, <1>5, <1>9 DEF Inv, Added
  <2>4. Added'
    BY <1>5, <2>2, <2>3, ElsewhereAdded
  <2>5. Listed(b)' = FALSE /\ Listed(b) = FALSE
    BY <1>9, <2>3 DEF Listed
  <2>6. Linked'
    BY <1>2, <1>5, <1>9, <2>5, ElsewhereStep, LinkedFrame DEF Listed
  <2> QED
    BY <1>7, <1>8, <2>4, <2>6 DEF Inv
<1>10. CASE pc'[t] \in {"alloc", "ref"}
  <2>1. \A u \in Threads : /\ Adds(u, b)' = Adds(u, b) /\ Prepares(u, b)' = Prepares(u, b)
                           /\ Pushes(u, b)' = Pushes(u, b)
    BY <1>1, <1>10, OthersRoles DEF Adds, Prepares, Pushes
  <2>2. Added'
    BY <1>2, <1>3, <1>5, <2>1, ElsewhereAdded DEF Inv, Added
  <2>3. Listed(b)' = Listed(b)
    BY <1>2, <2>1 DEF Listed
  <2>4. Linked'
    BY <1>2, <1>5, <1>10, <2>3, ElsewhereStep, LinkedFrame DEF Listed
  <2> QED
    BY <1>7, <1>8, <2>2, <2>4 DEF Inv
<1> QED
  BY <1>2, <1>9, <1>10

--------------------------------------------------------------------------------
(* Steps of an adder.                                                          *)

LEMMA StepLink ==
    ASSUME Inv, NEW t \in Threads, Types', Others(t), Link(t)
    PROVE  Inv'
<1> USE DEF Goto, chainVars
<1>0. PICK b \in Blocks : b = node[t]
  BY DEF Link, Inv, Locals
<1>1. pc[t] = "link" /\ node[t] = b /\ Prepares(t, b) /\ Adds(t, b)
  BY <1>0 DEF Link, Prepares, Adds
<1>2. /\ pc'[t] = "push" /\ freeNext' = [freeNext EXCEPT ![b] = seen[t]]
      /\ refs' = [refs EXCEPT ![b] = 1] /\ should' = [should EXCEPT ![b] = FALSE]
      /\ UNCHANGED <<poolIndex, head, chainVars, cur, node, seen>>
  BY <1>1 DEF Link, Inv, Types
<1>3. /\ should[b] /\ refs[b] = 0 /\ owner[b] = "free"
      /\ \A u \in Threads : Adds(u, b) => u = t
  BY <1>1 DEF Inv, Added
<1>4. \A u \in Threads : ~Holds(u, b) /\ ~Holds(u, b)'
  <2>1. \A u \in Threads : ~Holds(u, b)
    BY <1>1, <1>3, Counts
  <2> QED
    BY <1>2, <2>1, OthersRoles DEF Holds
<1>5. refs'[b] = 1 /\ should'[b] = FALSE /\ owner'[b] = "free" /\ Elsewhere(t, b)
  BY <1>1, <1>2, <1>3 DEF Elsewhere, Holds, Takes, Prepares, Pushes, Inv, Types
<1>6. \A u \in Threads : /\ Adds(u, b)' => u = t
                         /\ ~Prepares(u, b)'
  BY <1>2, <1>3, OthersRoles DEF Adds, Prepares
<1>7. Adds(t, b)'
  BY <1>1, <1>2 DEF Adds, Pushes
<1>8. Locals' /\ Owned'
  BY <1>1, <1>2 DEF Inv, Locals, Owned, Others
<1>9. Added'
  BY <1>5, <1>6, ElsewhereAdded
<1>10. Counted'
  <2>1. Cardinality(Holders(b)) = 0 /\ Cardinality(Holders(b))' = 0
    <3>1. Cardinality(Holders(b)) = 0
      BY <1>1, <1>3, Counts
    <3>2. Holders(b)' = Holders(b)
      BY <1>4 DEF Holders
    <3> QED
      BY <3>1, <3>2
  <2>2. ListRef(b)' = 1
    BY <1>5 DEF ListRef
  <2> QED
    BY <1>5, <2>1, <2>2, ElsewhereStep DEF Counted
<1>11. Linked'
  <2>1. ~Listed(b) /\ ~Listed(b)'
    BY <1>1, <1>7 DEF Listed
  <2>2. \A c : Listed(c) => c \in Blocks \ {b}
    BY <2>1 DEF Listed
  <2>3. \A c : Listed(c)' => c \in Blocks \ {b}
    BY <2>1 DEF Listed
  <2>4. \A c \in Blocks \ {b} : Listed(c)' = Listed(c) /\ freeNext'[c] = freeNext[c]
    BY <1>2, <1>5, ElsewhereStep DEF Inv, Types
  <2>5. freeNext'[b] = seen[t]
    BY <1>2 DEF Inv, Types
  <2>6. \A u \in Threads : pc'[u] = "swap" =>
           u # t /\ pc[u] = "swap" /\ cur[u] \in Blocks \ {b}
    BY <1>2, <1>4 DEF Others, Holds, Inv, Locals
  <2>7. \A u \in Threads \ {t} : pc'[u] = "push" =>
           pc[u] = "push" /\ node[u] \in Blocks \ {b}
    BY <1>2, <1>3 DEF Others, Adds, Pushes, Inv, Locals
  <2>8. \A u \in Threads : pc'[u] = "swap" => seen'[u] = freeNext'[cur'[u]]
    BY <1>2, <2>4, <2>6 DEF Inv, Linked
  <2>9. \A u \in Threads : pc'[u] = "push" => seen'[u] = freeNext'[node'[u]]
    BY <1>1, <1>2, <2>4, <2>5, <2>7 DEF Inv, Linked
  <2>10. head' # NoBlock => Listed(head)'
    BY <1>2, <2>2, <2>4 DEF Inv, Linked
  <2>11. \A c \in Blocks : Listed(c)' /\ freeNext'[c] # NoBlock =>
            /\ Listed(freeNext[c])' /\ freeNext'[c] # head'
            /\ \A d \in Blocks : Listed(d)' /\ freeNext'[d] = freeNext'[c] => d = c
    BY <1>2, <2>2, <2>3, <2>4 DEF Inv, Linked
  <2> QED
    BY <2>8, <2>9, <2>10, <2>11 DEF Linked
<1> QED
  BY <1>8, <1>9, <1>10, <1>11 DEF Inv

LEMMA StepPush ==
    ASSUME Inv, NEW t \in Threads, Types', Others(t), Push(t)
    PROVE  Inv'
<1> USE DEF Goto, chainVars
<1>0. PICK b \in Blocks : b = node[t]
  BY DEF Push, Inv, Locals
<1>1. pc[t] = "push" /\ node[t] = b /\ Pushes(t, b) /\ Adds(t, b) /\ freeNext[b] = head
  BY <1>0 DEF Push, Pushes, Adds, Inv, Linked
<1>2. /\ head' = b
      /\ UNCHANGED <<poolIndex, freeNext, refs, should, chainVars, cur>>
      /\ pc'[t] \in {"give", "alloc", "ref"}
      /\ pc'[t] = "ref" => cur[t] # NoBlock
  BY <1>1 DEF Push, After, Inv, Types
<1>3. /\ ~should[b] /\ owner[b] = "free"
      /\ \A u \in Threads : Adds(u, b) => u = t
  BY <1>1 DEF Inv, Added
<1>4. \A u \in Threads : ~Adds(u, b)'
  BY <1>2, <1>3, OthersRoles DEF Adds, Prepares, Pushes
<1>5. Elsewhere(t, b)
  BY <1>1, <1>2 DEF Elsewhere, Holds, Takes, Prepares, Pushes
<1>6. Locals' /\ Owned'
  <2>1. pc'[t] = "ref" => cur'[t] \in Blocks
    BY <1>2 DEF Inv, Types, Pointer
  <2>2. Locals'
    BY <1>2, <2>1 DEF Inv, Locals, Others
  <2> QED
    BY <1>2, <2>2 DEF Inv, Owned, Others
<1>7. Added'
  BY <1>2, <1>3, <1>4, <1>5, ElsewhereAdded DEF Adds
<1>8. Counted'
  <2>1. \A u \in Threads : /\ Holds(u, b)' = Holds(u, b)
                           /\ Takes(u, b)' = Takes(u, b)
    BY <1>1, <1>2, OthersRoles DEF Holds, Takes
  <2>2. Holders(b)' = Holders(b) /\ ListRef(b)' = ListRef(b)
    BY <1>2, <2>1 DEF Holders, ListRef
  <2> QED
    BY <1>2, <1>5, <2>2, Counts, ElsewhereStep DEF Counted
<1>9. Linked'
  <2>1. ~Listed(b) /\ Listed(b)'
    BY <1>1, <1>2, <1>3, <1>4 DEF Listed
  <2>2. \A c : /\ Listed(c) => c \in Blocks \ {b}
               /\ Listed(c)' => c \in Blocks
    BY <2>1 DEF Listed
  <2>3. \A c \in Blocks \ {b} : Listed(c)' = Listed(c)
    BY <1>5, ElsewhereStep
  <2>4. \A u \in Threads : pc'[u] = "swap" => seen'[u] = freeNext'[cur'[u]]
    BY <1>2 DEF Others, Inv, Linked
  <2>5. \A u \in Threads : pc'[u] = "push" => seen'[u] = freeNext'[node'[u]]
    BY <1>2 DEF Others, Inv, Linked
  <2>6. ASSUME NEW c \in Blocks, Listed(c)', freeNext[c] # NoBlock
        PROVE  /\ Listed(freeNext[c])' /\ freeNext[c] # b
               /\ \A d \in Blocks : Listed(d)' /\ freeNext[d] = freeNext[c] => d = c
    <3>1. CASE c = b
      <4>1. Listed(head) /\ head # b
        BY <1>1, <2>2, <2>6, <3>1 DEF Inv, Linked
      <4>2. \A d \in Blocks \ {b} : Listed(d)' => freeNext[d] # head
        BY <1>1, <2>3, <2>6, <3>1 DEF Inv, Linked
      <4> QED
        BY <1>1, <1>2, <2>2, <2>3, <3>1, <4>1, <4>2
    <3>2. CASE c # b
      <4>1. Listed(c)
        BY <2>3, <2>6, <3>2
      <4>2. /\ Listed(freeNext[c]) /\ freeNext[c] # head
            /\ \A d \in Blocks : Listed(d) /\ freeNext[d] = freeNext[c] => d = c
        BY <2>6, <4>1 DEF Inv, Linked
      <4> QED
        BY <1>1, <1>2, <2>2, <2>3, <4>2
    <3> QED
      BY <3>1, <3>2
  <2>7. head' # NoBlock => Listed(head)'
    BY <1>2, <2>1
  <2> QED
    BY <1>2, <2>4, <2>5, <2>6, <2>7 DEF Linked
<1> QED
  BY <1>6, <1>7, <1>8, <1>9 DEF Inv

LEMMA StepRetract ==
    ASSUME Inv, NEW t \in Threads, Types', Others(t), Retract(t)
    PROVE  Inv'
<1> USE DEF Goto, chainVars
<1>0. PICK b \in Blocks : b = node[t]
  BY DEF Retract, Inv, Locals
<1>1. pc[t] = "retract" /\ node[t] = b /\ Pushes(t, b) /\ Adds(t, b)
  BY <1>0 DEF Retract, Pushes, Adds
<1>2. /\ refs' = [refs EXCEPT ![b] = @ - 1] /\ should' = [should EXCEPT ![b] = TRUE]
      /\ UNCHANGED <<poolIndex, head, freeNext, chainVars, cur>>
      /\ \/ refs[b] = 1 /\ pc'[t] = "link" /\ node'[t] = b
         \/ /\ pc'[t] \in {"give", "alloc", "ref"}
            /\ pc'[t] = "ref" => cur[t] # NoBlock
  BY <1>1 DEF Retract, After, Inv, Types
<1>3. /\ ~should[b] /\ owner[b] = "free" /\ ListRef(b) = 1 /\ refs[b] >= 1
      /\ \A u \in Threads : Adds(u, b) => u = t
  <2>1. \A u \in Threads : Adds(u, b) => u = t
    BY <1>1 DEF Inv, Added
  <2>2. ~should[b]
    BY <1>1 DEF Inv, Added
  <2> QED
    BY <1>1, <2>1, <2>2, Counts
<1>4. refs'[b] = refs[b] - 1 /\ should'[b] /\ owner'[b] = "free" /\ Elsewhere(t, b)
  BY <1>1, <1>2, <1>3 DEF Elsewhere, Holds, Takes, Prepares, Pushes, Inv, Types
<1>5. \A u \in Threads : /\ Adds(u, b)' => u = t /\ pc'[t] = "link" /\ refs[b] = 1
                         /\ ~Pushes(u, b)'
  BY <1>2, <1>3, OthersRoles DEF Adds, Prepares, Pushes
<1>6. Locals' /\ Owned'
  <2>1. /\ pc'[t] \in {"link", "give", "alloc", "ref"} /\ cur' = cur
        /\ pc'[t] = "ref" => cur'[t] \in Blocks
        /\ pc'[t] = "link" => node'[t] \in Blocks
    BY <1>2 DEF Inv, Types, Pointer
  <2>2. Locals'
    BY <2>1 DEF Inv, Locals, Others
  <2> QED
    BY <1>2, <2>1, <2>2 DEF Inv, Owned, Others
<1>7. Added'
  BY <1>4, <1>5, ElsewhereAdded DEF Adds
<1>8. Counted'
  <2>1. \A u \in Threads : /\ Holds(u, b)' = Holds(u, b)
                           /\ ~Takes(u, b)'
    <3>1. \A u \in Threads : ~Takes(u, b)
      BY <1>3, Counts, OwnerNames
    <3> QED
      BY <1>1, <1>2, <3>1, OthersRoles DEF Holds, Takes
  <2>2. Holders(b)' = Holders(b) /\ ListRef(b)' = 0
    BY <1>4, <2>1 DEF Holders, ListRef
  <2> QED
    BY <1>3, <1>4, <2>2, Counts, ElsewhereStep DEF Counted
<1>9. Linked'
  <2>1. Listed(b)' = FALSE /\ Listed(b) = FALSE
    BY <1>1, <1>4 DEF Listed
  <2> QED
    BY <1>2, <1>4, <2>1, ElsewhereStep, LinkedFrame DEF Listed
<1> QED
  BY <1>6, <1>7, <1>8, <1>9 DEF Inv

--------------------------------------------------------------------------------
(* Steps that hand a block to a thread or take it away.                        *)

\* The chains own their blocks, each of them once.
Chained ==
    \A t \in Threads : \A i \in 1..Len(chain[t]) :
       /\ owner[chain[t][i]] = t
       /\ \A j \in 1..Len(chain[t]) : chain[t][i] = chain[t][j] => i = j

LEMMA HandChained ==
    ASSUME Inv, Types', NEW t \in Threads, NEW b \in Blocks, Hand(t, b),
           owner[b] \notin Threads
    PROVE  Chained'
<1>1. Chained
  BY DEF Inv, Owned, Chained
<1>2. \A u \in Threads : \A i \in 1..Len(chain[u]) :
         chain[u][i] \in Blocks \ {b} /\ owner'[chain[u][i]] = u
  BY <1>1 DEF Chained, Inv, Types, Hand
<1>3. owner'[b] = t
  BY DEF Hand, Inv, Types
<1>4. chain[t] \in Seq(Blocks) /\ Len(chain[t]) \in Nat
  BY DEF Inv, Types
<1>5. /\ Len(chain'[t]) = Len(chain[t]) + 1 /\ chain'[t][1] = b
      /\ \A i \in 2..Len(chain'[t]) : /\ i - 1 \in 1..Len(chain[t])
                                      /\ chain'[t][i] = chain[t][i - 1]
  <2>1. chain'[t] = <<b>> \o chain[t]
    BY DEF Hand, Inv, Types
  <2> QED
    BY <1>4, <2>1
<1>6. \A u \in Threads \ {t} : chain'[u] = chain[u]
  BY DEF Hand, Inv, Types
<1>7. ASSUME NEW i \in 1..Len(chain'[t])
      PROVE  /\ owner'[chain'[t][i]] = t
             /\ \A j \in 1..Len(chain'[t]) : chain'[t][i] = chain'[t][j] => i = j
  <2>1. \A k \in 1..Len(chain'[t]) : k = 1 \/ k \in 2..Len(chain'[t])
    BY <1>4, <1>5
  <2>2. CASE i = 1
    BY <1>2, <1>3, <1>5, <2>1, <2>2
  <2>3. CASE i \in 2..Len(chain'[t])
    <3>1. i - 1 \in 1..Len(chain[t]) /\ chain'[t][i] = chain[t][i - 1]
      BY <1>5, <2>3
    <3>2. ASSUME NEW j \in 1..Len(chain'[t]), chain'[t][i] = chain'[t][j]
          PROVE  i = j
      <4>1. j # 1
        BY <1>2, <1>5, <3>1, <3>2
      <4>2. j - 1 \in 1..Len(chain[t]) /\ chain'[t][j] = chain[t][j - 1]
        BY <1>5, <2>1, <4>1
      <4>3. chain[t][i - 1] = chain[t][j - 1]
        BY <3>1, <3>2, <4>2
      <4>4. i - 1 = j - 1
        BY <1>1, <3>1, <4>2, <4>3 DEF Chained
      <4> QED
        BY <4>4
    <3> QED
      BY <1>2, <3>1, <3>2
  <2> QED
    BY <2>1, <2>2, <2>3
<1> QED
  BY <1>1, <1>2, <1>6, <1>7 DEF Chained

LEMMA TailChained ==
    ASSUME Inv, Types', NEW t \in Threads, NEW b \in Blocks, NEW x,
           chain[t] # <<>>, b = chain[t][1],
           chain' = [chain EXCEPT ![t] = Tail(@)], owner' = [owner EXCEPT ![b] = x]
    PROVE  Chained'
<1>1. Chained
  BY DEF Inv, Owned, Chained
<1>2. chain[t] \in Seq(Blocks) /\ Len(chain[t]) \in Nat /\ Len(chain[t]) >= 1
  BY DEF Inv, Types
<1>3. owner[b] = t
  BY <1>1, <1>2 DEF Chained
<1>4. \A u \in Threads \ {t} : \A i \in 1..Len(chain[u]) :
         chain[u][i] \in Blocks \ {b} /\ owner'[chain[u][i]] = u
  <2>1. \A u \in Threads : chain[u] \in Seq(Blocks)
    BY DEF Inv, Types
  <2>2. \A u \in Threads \ {t} : \A i \in 1..Len(chain[u]) :
           chain[u][i] \in Blocks /\ owner[chain[u][i]] = u /\ chain[u][i] # b
    BY <1>1, <1>3, <2>1 DEF Chained
  <2>3. \A c \in Blocks \ {b} : owner'[c] = owner[c]
    BY DEF Inv, Types
  <2> QED
    BY <2>2, <2>3
<1>5. \A u \in Threads \ {t} : chain'[u] = chain[u]
  BY DEF Inv, Types
<1>6. /\ Len(chain'[t]) = Len(chain[t]) - 1
      /\ \A i \in 1..Len(chain'[t]) : /\ i + 1 \in 2..Len(chain[t])
                                      /\ chain'[t][i] = chain[t][i + 1]
  <2>1. chain'[t] = Tail(chain[t])
    BY DEF Inv, Types
  <2>2. /\ Len(Tail(chain[t])) = Len(chain[t]) - 1
        /\ \A i \in 1..Len(Tail(chain[t])) : Tail(chain[t])[i] = chain[t][i + 1]
    BY <1>2, HeadTailProperties
  <2>3. /\ Len(chain'[t]) = Len(chain[t]) - 1
        /\ \A i \in 1..Len(chain'[t]) : chain'[t][i] = chain[t][i + 1]
    BY <2>1, <2>2, Zenon
  <2>4. \A i \in 1..Len(chain'[t]) : i + 1 \in 2..Len(chain[t])
    BY <1>2, <2>3
  <2> QED
    BY <2>3, <2>4
<1>7. \A i \in 2..Len(chain[t]) : chain[t][i] \in Blocks \ {b} /\ owner'[chain[t][i]] = t
  <2>1. ASSUME NEW i \in 2..Len(chain[t])
        PROVE  chain[t][i] \in Blocks \ {b} /\ owner[chain[t][i]] = t
    <3>1. i \in 1..Len(chain[t]) /\ 1 \in 1..Len(chain[t]) /\ i # 1
      BY <1>2
    <3> QED
      BY <1>1, <1>2, <3>1 DEF Chained
  <2> QED
    BY <2>1 DEF Inv, Types
<1>8. ASSUME NEW i \in 1..Len(chain'[t])
      PROVE  /\ owner'[chain'[t][i]] = t
             /\ \A j \in 1..Len(chain'[t]) : chain'[t][i] = chain'[t][j] => i = j
  <2>1. i + 1 \in 1..Len(chain[t]) /\ owner'[chain'[t][i]] = t
    BY <1>2, <1>6, <1>7
  <2>2. ASSUME NEW j \in 1..Len(chain'[t]), chain'[t][i] = chain'[t][j]
        PROVE  i = j
    <3>1. j + 1 \in 1..Len(chain[t]) /\ chain[t][i + 1] = chain[t][j + 1]
      BY <1>2, <1>6, <2>2
    <3>2. i + 1 = j + 1
      BY <1>1, <2>1, <3>1 DEF Chained
    <3> QED
      BY <3>2
  <2> QED
    BY <2>1, <2>2
<1> QED
  BY <1>1, <1>4, <1>5, <1>8 DEF Chained

LEMMA StepSwapHead ==
    ASSUME Inv, NEW t \in Threads, Types', Others(t), SwapHead(t)
    PROVE  Inv'
<1> USE DEF Goto
<1>0. PICK b \in Blocks : b = cur[t]
  BY DEF SwapHead, Inv, Locals
<1>1. pc[t] = "swap" /\ cur[t] = b /\ head = b /\ b # NoBlock /\ Hand(t, b)
  BY <1>0, PoolAssumption DEF SwapHead, Blocks, NoBlock
<1>2. /\ pc'[t] = "got" /\ head' = freeNext[b]
      /\ UNCHANGED <<poolIndex, freeNext, refs, should, cur, node>>
  BY <1>1 DEF SwapHead, Inv, Types, Linked
<1>3. Listed(b) /\ owner[b] = "free" /\ ~should[b] /\ \A u \in Threads : ~Adds(u, b)
  BY <1>1 DEF Inv, Linked, Listed
<1>4. owner'[b] = t /\ owner'[b] # "free" /\ owner[b] \notin Threads
  BY <1>1, <1>3, OwnerNames DEF Hand, Inv, Types
<1>5. Elsewhere(t, b)
  BY <1>1, <1>2 DEF Elsewhere, Hand, Holds, Takes, Prepares, Pushes, Inv, Types
<1>6. \A u \in Threads : ~Adds(u, b)' /\ ~Prepares(u, b)' /\ ~Pushes(u, b)'
  BY <1>2, <1>3, OthersRoles DEF Adds, Prepares, Pushes
<1>7. Locals'
  BY <1>1, <1>2 DEF Inv, Locals, Others
<1>8. Owned'
  <2>1. Chained'
    BY <1>1, <1>4, HandChained
  <2>2. \A u \in Threads : pc'[u] = "got" => owner'[cur'[u]] = u
    <3>1. ASSUME NEW u \in Threads \ {t}, pc'[u] = "got"
          PROVE  owner'[cur'[u]] = u
      <4>1. pc[u] = "got" /\ cur'[u] = cur[u] /\ cur[u] \in Blocks /\ owner[cur[u]] = u
        BY <3>1 DEF Others, Inv, Locals, Owned
      <4> QED
        BY <1>4, <1>5, <4>1 DEF Elsewhere
    <3> QED
      BY <1>1, <1>2, <1>4, <3>1
  <2>3. \A c \in Blocks : poolIndex' < c /\ c <= PoolSize => owner'[c] = "pool"
    BY <1>2, <1>3, <1>5 DEF Elsewhere, Inv, Owned
  <2> QED
    BY <2>1, <2>2, <2>3 DEF Owned, Chained
<1>9. Added'
  BY <1>2, <1>3, <1>5, <1>6, ElsewhereAdded
<1>10. Counted'
  <2>1. \A u \in Threads : Holds(u, b)' = Holds(u, b)
    BY <1>1, <1>2, OthersRoles DEF Holds
  <2>2. Holders(b)' = Holders(b)
    BY <2>1 DEF Holders
  <2>3. ListRef(b) = 1
    BY <1>3 DEF ListRef
  <2>4. ListRef(b)' = 1
    BY <1>1, <1>2 DEF ListRef, Takes
  <2> QED
    BY <1>2, <1>5, <2>2, <2>3, <2>4, Counts, ElsewhereStep DEF Counted
<1>11. Linked'
  <2>1. ~Listed(b)'
    BY <1>4 DEF Listed
  <2>2. \A c : /\ Listed(c)' => c \in Blocks \ {b}
               /\ Listed(c) => c \in Blocks
    BY <2>1 DEF Listed
  <2>3. \A c \in Blocks \ {b} : Listed(c)' = Listed(c)
    BY <1>5, ElsewhereStep
  <2>4. \A u \in Threads : pc'[u] = "swap" => seen'[u] = freeNext'[cur'[u]]
    BY <1>2 DEF Others, Inv, Linked
  <2>5. \A u \in Threads : pc'[u] = "push" => seen'[u] = freeNext'[node'[u]]
    BY <1>2 DEF Others, Inv, Linked
  <2>6. \A c \in Blocks : Listed(c) /\ freeNext[c] # NoBlock =>
           /\ Listed(freeNext[c]) /\ freeNext[c] # b
           /\ \A d \in Blocks : Listed(d) /\ freeNext[d] = freeNext[c] => d = c
    BY <1>1 DEF Inv, Linked
  <2>7. freeNext[b] # NoBlock => Listed(freeNext[b])'
    BY <1>2, <1>3, <2>2, <2>3, <2>6
  <2>8. \A c \in Blocks : Listed(c)' /\ freeNext[c] # NoBlock =>
           /\ Listed(freeNext[c])' /\ freeNext[c] # freeNext[b]
           /\ \A d \in Blocks : Listed(d)' /\ freeNext[d] = freeNext[c] => d = c
    BY <1>2, <1>3, <2>2, <2>3, <2>6
  <2>9. head' # NoBlock => Listed(head)'
    BY <1>2, <2>7
  <2> QED
    BY <1>2, <2>4, <2>5, <2>8, <2>9 DEF Linked
<1> QED
  BY <1>7, <1>8, <1>9, <1>10, <1>11 DEF Inv

\* A block that was never used goes to a thread.
LEMMA HandNew ==
    ASSUME Inv, NEW t \in Threads, Types', Others(t), NEW b \in Blocks, Hand(t, b),
           owner[b] \in {"pool", "unmade"},
           UNCHANGED <<listVars, cur, node, seen>>,
           pc[t] \in {"take", "alloc"}, pc'[t] = "idle",
           poolIndex' >= poolIndex, poolIndex' < b => PoolSize < b
    PROVE  Inv'
<1> USE DEF listVars
<1>1. owner'[b] = t /\ owner'[b] # "free" /\ owner[b] # "free" /\ owner[b] \notin Threads
  BY OwnerNames DEF Hand, Inv, Types
<1>2. Elsewhere(t, b)
  BY DEF Elsewhere, Hand, Holds, Takes, Prepares, Pushes, Inv, Types
<1>3. ~should[b] /\ \A u \in Threads : ~Adds(u, b) /\ ~Takes(u, b)
  BY <1>1, Counts DEF Inv, Added
<1>4. \A u \in Threads : ~Adds(u, b)' /\ ~Prepares(u, b)' /\ ~Pushes(u, b)' /\ ~Takes(u, b)'
  BY <1>3, OthersRoles DEF Adds, Prepares, Pushes, Takes
<1>5. Locals'
  BY DEF Inv, Locals, Others
<1>6. Owned'
  <2>1. Chained'
    BY <1>1, HandChained
  <2>2. ASSUME NEW u \in Threads, pc'[u] = "got"
        PROVE  owner'[cur'[u]] = u
    <3>1. pc[u] = "got" /\ cur'[u] = cur[u] /\ cur[u] \in Blocks /\ owner[cur[u]] = u
      BY <2>2 DEF Others, Inv, Locals, Owned
    <3> QED
      BY <1>1, <1>2, <3>1 DEF Elsewhere
  <2>3. \A c \in Blocks : poolIndex' < c /\ c <= PoolSize => poolIndex < c /\ c # b
    BY PoolAssumption DEF Inv, Types, Blocks
  <2>4. \A c \in Blocks : poolIndex' < c /\ c <= PoolSize => owner'[c] = "pool"
    BY <1>2, <2>3 DEF Elsewhere, Inv, Owned
  <2> QED
    BY <2>1, <2>2, <2>4 DEF Owned, Chained
<1>7. Added'
  BY <1>2, <1>3, <1>4, ElsewhereAdded
<1>8. Counted'
  <2>1. \A u \in Threads : Holds(u, b)' = Holds(u, b)
    BY OthersRoles DEF Holds
  <2>2. Holders(b)' = Holders(b)
    BY <2>1 DEF Holders
  <2>3. ListRef(b) = 0 /\ ListRef(b)' = 0
    BY <1>1, <1>3, <1>4 DEF ListRef
  <2> QED
    BY <1>2, <2>2, <2>3, Counts, ElsewhereStep DEF Counted
<1>9. Linked'
  <2>1. Listed(b) = FALSE /\ Listed(b)' = FALSE
    BY <1>1 DEF Listed
  <2> QED
    BY <1>2, <2>1, ElsewhereStep, LinkedFrame DEF Listed
<1> QED
  BY <1>5, <1>6, <1>7, <1>8, <1>9 DEF Inv

LEMMA StepTakeFromPool ==
    ASSUME Inv, NEW t \in Threads, Types', Others(t), TakeFromPool(t)
    PROVE  Inv'
<1> USE DEF Goto
<1>1. /\ poolIndex \in Nat /\ poolIndex' = poolIndex + 1 /\ poolIndex' >= poolIndex
      /\ pc[t] = "take" /\ UNCHANGED <<listVars, cur, node, seen>>
  BY DEF TakeFromPool, Inv, Types
<1>2. CASE poolIndex < PoolSize
  <2>1. PICK b \in Blocks : b = poolIndex + 1
    BY <1>1, <1>2, PoolAssumption DEF Blocks
  <2>2. Hand(t, b) /\ pc'[t] = "idle"
    BY <1>2, <2>1 DEF TakeFromPool, Inv, Types
  <2>3. owner[b] = "pool" /\ ~(poolIndex' < b)
    BY <1>1, <1>2, <2>1, PoolAssumption DEF Inv, Owned
  <2> QED
    BY <1>1, <2>2, <2>3, HandNew
<1>3. CASE ~(poolIndex < PoolSize)
  <2>1. pc'[t] = "get" /\ UNCHANGED chainVars
    BY <1>3 DEF TakeFromPool, Inv, Types
  <2> QED
    BY <1>1, <2>1, QuietStep DEF Holds, Prepares, Pushes
<1> QED
  BY <1>2, <1>3

LEMMA StepAllocate ==
    ASSUME Inv, NEW t \in Threads, Types', Others(t), Allocate(t)
    PROVE  Inv'
<1> USE DEF Goto
<1>1. PICK b \in Dynamic : owner[b] = "unmade" /\ Hand(t, b)
  BY DEF Allocate
<1>2. b \in Blocks /\ PoolSize < b
  BY PoolAssumption DEF Dynamic, Blocks
<1>3. /\ pc[t] = "alloc" /\ pc'[t] = "idle" /\ UNCHANGED <<listVars, cur, node, seen>>
      /\ poolIndex' = poolIndex /\ poolIndex' >= poolIndex
  BY DEF Allocate, Inv, Types
<1> QED
  BY <1>1, <1>2, <1>3, HandNew

\* The front block of a chain, which nobody else owns.
LEMMA FrontOwned ==
    ASSUME Inv, NEW t \in Threads, pc[t] = "give", chain[t] # <<>>
    PROVE  \E b \in Blocks :
              /\ b = Head(chain[t]) /\ b = chain[t][1] /\ owner[b] = t /\ owner[b] # "free"
              /\ ~should[b] /\ \A u \in Threads : ~Adds(u, b) /\ ~Takes(u, b)
<1>1. chain[t] \in Seq(Blocks) /\ Len(chain[t]) >= 1
  BY DEF Inv, Types
<1>2. PICK b \in Blocks : b = Head(chain[t]) /\ b = chain[t][1]
  BY <1>1
<1>3. owner[b] = t /\ owner[b] # "free"
  BY <1>1, <1>2, OwnerNames DEF Inv, Owned
<1>4. ~should[b] /\ \A u \in Threads : ~Adds(u, b) /\ ~Takes(u, b)
  <2>1. \A u \in Threads : Takes(u, b) => u = t
    BY <1>3, Counts
  <2>2. ~Takes(t, b)
    BY DEF Takes
  <2> QED
    BY <1>3, <2>1, <2>2 DEF Inv, Added
<1> QED
  BY <1>2, <1>3, <1>4

\* Its thread parts with it.
LEMMA GiveOwned ==
    ASSUME Inv, NEW t \in Threads, Types', Others(t), NEW b \in Blocks, NEW x,
           pc[t] = "give", chain[t] # <<>>, b = chain[t][1], owner[b] = t,
           chain' = [chain EXCEPT ![t] = Tail(@)], owner' = [owner EXCEPT ![b] = x],
           pc'[t] # "got", poolIndex' = poolIndex
    PROVE  Owned'
<1>1. Chained'
  BY TailChained
<1>2. ASSUME NEW u \in Threads, pc'[u] = "got"
      PROVE  owner'[cur'[u]] = u
  <2>1. u # t /\ pc[u] = "got" /\ cur'[u] = cur[u] /\ cur[u] \in Blocks /\ owner[cur[u]] = u
    BY <1>2 DEF Others, Inv, Locals, Owned
  <2> QED
    BY <2>1 DEF Inv, Types
<1>3. \A c \in Blocks : poolIndex' < c /\ c <= PoolSize => owner'[c] = "pool"
  BY OwnerNames DEF Inv, Owned, Types
<1> QED
  BY <1>1, <1>2, <1>3 DEF Owned, Chained

LEMMA StepGiveDestroy ==
    ASSUME Inv, NEW t \in Threads, Types', Others(t), GiveDestroy(t)
    PROVE  Inv'
<1> USE DEF Goto
<1>0. pc[t] = "give" /\ pc'[t] = "give" /\ chain[t] # <<>>
  BY DEF GiveDestroy, Inv, Types
<1>1. PICK b \in Blocks :
         /\ b = Head(chain[t]) /\ b = chain[t][1] /\ owner[b] = t /\ owner[b] # "free"
         /\ ~should[b] /\ \A u \in Threads : ~Adds(u, b) /\ ~Takes(u, b)
  BY <1>0, FrontOwned
<1>2. /\ owner' = [owner EXCEPT ![b] = "gone"] /\ chain' = [chain EXCEPT ![t] = Tail(@)]
      /\ UNCHANGED <<poolIndex, listVars, cur, node, seen>>
  BY <1>1 DEF GiveDestroy
<1>3. owner'[b] = "gone"
  BY <1>2 DEF Inv, Types
<1>4. Elsewhere(t, b)
  BY <1>0, <1>2 DEF Elsewhere, listVars, Holds, Takes, Prepares, Pushes, Inv, Types
<1>5. \A u \in Threads : ~Adds(u, b)' /\ ~Prepares(u, b)' /\ ~Pushes(u, b)' /\ ~Takes(u, b)'
  BY <1>0, <1>1, OthersRoles DEF Adds, Prepares, Pushes, Takes
<1>6. Locals' /\ Owned'
  <2>1. Locals'
    BY <1>0 DEF Inv, Locals, Others
  <2> QED
    BY <1>0, <1>1, <1>2, <2>1, GiveOwned
<1>7. Added'
  BY <1>1, <1>2, <1>4, <1>5, ElsewhereAdded DEF listVars
<1>8. Counted'
  <2>1. \A u \in Threads : Holds(u, b)' = Holds(u, b)
    BY <1>0, OthersRoles DEF Holds
  <2>2. Holders(b)' = Holders(b)
    BY <2>1 DEF Holders
  <2>3. ListRef(b) = 0 /\ ListRef(b)' = 0
    BY <1>1, <1>3, <1>5 DEF ListRef
  <2> QED
    BY <1>2, <1>4, <2>2, <2>3, Counts, ElsewhereStep DEF Counted, listVars
<1>9. Linked'
  <2>1. Listed(b) = FALSE /\ Listed(b)' = FALSE
    BY <1>1, <1>3 DEF Listed
  <2> QED
    BY <1>0, <1>2, <1>4, <2>1, ElsewhereStep, LinkedFrame DEF Listed, listVars
<1> QED
  BY <1>6, <1>7, <1>8, <1>9 DEF Inv

LEMMA StepGiveOne ==
    ASSUME Inv, NEW t \in Threads, Types', Others(t), GiveOne(t)
    PROVE  Inv'
<1> USE DEF Goto
<1>0. pc[t] = "give" /\ chain[t] # <<>>
  BY DEF GiveOne
<1>1. PICK b \in Blocks :
         /\ b = Head(chain[t]) /\ b = chain[t][1] /\ owner[b] = t /\ owner[b] # "free"
         /\ ~should[b] /\ \A u \in Threads : ~Adds(u, b) /\ ~Takes(u, b)
  BY <1>0, FrontOwned
<1>2. /\ should' = [should EXCEPT ![b] = TRUE] /\ owner' = [owner EXCEPT ![b] = "free"]
      /\ chain' = [chain EXCEPT ![t] = Tail(@)]
      /\ UNCHANGED <<poolIndex, head, freeNext, refs, cur, seen>>
      /\ \/ refs[b] = 0 /\ pc'[t] = "load" /\ node'[t] = b
         \/ refs[b] # 0 /\ pc'[t] = "give"
  BY <1>1 DEF GiveOne, Inv, Types
<1>3. owner'[b] = "free" /\ should'[b]
  BY <1>2 DEF Inv, Types
<1>4. Elsewhere(t, b)
  BY <1>0, <1>2 DEF Elsewhere, Holds, Takes, Prepares, Pushes, Inv, Types
<1>5. \A u \in Threads : /\ Adds(u, b)' => u = t
                         /\ Prepares(u, b)' => refs[b] = 0
                         /\ ~Pushes(u, b)' /\ ~Takes(u, b)'
  BY <1>0, <1>1, <1>2, OthersRoles DEF Adds, Prepares, Pushes, Takes
<1>6. Locals' /\ Owned'
  <2>1. Locals'
    BY <1>0, <1>2 DEF Inv, Locals, Others
  <2>2. pc'[t] # "got"
    BY <1>2
  <2> QED
    BY <1>0, <1>1, <1>2, <2>1, <2>2, GiveOwned
<1>7. Added'
  BY <1>2, <1>3, <1>4, <1>5, ElsewhereAdded
<1>8. Counted'
  <2>1. \A u \in Threads : Holds(u, b)' = Holds(u, b)
    BY <1>0, <1>2, OthersRoles DEF Holds
  <2>2. Holders(b)' = Holders(b)
    BY <2>1 DEF Holders
  <2>3. ListRef(b) = 0 /\ ListRef(b)' = 0
    BY <1>1, <1>3, <1>5 DEF ListRef
  <2> QED
    BY <1>2, <1>4, <2>2, <2>3, Counts, ElsewhereStep DEF Counted
<1>9. Linked'
  <2>1. Listed(b) = FALSE /\ Listed(b)' = FALSE
    BY <1>1, <1>3 DEF Listed
  <2> QED
    BY <1>2, <1>4, <2>1, ElsewhereStep, LinkedFrame DEF Listed
<1> QED
  BY <1>6, <1>7, <1>8, <1>9 DEF Inv

--------------------------------------------------------------------------------
(* The invariant holds.                                                        *)

LEMMA InvInit == Init => Inv
<1> SUFFICES ASSUME Init PROVE Inv
  OBVIOUS
<1> USE DEF Init
<1>1. Types
  BY PoolAssumption DEF Types, Owners, Steps, Pointer
<1>2. \A t \in Threads, b \in Blocks :
         ~Holds(t, b) /\ ~Takes(t, b) /\ ~Adds(t, b) /\ ~Prepares(t, b) /\ ~Pushes(t, b)
  BY DEF Holds, Takes, Adds, Prepares, Pushes
<1>3. \A b \in Blocks : owner[b] # "free" /\ (b <= PoolSize => owner[b] = "pool")
  BY PoolAssumption DEF Dynamic, Blocks
<1>4. Locals /\ Owned
  BY <1>3 DEF Locals, Owned
<1>5. Added
  BY <1>2 DEF Added
<1>6. Counted
  <2>1. \A b \in Blocks : Holders(b) = {} /\ ListRef(b) = 0
    BY <1>2, <1>3 DEF Holders, ListRef
  <2>2. Cardinality({}) = 0
    BY FS_EmptySet
  <2>3. \A b \in Blocks : Cardinality(Holders(b)) = 0 /\ ListRef(b) = 0
    BY <2>1, <2>2, Zenon
  <2>4. \A b \in Blocks : refs[b] = 0
    OBVIOUS
  <2> QED
    BY <2>3, <2>4 DEF Counted
<1>7. Linked
  BY <1>3 DEF Linked, Listed
<1> QED
  BY <1>1, <1>4, <1>5, <1>6, <1>7 DEF Inv

\* No count becomes negative: who drops a reference has one.
LEMMA CountsStayNatural ==
    ASSUME Inv, NEW t \in Threads, Step(t)
    PROVE  refs' \in [Blocks -> Nat]
<1> USE DEF Goto
<1>0. refs \in [Blocks -> Nat]
  BY DEF Inv, Types
<1>1. CASE UNCHANGED refs
  BY <1>0, <1>1
<1>2. CASE RefHead(t) \/ Link(t)
  BY <1>0, <1>2 DEF RefHead, Link
<1>3. CASE Got(t)
  <2>1. PICK b \in Blocks : b = cur[t] /\ Takes(t, b)
    BY <1>3 DEF Got, Takes, Inv, Locals
  <2>2. refs[b] >= 2 /\ refs' = [refs EXCEPT ![b] = @ - 2]
    BY <1>3, <2>1, Counts DEF Got
  <2> QED
    BY <1>0, <2>2
<1>4. CASE Drop(t)
  <2>1. PICK b \in Blocks : b = node[t] /\ Holds(t, b)
    BY <1>4 DEF Drop, Holds, Inv, Locals
  <2>2. refs[b] >= 1 /\ refs' = [refs EXCEPT ![b] = @ - 1]
    BY <1>4, <2>1, Counts DEF Drop
  <2> QED
    BY <1>0, <2>2
<1>5. CASE Retract(t)
  <2>1. PICK b \in Blocks : b = node[t] /\ Pushes(t, b)
    BY <1>5 DEF Retract, Pushes, Inv, Locals
  <2>2. refs[b] >= 1 /\ refs' = [refs EXCEPT ![b] = @ - 1]
    BY <1>5, <2>1, Counts DEF Retract
  <2> QED
    BY <1>0, <2>2
<1>6. \/ UNCHANGED refs \/ RefHead(t) \/ Link(t) \/ Got(t) \/ Drop(t) \/ Retract(t)
  BY DEF Step, TryGet, Add, Requisition, TakeFromPool, Allocate, GetNothing, LoadHead,
         ReadNext, SwapHead, SwapFails, LoadForAdd, Push, PushFails, GiveBack, GiveDone,
         GiveDestroy, GiveOne, listVars
<1> QED
  BY <1>1, <1>2, <1>3, <1>4, <1>5, <1>6

LEMMA InvStep == Inv /\ [Next]_vars => Inv'
<1> SUFFICES ASSUME Inv, [Next]_vars PROVE Inv'
  OBVIOUS
<1>1. ASSUME NEW t \in Threads, Step(t) PROVE Inv'
  <2>1. Types' /\ Others(t)
    <3>1. /\ pc[t] \in {"ref", "next", "swap", "got"} => cur[t] \in Blocks
          /\ pc[t] \in {"drop", "load", "link", "push", "retract"} => node[t] \in Blocks
      BY DEF Inv, Locals
    <3> QED
      BY <1>1, <3>1, CountsStayNatural, TypesStep DEF Inv
  <2>2. CASE \/ Requisition(t) \/ GetNothing(t) \/ GiveBack(t) \/ GiveDone(t)
             \/ LoadHead(t) \/ ReadNext(t) \/ SwapFails(t) \/ LoadForAdd(t) \/ PushFails(t)
    BY <1>1, <2>1, <2>2, QuietSteps
  <2>3. CASE TakeFromPool(t)
    BY <2>1, <2>3, StepTakeFromPool
  <2>4. CASE Allocate(t)
    BY <2>1, <2>4, StepAllocate
  <2>5. CASE RefHead(t)
    BY <2>1, <2>5, StepRefHead
  <2>6. CASE SwapHead(t)
    BY <2>1, <2>6, StepSwapHead
  <2>7. CASE Got(t)
    BY <2>1, <2>7, StepGot
  <2>8. CASE Drop(t)
    BY <2>1, <2>8, StepDrop
  <2>9. CASE Link(t)
    BY <2>1, <2>9, StepLink
  <2>10. CASE Push(t)
    BY <2>1, <2>10, StepPush
  <2>11. CASE Retract(t)
    BY <2>1, <2>11, StepRetract
  <2>12. CASE GiveDestroy(t)
    BY <2>1, <2>12, StepGiveDestroy
  <2>13. CASE GiveOne(t)
    BY <2>1, <2>13, StepGiveOne
  <2> QED
    BY <1>1, <2>2, <2>3, <2>4, <2>5, <2>6, <2>7, <2>8, <2>9, <2>10, <2>11, <2>12, <2>13
    DEF Step, TryGet, Add
<1>2. CASE UNCHANGED vars
  <2> USE <1>2 DEF vars, listVars, chainVars
  <2>1. Types' /\ Locals' /\ Owned' /\ Linked'
    BY DEF Inv, Types, Locals, Owned, Linked, Listed, Adds, Prepares, Pushes
  <2>2. Added' /\ Counted'
    BY DEF Inv, Added, Counted, Adds, Prepares, Pushes, Holders, Holds, ListRef, Takes
  <2> QED
    BY <2>1, <2>2 DEF Inv
<1> QED
  BY <1>1, <1>2 DEF Next

LEMMA PoolInvariant == Spec => []Inv
  BY InvInit, InvStep, PTL DEF Spec

\* A block is handed to a thread only when it is nobody's, for every number of
\* threads and blocks: try_get and the initial pool never give out a block that
\* somebody has, however often the head comes back to the same block.
THEOREM HandsOnce == Spec => HandedOnce
<1> DEFINE Free(b) == owner[b] \in {"pool", "unmade", "free"}
<1>1. ASSUME Inv, [Next]_vars
      PROVE  \A b \in Blocks : owner'[b] # owner[b] /\ owner'[b] \in Threads => Free(b)
  <2>1. ASSUME NEW t \in Threads, NEW b \in Blocks, NEW c \in Blocks, Hand(t, b), Free(b),
               owner'[c] # owner[c]
        PROVE  Free(c)
    BY <1>1, <2>1 DEF Hand, Inv, Types
  <2>2. ASSUME NEW t \in Threads, TakeFromPool(t), ~UNCHANGED owner
        PROVE  \E b \in Blocks : Hand(t, b) /\ Free(b)
    <3>1. /\ poolIndex \in Nat /\ poolIndex < PoolSize /\ Hand(t, poolIndex + 1)
          /\ poolIndex + 1 \in Blocks
      BY <1>1, <2>2, PoolAssumption DEF TakeFromPool, chainVars, Inv, Types, Blocks
    <3>2. owner[poolIndex + 1] = "pool"
      BY <1>1, <3>1, PoolAssumption DEF Inv, Owned
    <3> QED
      BY <3>1, <3>2
  <2>3. ASSUME NEW t \in Threads, Allocate(t)
        PROVE  \E b \in Blocks : Hand(t, b) /\ Free(b)
    <3>1. Dynamic \subseteq Blocks
      BY PoolAssumption DEF Dynamic, Blocks
    <3> QED
      BY <2>3, <3>1 DEF Allocate
  <2>4. ASSUME NEW t \in Threads, SwapHead(t)
        PROVE  \E b \in Blocks : Hand(t, b) /\ Free(b)
    <3>1. cur[t] \in Blocks /\ head = cur[t] /\ head # NoBlock /\ Hand(t, cur[t])
      BY <1>1, <2>4, PoolAssumption DEF SwapHead, Goto, Inv, Locals, Blocks, NoBlock
    <3>2. owner[cur[t]] = "free"
      BY <1>1, <3>1 DEF Inv, Linked, Listed
    <3> QED
      BY <3>1, <3>2
  <2>5. ASSUME NEW t \in Threads, GiveDestroy(t) \/ GiveOne(t), NEW c \in Blocks,
               owner'[c] # owner[c]
        PROVE  owner'[c] \notin Threads
    BY <1>1, <2>5, OwnerNames DEF GiveDestroy, GiveOne, Inv, Types
  <2>6. ASSUME NEW t \in Threads, Step(t)
        PROVE  \/ UNCHANGED owner \/ TakeFromPool(t) \/ Allocate(t) \/ SwapHead(t)
               \/ GiveDestroy(t) \/ GiveOne(t)
    BY <2>6 DEF Step, TryGet, Add, Requisition, GetNothing, LoadHead, RefHead, ReadNext,
                SwapFails, Got, Drop, LoadForAdd, Link, Push, PushFails, Retract,
                GiveBack, GiveDone, chainVars
  <2>7. ASSUME NEW t \in Threads, Step(t), NEW c \in Blocks,
               owner'[c] # owner[c], owner'[c] \in Threads
        PROVE  Free(c)
    <3>1. \/ UNCHANGED owner
          \/ \E b \in Blocks : Hand(t, b) /\ Free(b)
      BY <2>2, <2>3, <2>4, <2>5, <2>6, <2>7
    <3> QED
      BY <2>1, <2>7, <3>1
  <2> QED
    BY <1>1, <2>7 DEF Next, vars, chainVars
<1>2. Inv /\ [Next]_vars =>
         [\A b \in Blocks :
             owner'[b] # owner[b] /\ owner'[b] \in Threads
                => owner[b] \in {"pool", "unmade", "free"}]_owner
  BY <1>1
<1> QED
  BY <1>2, PoolInvariant, PTL DEF Spec, HandedOnce

--------------------------------------------------------------------------------
(***************************************************************************)
(* That no block is lost needs three facts more: a count of the initial    *)
(* pool that is bounded by who may still take from it, a holder for every  *)
(* block that waits to be added, and a list that head leads through.       *)
(***************************************************************************)

\* A thread that tries the initial pool in vain counts once, and each of them saw a
\* pool that was not used up.
Entering == {t \in Threads : pc[t] = "take"}
Bounded == poolIndex + Cardinality(Entering) <= PoolSize + Cardinality(Threads)

\* A block that is marked and that nobody adds has a count that somebody will drop.
Marked ==
    \A b \in Blocks : should[b] /\ (\A t \in Threads : ~Adds(t, b)) => refs[b] # 0

\* head and freeListNext lead to every block on the list.
Reached ==
    \A S \in SUBSET Pointer : Closed(S) => \A b \in Blocks : Listed(b) => b \in S

More == Bounded /\ Marked /\ Reached

LEMMA EnteringFinite ==
    /\ IsFiniteSet(Entering) /\ Cardinality(Entering) \in Nat
    /\ Cardinality(Threads) \in Nat /\ Cardinality(Entering) <= Cardinality(Threads)
<1>1. Entering \subseteq Threads
  BY DEF Entering
<1> QED
  BY <1>1, PoolAssumption, FS_Subset, FS_CardinalityType

LEMMA EnteringFinitePrimed ==
    Cardinality(Entering)' \in Nat /\ Cardinality(Entering)' <= Cardinality(Threads)
<1>1. Entering' \subseteq Threads
  BY DEF Entering
<1> QED
  BY <1>1, PoolAssumption, FS_Subset, FS_CardinalityType

LEMMA BoundedStep ==
    ASSUME Inv, Bounded, NEW t \in Threads, Step(t), Others(t)
    PROVE  Bounded'
<1> USE DEF Goto
<1>0. poolIndex \in Nat /\ PoolSize \in Nat
  BY PoolAssumption DEF Inv, Types
<1>1. CASE Requisition(t)
  <2>1. UNCHANGED poolIndex
    BY <1>1 DEF Requisition
  <2>2. CASE poolIndex < PoolSize
    BY <1>0, <2>1, <2>2, EnteringFinite, EnteringFinitePrimed DEF Bounded
  <2>3. CASE ~(poolIndex < PoolSize)
    <3>1. pc[t] = "idle" /\ pc'[t] = "get"
      BY <1>0, <1>1, <2>3 DEF Requisition, Inv, Types
    <3>2. Entering' = Entering
      BY <3>1 DEF Entering, Others
    <3> QED
      BY <2>1, <3>2 DEF Bounded
  <2> QED
    BY <2>2, <2>3
<1>2. CASE TakeFromPool(t)
  <2>1. pc[t] = "take" /\ pc'[t] \in {"idle", "get"} /\ poolIndex' = poolIndex + 1
    BY <1>2 DEF TakeFromPool, Inv, Types
  <2>2. Entering' = Entering \ {t} /\ t \in Entering
    BY <2>1 DEF Entering, Others
  <2>3. Cardinality(Entering \ {t}) = Cardinality(Entering) - 1
    BY <2>2, EnteringFinite, FS_RemoveElement
  <2>4. Cardinality(Entering)' = Cardinality(Entering) - 1
    BY <2>2, <2>3
  <2> QED
    BY <1>0, <2>1, <2>4, EnteringFinite DEF Bounded
<1>3. CASE ~Requisition(t) /\ ~TakeFromPool(t)
  <2>1. UNCHANGED poolIndex /\ pc[t] # "take" /\ pc'[t] # "take"
    BY <1>3 DEF Step, TryGet, Add, Allocate, GetNothing, LoadHead, RefHead, ReadNext,
         SwapHead, SwapFails, Got, Drop, LoadForAdd, Link, Push, PushFails, Retract, After,
         GiveBack, GiveDone, GiveDestroy, GiveOne, Inv, Types
  <2>2. Entering' = Entering
    BY <2>1 DEF Entering, Others
  <2> QED
    BY <2>1, <2>2 DEF Bounded
<1> QED
  BY <1>1, <1>2, <1>3

\* What a step on block b leaves as it was for the other blocks, or adds to it.
Aside(t, b) ==
    \A c \in Blocks \ {b} :
        /\ refs'[c] = refs[c] /\ should'[c] = should[c] /\ owner'[c] = owner[c]
        /\ Adds(t, c) => Adds(t, c)'

\* A step on block b loses no mark of another, nor puts another on the list.
LEMMA AsideStep ==
    ASSUME Inv, Marked, NEW t \in Threads, NEW b \in Blocks, Others(t), Aside(t, b),
           should'[b] => Adds(t, b)' \/ refs'[b] # 0 \/ (refs'[b] = refs[b] /\ should[b]
                            /\ (Adds(t, b) => Adds(t, b)'))
    PROVE  Marked' /\ \A c \in Blocks \ {b} : Listed(c)' => Listed(c)
<1>1. \A u \in Threads \ {t} : \A c : Adds(u, c)' = Adds(u, c)
  BY OthersRoles
<1>2. \A c \in Blocks \ {b} : (\A u \in Threads : ~Adds(u, c)') => \A u \in Threads : ~Adds(u, c)
  BY <1>1 DEF Aside
<1>3. \A c \in Blocks \ {b} : should'[c] /\ (\A u \in Threads : ~Adds(u, c)') => refs'[c] # 0
  BY <1>2 DEF Aside, Marked
<1>4. should'[b] /\ (\A u \in Threads : ~Adds(u, b)') => refs'[b] # 0
  BY <1>1 DEF Marked
<1>5. \A c \in Blocks \ {b} : Listed(c)' => Listed(c)
  BY <1>2 DEF Aside, Listed
<1> QED
  BY <1>3, <1>4, <1>5 DEF Marked

\* A step that touches neither the pointers of the list nor puts a block on it.
LEMMA ReachedFrame ==
    ASSUME Reached, UNCHANGED <<head, freeNext>>, \A c \in Blocks : Listed(c)' => Listed(c)
    PROVE  Reached'
<1>1. \A S : Closed(S)' = Closed(S)
  BY DEF Closed
<1> QED
  BY <1>1 DEF Reached

LEMMA MoreQuiet ==
    ASSUME Inv, Marked, Reached, NEW t \in Threads, Others(t), UNCHANGED listVars,
           \A c \in Blocks : owner'[c] = "free" => owner[c] = "free",
           \A c \in Blocks : Adds(t, c) => Adds(t, c)'
    PROVE  Marked' /\ Reached'
<1>1. \A u \in Threads, c \in Blocks : Adds(u, c) => Adds(u, c)'
  BY OthersRoles
<1>2. Marked'
  BY <1>1 DEF Marked, listVars
<1>3. \A c \in Blocks : Listed(c)' => Listed(c)
  BY <1>1 DEF Listed, listVars
<1> QED
  BY <1>2, <1>3, ReachedFrame DEF listVars

LEMMA MoreQuietSteps ==
    ASSUME Inv, Marked, Reached, NEW t \in Threads, Others(t),
           \/ Requisition(t) \/ GetNothing(t) \/ GiveBack(t) \/ GiveDone(t)
           \/ LoadHead(t) \/ ReadNext(t) \/ SwapFails(t) \/ LoadForAdd(t) \/ PushFails(t)
           \/ TakeFromPool(t) \/ Allocate(t) \/ GiveDestroy(t)
    PROVE  Marked' /\ Reached'
<1> USE DEF Goto, Adds, Prepares, Pushes
<1>1. CASE \/ Requisition(t) \/ GetNothing(t) \/ GiveBack(t) \/ GiveDone(t)
           \/ LoadHead(t) \/ ReadNext(t) \/ SwapFails(t) \/ LoadForAdd(t) \/ PushFails(t)
  <2>1. UNCHANGED <<listVars, owner>>
    BY <1>1 DEF Requisition, GetNothing, GiveBack, GiveDone, LoadHead, ReadNext, SwapFails,
                LoadForAdd, PushFails, chainVars
  <2>2. \A c \in Blocks : Adds(t, c) => Adds(t, c)'
    BY <1>1 DEF Requisition, GetNothing, GiveBack, GiveDone, LoadHead, ReadNext, SwapFails,
                LoadForAdd, PushFails, Inv, Types
  <2> QED
    BY <2>1, <2>2, MoreQuiet
<1>2. ASSUME NEW b, Hand(t, b)
      PROVE  \A c \in Blocks : owner'[c] = "free" => owner[c] = "free"
  BY <1>2, OwnerNames DEF Hand, Inv, Types
<1>3. CASE TakeFromPool(t) \/ Allocate(t)
  <2>1. \A c \in Blocks : owner'[c] = "free" => owner[c] = "free"
    BY <1>2, <1>3 DEF TakeFromPool, Allocate, chainVars
  <2>2. UNCHANGED listVars /\ pc[t] \in {"take", "alloc"}
    BY <1>3 DEF TakeFromPool, Allocate
  <2> QED
    BY <2>1, <2>2, MoreQuiet
<1>4. CASE GiveDestroy(t)
  BY <1>4, MoreQuiet DEF GiveDestroy, Inv, Types
<1> QED
  BY <1>1, <1>3, <1>4

LEMMA MoreCountSteps ==
    ASSUME Inv, Marked, Reached, NEW t \in Threads, Others(t),
           RefHead(t) \/ Got(t) \/ Drop(t) \/ Retract(t)
    PROVE  Marked' /\ Reached'
<1> USE DEF Goto, chainVars
<1>1. ASSUME RefHead(t) PROVE Marked' /\ Reached'
  <2>1. PICK b \in Blocks : b = cur[t]
    BY <1>1 DEF RefHead, Inv, Locals
  <2>2. /\ \A c : ~Adds(t, c) /\ Aside(t, b)
        /\ UNCHANGED <<head, freeNext, should, owner>>
        /\ refs'[b] = IF refs[b] = 0 THEN 0 ELSE refs[b] + 1
    BY <1>1, <2>1 DEF RefHead, Adds, Prepares, Pushes, Aside, Inv, Types
  <2>3. Marked'
    <3>1. refs[b] \in Nat /\ should'[b] = should[b]
      BY <2>2 DEF Inv, Types
    <3> QED
      BY <2>2, <3>1, AsideStep
  <2>4. \A c \in Blocks : Listed(c)' => Listed(c)
    BY <2>2, OthersRoles DEF Listed
  <2> QED
    BY <2>2, <2>3, <2>4, ReachedFrame
<1>2. ASSUME Got(t) PROVE Marked' /\ Reached'
  <2>1. PICK b \in Blocks : b = cur[t] /\ Takes(t, b)
    BY <1>2 DEF Got, Takes, Inv, Locals
  <2>2. /\ \A c : ~Adds(t, c) /\ Aside(t, b)
        /\ UNCHANGED <<head, freeNext, should, owner>>
    BY <1>2, <2>1 DEF Got, Adds, Prepares, Pushes, Aside, Inv, Types
  <2>3. ~should[b]
    BY <2>1, Counts, OwnerNames DEF Inv, Added
  <2>4. Marked'
    BY <2>2, <2>3, AsideStep
  <2>5. \A c \in Blocks : Listed(c)' => Listed(c)
    BY <2>2, OthersRoles DEF Listed
  <2> QED
    BY <2>2, <2>4, <2>5, ReachedFrame
<1>3. ASSUME Drop(t) PROVE Marked' /\ Reached'
  <2>1. PICK b \in Blocks : b = node[t] /\ Holds(t, b)
    BY <1>3 DEF Drop, Holds, Inv, Locals
  <2>2. /\ \A c : ~Adds(t, c)
        /\ UNCHANGED <<head, freeNext, should, owner>>
        /\ refs' = [refs EXCEPT ![b] = @ - 1]
    BY <1>3, <2>1 DEF Drop, Adds, Prepares, Pushes
  <2>3. refs[b] \in Nat /\ refs[b] >= 1 /\ refs'[b] = refs[b] - 1 /\ Aside(t, b)
    BY <2>1, <2>2, Counts DEF Inv, Types, Aside
  <2>4. refs[b] = 1 /\ should[b] => Adds(t, b)'
    BY <1>3, <2>1 DEF Drop, Adds, Prepares, Inv, Types
  <2>5. Marked'
    BY <2>2, <2>3, <2>4, AsideStep
  <2>6. \A c \in Blocks : Listed(c)' => Listed(c)
    BY <2>2, OthersRoles DEF Listed
  <2> QED
    BY <2>2, <2>5, <2>6, ReachedFrame
<1>4. ASSUME Retract(t) PROVE Marked' /\ Reached'
  <2>1. PICK b \in Blocks : b = node[t] /\ Pushes(t, b)
    BY <1>4 DEF Retract, Pushes, Inv, Locals
  <2>2. /\ UNCHANGED <<head, freeNext, owner>>
        /\ refs' = [refs EXCEPT ![b] = @ - 1] /\ should' = [should EXCEPT ![b] = TRUE]
    BY <1>4, <2>1 DEF Retract
  <2>3. /\ refs[b] \in Nat /\ refs[b] >= 1 /\ refs'[b] = refs[b] - 1 /\ should'[b]
        /\ Aside(t, b)
    BY <2>1, <2>2, Counts DEF Inv, Types, Aside, Adds, Prepares, Pushes
  <2>4. refs[b] = 1 => Adds(t, b)'
    BY <1>4, <2>1 DEF Retract, Adds, Prepares, Inv, Types
  <2>5. Marked' /\ \A c \in Blocks \ {b} : Listed(c)' => Listed(c)
    BY <2>3, <2>4, AsideStep
  <2>6. \A c \in Blocks : Listed(c)' => Listed(c)
    BY <2>3, <2>5 DEF Listed
  <2> QED
    BY <2>2, <2>5, <2>6, ReachedFrame
<1> QED
  BY <1>1, <1>2, <1>3, <1>4

LEMMA MoreGiveOne ==
    ASSUME Inv, Marked, Reached, NEW t \in Threads, Others(t), GiveOne(t)
    PROVE  Marked' /\ Reached'
<1> USE DEF Goto
<1>1. PICK b \in Blocks : b = Head(chain[t])
  <2>1. chain[t] \in Seq(Blocks) /\ chain[t] # <<>>
    BY DEF GiveOne, Inv, Types
  <2> QED
    BY <2>1
<1>2. /\ UNCHANGED <<head, freeNext, refs>> /\ pc[t] = "give"
      /\ should' = [should EXCEPT ![b] = TRUE] /\ owner' = [owner EXCEPT ![b] = "free"]
  BY <1>1 DEF GiveOne
<1>3. \A c : ~Adds(t, c)
  BY <1>2 DEF Adds, Prepares, Pushes
<1>4. should'[b] /\ refs'[b] = refs[b] /\ Aside(t, b)
  BY <1>2, <1>3 DEF Inv, Types, Aside
<1>5. refs[b] = 0 => Adds(t, b)'
  BY <1>1 DEF GiveOne, Adds, Prepares, Inv, Types
<1>6. Marked' /\ \A c \in Blocks \ {b} : Listed(c)' => Listed(c)
  BY <1>4, <1>5, AsideStep
<1>7. \A c \in Blocks : Listed(c)' => Listed(c)
  BY <1>4, <1>6 DEF Listed
<1> QED
  BY <1>2, <1>6, <1>7, ReachedFrame

\* A block is linked before it is on the list, so the list is led through as before.
LEMMA MoreLink ==
    ASSUME Inv, Marked, Reached, NEW t \in Threads, Others(t), Link(t)
    PROVE  Marked' /\ Reached'
<1> USE DEF Goto, chainVars
<1>1. PICK b \in Blocks : b = node[t]
  BY DEF Link, Inv, Locals
<1>2. /\ UNCHANGED <<head, owner>> /\ pc[t] = "link" /\ pc'[t] = "push" /\ node'[t] = b
      /\ freeNext' = [freeNext EXCEPT ![b] = seen[t]]
      /\ refs' = [refs EXCEPT ![b] = 1] /\ should' = [should EXCEPT ![b] = FALSE]
  BY <1>1 DEF Link, Inv, Types
<1>3. Adds(t, b) /\ Adds(t, b)' /\ \A c \in Blocks \ {b} : ~Adds(t, c)
  BY <1>1, <1>2 DEF Adds, Prepares, Pushes
<1>4. Aside(t, b) /\ ~should'[b]
  BY <1>2, <1>3 DEF Inv, Types, Aside
<1>5. Marked' /\ \A c \in Blocks \ {b} : Listed(c)' => Listed(c)
  BY <1>4, AsideStep
<1>6. ~Listed(b) /\ ~Listed(b)' /\ \A c \in Blocks \ {b} : freeNext'[c] = freeNext[c]
  BY <1>2, <1>3 DEF Listed, Inv, Types
<1>7. ASSUME NEW S \in SUBSET Pointer, Closed(S)', NEW c \in Blocks, Listed(c)'
      PROVE  c \in S
  <2> DEFINE T == {d \in S : d = NoBlock \/ Listed(d)}
  <2>1. head \in T
    BY <1>2, <1>7 DEF Closed, Inv, Linked
  <2>2. ASSUME NEW d \in T \ {NoBlock} PROVE freeNext[d] \in T
    <3>1. Listed(d) /\ d \in Blocks \ {b} /\ d \in S
      BY <1>6, <2>2 DEF Listed
    <3>2. freeNext[d] \in S
      BY <1>6, <1>7, <2>2, <3>1 DEF Closed
    <3> QED
      BY <3>1, <3>2 DEF Inv, Linked
  <2>3. Closed(T) /\ T \in SUBSET Pointer
    BY <2>1, <2>2 DEF Closed
  <2>4. Listed(c)
    BY <1>5, <1>6, <1>7
  <2> QED
    BY <2>3, <2>4 DEF Reached
<1> QED
  BY <1>5, <1>7 DEF Reached

\* A block that is pushed leads to the one that was first.
LEMMA MorePush ==
    ASSUME Inv, Marked, Reached, NEW t \in Threads, Others(t), Push(t)
    PROVE  Marked' /\ Reached'
<1> USE DEF Goto, chainVars
<1>1. PICK b \in Blocks : b = node[t]
  BY DEF Push, Inv, Locals
<1>2. /\ UNCHANGED <<freeNext, refs, should, owner>> /\ pc[t] = "push" /\ head' = b
      /\ freeNext[b] = head
  BY <1>1 DEF Push, Inv, Linked
<1>3. Adds(t, b) /\ Pushes(t, b) /\ \A c \in Blocks \ {b} : ~Adds(t, c)
  BY <1>1, <1>2 DEF Adds, Prepares, Pushes
<1>4. Aside(t, b) /\ ~should'[b]
  BY <1>2, <1>3 DEF Inv, Added, Aside
<1>5. Marked' /\ \A c \in Blocks \ {b} : Listed(c)' => Listed(c)
  BY <1>4, AsideStep
<1>6. ASSUME NEW S \in SUBSET Pointer, Closed(S)', NEW c \in Blocks, Listed(c)'
      PROVE  c \in S
  <2>1. b \in S /\ b # NoBlock
    BY <1>2, <1>6 DEF Closed, Blocks, NoBlock
  <2>2. Closed(S)
    BY <1>2, <1>6, <2>1 DEF Closed
  <2> QED
    BY <1>5, <1>6, <2>1, <2>2 DEF Reached
<1> QED
  BY <1>5, <1>6 DEF Reached

\* A block that is taken off led to the one that is first then.
LEMMA MoreSwapHead ==
    ASSUME Inv, Marked, Reached, NEW t \in Threads, Others(t), SwapHead(t)
    PROVE  Marked' /\ Reached'
<1> USE DEF Goto
<1>1. PICK b \in Blocks : b = cur[t]
  BY DEF SwapHead, Inv, Locals
<1>2. /\ UNCHANGED <<freeNext, refs, should>> /\ pc[t] = "swap"
      /\ head = b /\ head' = freeNext[b] /\ owner' = [owner EXCEPT ![b] = t]
  BY <1>1 DEF SwapHead, Hand, Inv, Linked
<1>3. \A c : ~Adds(t, c)
  BY <1>2 DEF Adds, Prepares, Pushes
<1>4. Aside(t, b) /\ owner'[b] # "free"
  BY <1>2, <1>3, OwnerNames DEF Inv, Types, Aside
<1>5. Marked' /\ \A c \in Blocks \ {b} : Listed(c)' => Listed(c)
  BY <1>2, <1>3, <1>4, AsideStep
<1>6. ASSUME NEW S \in SUBSET Pointer, Closed(S)', NEW c \in Blocks, Listed(c)'
      PROVE  c \in S
  <2>1. Closed(S \union {b}) /\ S \union {b} \in SUBSET Pointer
    BY <1>2, <1>6 DEF Closed, Pointer
  <2>2. c # b
    BY <1>4, <1>6 DEF Listed
  <2> QED
    BY <1>5, <1>6, <2>1, <2>2 DEF Reached
<1> QED
  BY <1>5, <1>6 DEF Reached

LEMMA MoreInit == Init => More
<1> SUFFICES ASSUME Init PROVE More
  OBVIOUS
<1> USE DEF Init
<1>1. Entering = {}
  BY DEF Entering
<1>2. Bounded
  BY <1>1, PoolAssumption, FS_EmptySet, FS_CardinalityType DEF Bounded
<1>3. \A b \in Blocks : owner[b] # "free" /\ ~should[b]
  OBVIOUS
<1> QED
  BY <1>2, <1>3 DEF More, Marked, Reached, Listed

LEMMA MoreStep == Inv /\ More /\ [Next]_vars => More'
<1> SUFFICES ASSUME Inv, More, [Next]_vars PROVE More'
  OBVIOUS
<1>1. ASSUME NEW t \in Threads, Step(t) PROVE More'
  <2>1. Others(t)
    <3>1. /\ pc[t] \in {"ref", "next", "swap", "got"} => cur[t] \in Blocks
          /\ pc[t] \in {"drop", "load", "link", "push", "retract"} => node[t] \in Blocks
      BY DEF Inv, Locals
    <3> QED
      BY <1>1, <3>1, CountsStayNatural, TypesStep DEF Inv
  <2>2. Bounded'
    BY <1>1, <2>1, BoundedStep DEF More
  <2>3. Marked' /\ Reached'
    BY <1>1, <2>1, MoreQuietSteps, MoreCountSteps, MoreGiveOne, MoreLink, MorePush, MoreSwapHead
    DEF More, Step, TryGet, Add
  <2> QED
    BY <2>2, <2>3 DEF More
<1>2. CASE UNCHANGED vars
  BY <1>2 DEF vars, listVars, chainVars, More, Bounded, Entering, Marked, Reached, Closed,
              Listed, Adds, Prepares, Pushes
<1> QED
  BY <1>1, <1>2 DEF Next

\* head and freeListNext lead to exactly the blocks on the list.
LEMMA ListIsReached ==
    ASSUME Inv, Reached
    PROVE  \A b \in Blocks : b \in OnList <=> Listed(b)
<1> DEFINE S == {c \in Pointer : c = NoBlock \/ Listed(c)}
<1>1. Closed(S) /\ S \in SUBSET Pointer
  <2>1. head \in S
    BY DEF Inv, Types, Linked
  <2>2. ASSUME NEW c \in S \ {NoBlock} PROVE freeNext[c] \in S
    BY <2>2 DEF Inv, Types, Linked, Listed
  <2> QED
    BY <2>1, <2>2 DEF Closed
<1>2. \A b \in Blocks : b \in OnList => Listed(b)
  BY <1>1 DEF OnList, Blocks, NoBlock
<1>3. \A b \in Blocks : Listed(b) => b \in OnList
  BY DEF OnList, Reached
<1> QED
  BY <1>2, <1>3

LEMMA InvTakenIsWhole == Inv => TakenIsWhole
<1> SUFFICES ASSUME Inv, NEW t \in Threads, pc[t] = "got"
             PROVE  ~should[cur[t]] /\ refs[cur[t]] >= 2
  BY DEF TakenIsWhole
<1>1. PICK b \in Blocks : b = cur[t] /\ Takes(t, b)
  BY DEF Takes, Inv, Locals
<1>2. owner[b] = t /\ refs[b] >= 2
  BY <1>1, Counts
<1>3. ~should[b]
  BY <1>2, OwnerNames DEF Inv, Added
<1> QED
  BY <1>1, <1>2, <1>3

LEMMA InvTypeOK == Inv /\ Bounded => TypeOK
<1> SUFFICES ASSUME Inv, Bounded PROVE TypeOK
  OBVIOUS
<1>1. poolIndex \in 0..(PoolSize + Cardinality(Threads))
  BY PoolAssumption, EnteringFinite DEF Inv, Types, Bounded
<1>2. ASSUME NEW b \in Blocks PROVE refs[b] \in 0..(Cardinality(Threads) + 1)
  <2>1. Holders(b) \subseteq Threads
    BY DEF Holders
  <2>2. /\ Cardinality(Holders(b)) \in Nat /\ Cardinality(Threads) \in Nat
        /\ Cardinality(Holders(b)) <= Cardinality(Threads)
    BY <2>1, PoolAssumption, FS_Subset, FS_CardinalityType
  <2>3. refs[b] = Cardinality(Holders(b)) + ListRef(b) /\ ListRef(b) \in {0, 1}
    BY DEF Inv, Counted, ListRef
  <2> QED
    BY <2>2, <2>3
<1>3. refs \in [Blocks -> 0..(Cardinality(Threads) + 1)]
  BY <1>2 DEF Inv, Types
<1> QED
  BY <1>1, <1>3 DEF Inv, Types, TypeOK, Owners, Steps

LEMMA InvNoBlockLost == Inv /\ More => NoBlockLost
<1> SUFFICES ASSUME Inv, More, NEW b \in Blocks
             PROVE  LET adders == {t \in Threads : node[t] = b /\ pc[t] \in {"load", "link", "push", "retract"}}
                        holders == {t \in Threads : \/ cur[t] = b /\ pc[t] \in {"next", "swap"}
                                                    \/ node[t] = b /\ pc[t] = "drop"}
                    IN  IF owner[b] = "free"
                        THEN \/ b \in OnList /\ adders = {}
                             \/ b \notin OnList /\ Cardinality(adders) = 1
                             \/ b \notin OnList /\ adders = {} /\ should[b] /\ holders # {}
                        ELSE b \notin OnList /\ adders = {}
  BY DEF NoBlockLost
<1> DEFINE adders == {t \in Threads : node[t] = b /\ pc[t] \in {"load", "link", "push", "retract"}}
           holders == {t \in Threads : \/ cur[t] = b /\ pc[t] \in {"next", "swap"}
                                       \/ node[t] = b /\ pc[t] = "drop"}
<1>1. b \in OnList <=> Listed(b)
  BY ListIsReached DEF More
<1>2. \A t \in Threads : t \in adders <=> Adds(t, b)
  BY DEF Adds, Prepares, Pushes
<1>3. CASE owner[b] # "free"
  BY <1>1, <1>2, <1>3 DEF Listed, Inv, Added
<1>4. CASE owner[b] = "free" /\ adders # {}
  <2>1. PICK t \in Threads : t \in adders
    BY <1>4
  <2>2. adders = {t}
    BY <1>2, <2>1 DEF Inv, Added
  <2>3. Cardinality(adders) = 1
    BY <2>2, FS_Singleton
  <2> QED
    BY <1>1, <1>2, <1>4, <2>1, <2>3 DEF Listed
<1>5. CASE owner[b] = "free" /\ adders = {} /\ should[b]
  <2>1. refs[b] # 0
    BY <1>2, <1>5 DEF More, Marked
  <2>2. \A t \in Threads : ~Takes(t, b)
    BY <1>5, OwnerNames DEF Takes, Inv, Owned
  <2>3. ListRef(b) = 0
    BY <1>5, <2>2 DEF ListRef
  <2>4. Cardinality(Holders(b)) # 0
    BY <2>1, <2>3 DEF Inv, Counted
  <2>5. Holders(b) # {}
    BY <2>4, FS_EmptySet
  <2>6. PICK t \in Threads : Holds(t, b)
    BY <2>5 DEF Holders
  <2>7. t \in holders
    BY <2>2, <2>6 DEF Holds, Takes
  <2> QED
    BY <1>1, <1>5, <2>7 DEF Listed
<1>6. CASE owner[b] = "free" /\ adders = {} /\ ~should[b]
  BY <1>1, <1>2, <1>6 DEF Listed
<1> QED
  BY <1>3, <1>4, <1>5, <1>6

\* What the assertion of try_get claims of the block it has just taken.
THEOREM TakesWhole == Spec => []TakenIsWhole
  BY InvTakenIsWhole, PoolInvariant, PTL

\* For every number of threads and blocks, with or without recycling: what try_get
\* and add rely on holds; a block that was given back is on the list, or is about to
\* be added by one thread, or waits for the last holder of a reference to add it.
THEOREM KeepsBlocks == Spec => []PoolInv
<1>1. Inv /\ More => PoolInv
  BY InvTypeOK, InvTakenIsWhole, InvNoBlockLost DEF PoolInv, More
<1> QED
  BY <1>1, PoolInvariant, MoreInit, MoreStep, PTL DEF Spec
================================================================================
