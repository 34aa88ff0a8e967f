------------------------------- MODULE BlockPool -------------------------------
(***************************************************************************)
(* Where the blocks of a ConcurrentQueue come from and go back to: the     *)
(* initial pool, the lock-free FreeList with its reference counts, and the *)
(* allocator behind them.  A step is one atomic operation on shared        *)
(* memory; a load whose compare-and-swap fails only starts over, which is  *)
(* the same as being scheduled later, so the two are one step.             *)
(***************************************************************************)
EXTENDS Naturals, Sequences, FiniteSets

CONSTANTS
    Threads,
    PoolSize,   \* blocks created with the queue, 1..PoolSize
    MaxBlocks,  \* bound: blocks that ever exist
    MaxHeld,    \* bound: blocks one thread keeps
    Recycle     \* Traits::RECYCLE_ALLOCATED_BLOCKS

ASSUME PoolAssumption ==
    /\ IsFiniteSet(Threads)
    /\ PoolSize \in Nat /\ MaxBlocks \in Nat /\ PoolSize <= MaxBlocks
    /\ MaxHeld \in Nat /\ Recycle \in BOOLEAN
    /\ Threads \intersect {"pool", "unmade", "free", "gone"} = {}

Blocks == 1..MaxBlocks
NoBlock == 0
Pointer == Blocks \union {NoBlock}
Dynamic == (PoolSize + 1)..MaxBlocks

VARIABLES
    poolIndex,  \* initialBlockPoolIndex
    head,       \* freeListHead
    freeNext,   \* freeListNext of each block
    refs,       \* freeListRefs without its highest bit
    should,     \* that bit, SHOULD_BE_ON_FREELIST
    chain,      \* the blocks each thread keeps, chained by Block::next
    pc, cur, node, seen,   \* of each thread: its step and its local pointers
    giving,     \* the threads in add_blocks_to_free_list
    owner       \* history: who may use each block

listVars == <<head, freeNext, refs, should>>
chainVars == <<chain, owner>>
vars == <<poolIndex, listVars, chainVars, pc, cur, node, seen, giving>>

Init ==
    /\ poolIndex = 0
    /\ head = NoBlock
    /\ freeNext = [b \in Blocks |-> NoBlock]
    /\ refs = [b \in Blocks |-> 0]
    /\ should = [b \in Blocks |-> FALSE]
    /\ chain = [t \in Threads |-> <<>>]
    /\ pc = [t \in Threads |-> "idle"]
    /\ cur = [t \in Threads |-> NoBlock]
    /\ node = [t \in Threads |-> NoBlock]
    /\ seen = [t \in Threads |-> NoBlock]
    /\ giving = {}
    /\ owner = [b \in Blocks |-> IF b \in Dynamic THEN "unmade" ELSE "pool"]

Goto(t, from, to) == pc[t] = from /\ pc' = [pc EXCEPT ![t] = to]

--------------------------------------------------------------------------------
(* requisition_block: the initial pool, the free list, the allocator.         *)

\* The caller puts the block it got in front of the chain it builds.
Hand(t, b) ==
    /\ owner' = [owner EXCEPT ![b] = t]
    /\ chain' = [chain EXCEPT ![t] = <<b>> \o @]

Requisition(t) ==
    /\ Len(chain[t]) < MaxHeld
    /\ Goto(t, "idle", IF poolIndex >= PoolSize THEN "get" ELSE "take")
    /\ UNCHANGED <<poolIndex, listVars, chainVars, cur, node, seen, giving>>

TakeFromPool(t) ==
    /\ Goto(t, "take", IF poolIndex < PoolSize THEN "idle" ELSE "get")
    /\ poolIndex' = poolIndex + 1
    /\ IF poolIndex < PoolSize THEN Hand(t, poolIndex + 1) ELSE UNCHANGED chainVars
    /\ UNCHANGED <<listVars, cur, node, seen, giving>>

Allocate(t) ==
    /\ Goto(t, "alloc", "idle")
    /\ \E b \in Dynamic : owner[b] = "unmade" /\ Hand(t, b)
    /\ UNCHANGED <<poolIndex, listVars, cur, node, seen, giving>>

\* CannotAlloc, or the allocator has nothing left.
GetNothing(t) ==
    /\ Goto(t, "alloc", "idle")
    /\ UNCHANGED <<poolIndex, listVars, chainVars, cur, node, seen, giving>>

--------------------------------------------------------------------------------
(* FreeList::try_get.                                                         *)

LoadHead(t) ==
    /\ Goto(t, "get", IF head = NoBlock THEN "alloc" ELSE "ref")
    /\ cur' = [cur EXCEPT ![t] = head]
    /\ UNCHANGED <<poolIndex, listVars, chainVars, node, seen, giving>>

\* Faulty: a block that is off the list, its count zero, is referenced too.
RefAny(t) ==
    /\ Goto(t, "ref", "next")
    /\ refs' = [refs EXCEPT ![cur[t]] = @ + 1]
    /\ UNCHANGED <<poolIndex, head, freeNext, should, chainVars, cur, node, seen, giving>>

RefHead(t) ==
    /\ Goto(t, "ref", IF refs[cur[t]] = 0 THEN "get" ELSE "next")
    /\ refs' = [refs EXCEPT ![cur[t]] = IF @ = 0 THEN 0 ELSE @ + 1]
    /\ UNCHANGED <<poolIndex, head, freeNext, should, chainVars, cur, node, seen, giving>>

ReadNext(t) ==
    /\ Goto(t, "next", "swap")
    /\ seen' = [seen EXCEPT ![t] = freeNext[cur[t]]]
    /\ UNCHANGED <<poolIndex, listVars, chainVars, cur, node, giving>>

SwapHead(t) ==
    /\ Goto(t, "swap", "got")
    /\ head = cur[t]
    /\ head' = seen[t]
    /\ Hand(t, cur[t])
    /\ seen' = [seen EXCEPT ![t] = NoBlock]
    /\ UNCHANGED <<poolIndex, freeNext, refs, should, cur, node, giving>>

SwapFails(t) ==
    /\ Goto(t, "swap", "drop")
    /\ head # cur[t]
    /\ node' = [node EXCEPT ![t] = cur[t]]
    /\ cur' = [cur EXCEPT ![t] = head]
    /\ seen' = [seen EXCEPT ![t] = NoBlock]
    /\ UNCHANGED <<poolIndex, listVars, chainVars, giving>>

\* Our reference and the list's.
Got(t) ==
    /\ Goto(t, "got", "idle")
    /\ refs' = [refs EXCEPT ![cur[t]] = @ - 2]
    /\ cur' = [cur EXCEPT ![t] = NoBlock]
    /\ UNCHANGED <<poolIndex, head, freeNext, should, chainVars, node, seen, giving>>

\* Faulty: the reference is dropped and the block is nobody's.
DropOnly(t) ==
    /\ Goto(t, "drop", IF cur[t] = NoBlock THEN "alloc" ELSE "ref")
    /\ refs' = [refs EXCEPT ![node[t]] = @ - 1]
    /\ UNCHANGED <<poolIndex, head, freeNext, should, chainVars, cur, node, seen, giving>>

\* The last one to let go of a block that should be on the list adds it.
Drop(t) ==
    /\ Goto(t, "drop", IF refs[node[t]] = 1 /\ should[node[t]] THEN "load"
                       ELSE IF cur[t] = NoBlock THEN "alloc" ELSE "ref")
    /\ refs' = [refs EXCEPT ![node[t]] = @ - 1]
    /\ node' = [node EXCEPT ![t] = IF refs[@] = 1 /\ should[@] THEN @ ELSE NoBlock]
    /\ UNCHANGED <<poolIndex, head, freeNext, should, chainVars, cur, seen, giving>>

--------------------------------------------------------------------------------
(* FreeList::add_knowing_refcount_is_zero, entered from add and from try_get.  *)

After(t) == IF t \in giving THEN "give" ELSE IF cur[t] = NoBlock THEN "alloc" ELSE "ref"

Forget(t) == node' = [node EXCEPT ![t] = NoBlock] /\ seen' = [seen EXCEPT ![t] = NoBlock]

LoadForAdd(t) ==
    /\ Goto(t, "load", "link")
    /\ seen' = [seen EXCEPT ![t] = head]
    /\ UNCHANGED <<poolIndex, listVars, chainVars, cur, node, giving>>

\* Nobody reads freeListNext of a block whose count is zero, so the two stores
\* are one step; the second clears the highest bit.
Link(t) ==
    /\ Goto(t, "link", "push")
    /\ freeNext' = [freeNext EXCEPT ![node[t]] = seen[t]]
    /\ refs' = [refs EXCEPT ![node[t]] = 1]
    /\ should' = [should EXCEPT ![node[t]] = FALSE]
    /\ UNCHANGED <<poolIndex, head, chainVars, cur, node, seen, giving>>

Push(t) ==
    /\ Goto(t, "push", After(t))
    /\ head = seen[t]
    /\ head' = node[t]
    /\ Forget(t)
    /\ UNCHANGED <<poolIndex, freeNext, refs, should, chainVars, cur, giving>>

PushFails(t) ==
    /\ Goto(t, "push", "retract")
    /\ head # seen[t]
    /\ seen' = [seen EXCEPT ![t] = head]
    /\ UNCHANGED <<poolIndex, listVars, chainVars, cur, node, giving>>

Retract(t) ==
    /\ Goto(t, "retract", IF refs[node[t]] = 1 THEN "link" ELSE After(t))
    /\ refs' = [refs EXCEPT ![node[t]] = @ - 1]
    /\ should' = [should EXCEPT ![node[t]] = TRUE]
    /\ IF refs[node[t]] = 1 THEN UNCHANGED <<node, seen>> ELSE Forget(t)
    /\ UNCHANGED <<poolIndex, head, freeNext, chainVars, cur, giving>>

--------------------------------------------------------------------------------
(* add_blocks_to_free_list: the whole chain, one add after the other.          *)

GiveBack(t) ==
    /\ chain[t] # <<>>
    /\ Goto(t, "idle", "give")
    /\ giving' = giving \union {t}
    /\ UNCHANGED <<poolIndex, listVars, chainVars, cur, node, seen>>

GiveDone(t) ==
    /\ chain[t] = <<>>
    /\ Goto(t, "give", "idle")
    /\ giving' = giving \ {t}
    /\ UNCHANGED <<poolIndex, listVars, chainVars, cur, node, seen>>

Destroyed(b) == ~Recycle /\ b \in Dynamic

GiveDestroy(t) ==
    /\ Goto(t, "give", "give")
    /\ chain[t] # <<>> /\ Destroyed(Head(chain[t]))
    /\ owner' = [owner EXCEPT ![Head(chain[t])] = "gone"]
    /\ chain' = [chain EXCEPT ![t] = Tail(@)]
    /\ UNCHANGED <<poolIndex, listVars, cur, node, seen, giving>>

\* The bit is set; the thread adds the block if nobody holds a reference.
GiveOne(t) ==
    /\ chain[t] # <<>> /\ ~Destroyed(Head(chain[t]))
    /\ Goto(t, "give", IF refs[Head(chain[t])] = 0 THEN "load" ELSE "give")
    /\ should' = [should EXCEPT ![Head(chain[t])] = TRUE]
    /\ owner' = [owner EXCEPT ![Head(chain[t])] = "free"]
    /\ node' = [node EXCEPT ![t] = IF refs[Head(chain[t])] = 0 THEN Head(chain[t]) ELSE NoBlock]
    /\ chain' = [chain EXCEPT ![t] = Tail(@)]
    /\ UNCHANGED <<poolIndex, head, freeNext, refs, cur, seen, giving>>

--------------------------------------------------------------------------------
TryGet(t) ==
    \/ LoadHead(t) \/ RefHead(t) \/ ReadNext(t) \/ SwapHead(t) \/ SwapFails(t)
    \/ Got(t) \/ Drop(t)
Add(t) == LoadForAdd(t) \/ Link(t) \/ Push(t) \/ PushFails(t) \/ Retract(t)
Step(t) ==
    \/ Requisition(t) \/ TakeFromPool(t) \/ Allocate(t) \/ GetNothing(t)
    \/ TryGet(t) \/ Add(t)
    \/ GiveBack(t) \/ GiveDone(t) \/ GiveDestroy(t) \/ GiveOne(t)
Next == \E t \in Threads : Step(t)
Spec == Init /\ [][Next]_vars

--------------------------------------------------------------------------------
(* Properties.                                                                 *)

TypeOK ==
    /\ poolIndex \in 0..(PoolSize + Cardinality(Threads))
    /\ head \in Pointer
    /\ freeNext \in [Blocks -> Pointer]
    /\ refs \in [Blocks -> 0..(Cardinality(Threads) + 1)]
    /\ should \in [Blocks -> BOOLEAN]
    /\ chain \in [Threads -> Seq(Blocks)]
    /\ cur \in [Threads -> Pointer] /\ node \in [Threads -> Pointer]
    /\ seen \in [Threads -> Pointer]
    /\ giving \subseteq Threads
    /\ owner \in [Blocks -> Threads \union {"pool", "unmade", "free", "gone"}]
    /\ pc \in [Threads ->
          {"idle", "take", "get", "ref", "next", "swap", "got", "drop", "load",
           "link", "push", "retract", "give", "alloc"}]

\* A block is handed to a thread only when it is nobody's: two threads never get
\* the same block from try_get, from the initial pool or from one of each, however
\* their reference counts and swaps interleave (the head pointer may have gone and
\* come back in between).
HandedOnce ==
    [][\A b \in Blocks :
          owner'[b] # owner[b] /\ owner'[b] \in Threads
              => owner[b] \in {"pool", "unmade", "free"}]_owner

\* The blocks of the list, from head along freeListNext: what every set that has
\* head and is closed under freeListNext has.
Closed(S) == head \in S /\ \A b \in S \ {NoBlock} : freeNext[b] \in S
OnList == {b \in Blocks : \A S \in SUBSET Pointer : Closed(S) => b \in S}

\* The claim of the assertion in try_get and of the comments around it: a block a
\* thread just took off the list has its SHOULD_BE_ON_FREELIST bit clear, and its
\* count holds at least the reference of the thread and the one of the list.
TakenIsWhole == \A t \in Threads : pc[t] = "got" => ~should[cur[t]] /\ refs[cur[t]] >= 2

\* No block is lost or listed twice over: one that was given back is on the list,
\* or about to be added by exactly one thread, or marked for the last holder of a
\* reference to add; and nothing that a thread owns is on the list.
NoBlockLost ==
    \A b \in Blocks :
        LET adders == {t \in Threads : node[t] = b /\ pc[t] \in {"load", "link", "push", "retract"}}
            holders == {t \in Threads : \/ cur[t] = b /\ pc[t] \in {"next", "swap"}
                                        \/ node[t] = b /\ pc[t] = "drop"}
        IN  IF owner[b] = "free"
            THEN \/ b \in OnList /\ adders = {}
                 \/ b \notin OnList /\ Cardinality(adders) = 1
                 \/ b \notin OnList /\ adders = {} /\ should[b] /\ holders # {}
            ELSE b \notin OnList /\ adders = {}

\* What try_get and add rely on: the types, blocks that are taken whole, and a free
\* list that loses and doubles none.
PoolInv == TypeOK /\ TakenIsWhole /\ NoBlockLost
================================================================================
