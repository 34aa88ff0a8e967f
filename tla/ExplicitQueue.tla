----------------------------- MODULE ExplicitQueue -----------------------------
(***************************************************************************)
(* ExplicitProducer: the sub-queue of a producer that holds a token.  Its  *)
(* blocks form a circle that only the producer walks; consumers find the   *)
(* block of an item through the block index, a ring of (base, block)       *)
(* entries that the producer extends, overwrites and, when it is full,     *)
(* replaces by one twice as large.  A block is empty when its flags are    *)
(* all set.                                                                *)
(***************************************************************************)
EXTENDS SubQueue

CONSTANTS
    EXPLICIT_INITIAL_INDEX_SIZE,
    KeepsBlocks   \* whether a call may fail when it has found blocks for its items

ASSUME ExplicitAssumption ==
    EXPLICIT_INITIAL_INDEX_SIZE \in Nat \ {0} /\ KeepsBlocks \in BOOLEAN

VARIABLES
    originalFront, originalUsed,
    slotsUsed, prFront,   \* pr_blockIndexSlotsUsed, pr_blockIndexFront (the next slot)
    indices,     \* the block indices made so far; the last is blockIndex
    flags,       \* per block: the empty flags set
    owned,       \* blocks in the circle
    local, front, slot,  \* per consumer: its localBlockIndex, localBlockIndexHead,
    block                \* indexIndex, and the block it reads from

ringVars == <<slotsUsed, prFront, indices>>
readVars == <<local, front, slot, block>>
vars == <<subVars, originalFront, originalUsed, ringVars, flags, owned, readVars>>

current == indices[Len(indices)]
NoEntry == [base |-> 0, block |-> Null]

Init ==
    /\ SubInit
    /\ originalFront = 0 /\ originalUsed = 0 /\ slotsUsed = 0 /\ prFront = 0
    /\ indices = <<[size |-> EXPLICIT_INITIAL_INDEX_SIZE, front |-> -1,
                    entries |-> [i \in 0..(EXPLICIT_INITIAL_INDEX_SIZE - 1) |-> NoEntry]]>>
    /\ flags = [b \in Blocks |-> {}] /\ owned = {}
    /\ local = [c \in Consumers |-> 0] /\ front = [c \in Consumers |-> 0]
    /\ slot = [c \in Consumers |-> 0] /\ block = [c \in Consumers |-> Null]

is_empty(b) == flags[b] = Offsets
set_all_empty(b) == [flags EXCEPT ![b] = Offsets]
reset_empty(S) == [b \in Blocks |-> IF b \in S THEN {} ELSE flags[b]]
set_empty(b, items) == [flags EXCEPT ![b] = @ \union OffsetsOf(items)]

--------------------------------------------------------------------------------
(* enqueue, enqueue_bulk.                                                      *)

Enqueue(n) ==
    /\ BeginCall(n, "reuse")
    /\ originalFront' = prFront /\ originalUsed' = slotsUsed
    /\ UNCHANGED <<ringVars, flags, owned, readVars>>

\* The entry of the block found is written at the next slot of the ring.
WriteEntry(b) ==
    /\ FoundBlock(b)
    /\ indices' = [indices EXCEPT ![Len(indices)].entries[prFront] =
                      [base |-> base + BLOCK_SIZE, block |-> b]]
    /\ prFront' = (prFront + 1) % current.size
    /\ UNCHANGED <<claimVars, step, count, startBlock, content, where, index, end,
                   originalFront, originalUsed, readVars>>

BlockAhead == needed > 0 /\ tailBlock # Null /\ next[tailBlock] # firstAllocated

Reuse ==
    /\ step = "reuse" /\ BlockAhead
    /\ WriteEntry(next[tailBlock])
    /\ UNCHANGED <<next, slotsUsed, flags, owned>>

\* Faulty: the block ahead is taken although an item in it is still being dequeued.
ReuseNonEmpty == Reuse /\ flags[next[tailBlock]] # {}

ReuseBlock == Reuse /\ is_empty(next[tailBlock])

NoReuse ==
    /\ step = "reuse" /\ ~(BlockAhead /\ is_empty(next[tailBlock]))
    /\ step' = IF needed = 0 /\ firstAllocated = Null THEN "try" ELSE "alloc"
    /\ UNCHANGED <<claimVars, callVars, tailBlock, next, content, where, index, end,
                   originalFront, originalUsed, ringVars, flags, owned, readVars>>

\* new_block_index: the used entries are copied to a ring of twice the size, which
\* exposes those of the calls before this one.
CopyIndex(oldest) ==
    /\ step = "alloc" /\ needed > 0 /\ slotsUsed = current.size
    /\ indices' = Append(indices,
          [size |-> 2 * current.size, front |-> originalUsed - 1,
           entries |-> [i \in 0..(2 * current.size - 1) |->
               IF i < slotsUsed THEN current.entries[(oldest + i) % current.size] ELSE NoEntry]])
    /\ prFront' = slotsUsed
    /\ originalFront' = originalUsed
    /\ UNCHANGED <<subVars, originalUsed, slotsUsed, flags, owned, readVars>>

\* Faulty: the entries are copied from the start of the array, not of the ring.
GrowUnrotated == CopyIndex(0)

GrowIndex == CopyIndex(prFront - slotsUsed)

\* requisition_block, and its insertion after the tail block, marked empty.
AddBlock ==
    /\ step = "alloc" /\ needed > 0
    /\ Blocks \ owned # {}
    /\ LET b == CHOOSE b \in Blocks \ owned : TRUE
       IN  /\ WriteEntry(b)
           /\ next' = IF tailBlock = Null THEN [next EXCEPT ![b] = b]
                      ELSE [next EXCEPT ![b] = next[tailBlock], ![tailBlock] = b]
           /\ flags' = set_all_empty(b)
           /\ owned' = owned \union {b}
    /\ slotsUsed' = slotsUsed + 1

AllocBlock == slotsUsed < current.size /\ AddBlock

\* The call is undone; blocks it has added to the circle stay there.
Undo ==
    /\ KeepsBlocks \/ firstAllocated = Null
    /\ prFront' = originalFront
    /\ slotsUsed' = originalUsed
    /\ tailBlock' = IF startBlock = Null THEN firstAllocated ELSE startBlock
    /\ EndCall
    /\ originalFront' = 0 /\ originalUsed' = 0
    /\ UNCHANGED <<claimVars, next, content, where, index, end, indices, flags, owned, readVars>>

\* No memory, or none may be allocated.
NoBlock == step = "alloc" /\ needed > 0 /\ Undo

\* The constructor of an item throws: the items made so far are destroyed.
Throw == step = "try" /\ Undo

StoreFront == indices' = [indices EXCEPT ![Len(indices)].front = (prFront - 1) % current.size]

\* The allocations succeeded: the blocks are marked full and, if the constructor
\* cannot throw, the new front is stored; otherwise once the items are constructed.
Expose ==
    /\ step = "alloc" /\ needed = 0
    /\ \/ step' = "fill" /\ StoreFront
       \/ step' = "try" /\ UNCHANGED indices
    /\ flags' = reset_empty({CallBlocks[k] : k \in DOMAIN CallBlocks})
    /\ UNCHANGED <<claimVars, callVars, tailBlock, next, content, where, index, end,
                   originalFront, originalUsed, slotsUsed, prFront, owned, readVars>>

Fill ==
    /\ ConstructItems
    /\ UNCHANGED <<originalFront, originalUsed, ringVars, flags, owned, readVars>>

Publish ==
    /\ PublishItems
    /\ IF firstAllocated = Null THEN UNCHANGED indices ELSE StoreFront
    /\ originalFront' = 0 /\ originalUsed' = 0
    /\ UNCHANGED <<next, slotsUsed, prFront, flags, owned, readVars>>

Produce == ReuseBlock \/ NoReuse \/ GrowIndex \/ AllocBlock \/ NoBlock \/ Expose
           \/ Fill \/ Throw \/ Publish

--------------------------------------------------------------------------------
(* dequeue, dequeue_bulk.                                                      *)

ConsumerOnly ==
    UNCHANGED <<claimVars, step, callVars, tailBlock, next, originalFront, originalUsed,
                ringVars, owned>>

Dequeue(c) ==
    /\ ClaimItems(c)
    /\ UNCHANGED <<originalFront, originalUsed, ringVars, flags, owned, readVars>>

LoadIndex(c) ==
    /\ Step(c, "index", "front")
    /\ local' = [local EXCEPT ![c] = Len(indices)]
    /\ UNCHANGED <<content, index, end, flags, front, slot, block>> /\ ConsumerOnly

LoadFront(c) ==
    /\ Step(c, "front", "locate")
    /\ front' = [front EXCEPT ![c] = indices[local[c]].front]
    /\ UNCHANGED <<content, index, end, flags, local, slot, block>> /\ ConsumerOnly

\* The slot of the first item's block, counted from the entry at the front.
Locate(c) ==
    /\ Step(c, "locate", "read")
    /\ LET header == indices[local[c]]
           offset == BlockOf(index[c]) - BlockOf(header.entries[front[c]].base)
       IN  slot' = [slot EXCEPT ![c] = (front[c] + offset) % header.size]
    /\ UNCHANGED <<content, index, end, flags, local, front, block>> /\ ConsumerOnly

BlockToRead(c) == indices[local[c]].entries[slot[c]].block

Read(c) ==
    /\ Step(c, "read", "mark")
    /\ block' = [block EXCEPT ![c] = BlockToRead(c)]
    /\ TakeOut(c, BlockToRead(c))
    /\ UNCHANGED <<index, end, flags, local, front, slot>> /\ ConsumerOnly

\* set_empty, set_many_empty.
Mark(c) ==
    LET Keep(f, kept) == [f EXCEPT ![c] = IF LastBatch(c) THEN 0 ELSE kept]
    IN  /\ Step(c, "mark", IF LastBatch(c) THEN "none" ELSE "read")
        /\ flags' = set_empty(block[c], Batch(c))
        /\ NextBatch(c)
        /\ slot' = Keep(slot, (slot[c] + 1) % indices[local[c]].size)
        /\ local' = Keep(local, local[c]) /\ front' = Keep(front, front[c])
        /\ block' = [block EXCEPT ![c] = Null]
        /\ UNCHANGED content /\ ConsumerOnly

Consume(c) == Dequeue(c) \/ LoadIndex(c) \/ LoadFront(c) \/ Locate(c) \/ Read(c) \/ Mark(c)

Next ==
    \/ \E n \in 1..MaxBulk : Enqueue(n)
    \/ Produce
    \/ \E c \in Consumers : Consume(c)
Spec == Init /\ [][Next]_vars

--------------------------------------------------------------------------------
(* The destructor, which runs when no operation does.                          *)

\* The slot where its search from the oldest entry for the block of the head ends.
HeadSlot ==
    LET At(k) == (prFront - slotsUsed + k) % current.size
        found == {k \in 0..(current.size - 1) :
                     headIndex <= current.entries[At(k)].base + BLOCK_SIZE}
    IN  At(CHOOSE k \in found : \A l \in found : k <= l)
halfDequeued ==
    IF headIndex % BLOCK_SIZE = 0 THEN Null ELSE current.entries[HeadSlot].block

Destructed ==
    {p \in owned \X Offsets :
        /\ ~is_empty(p[1])
        /\ p[1] = halfDequeued => p[2] >= headIndex % BLOCK_SIZE
        /\ p[1] = tailBlock /\ tailIndex % BLOCK_SIZE # 0 => p[2] < tailIndex % BLOCK_SIZE}

--------------------------------------------------------------------------------
(* Properties.                                                                 *)

TypeOK ==
    /\ SubTypeOK
    /\ step \in {"idle", "reuse", "alloc", "fill", "try", "publish"}
    /\ slotsUsed \in 0..current.size /\ prFront \in 0..(current.size - 1)
    /\ flags \in [Blocks -> SUBSET Offsets]
    /\ where \in [Consumers -> {"none", "index", "front", "locate", "read", "mark"}]

\* A consumer about to read its items finds each of them in the block that the index
\* gives it, however the ring was overwritten or replaced since it loaded it.
FindsItsItems ==
    \A c \in Consumers : where[c] = "read" =>
        /\ BlockToRead(c) \in owned
        /\ \A i \in Batch(c) : content[BlockToRead(c)][i % BLOCK_SIZE] = i

\* No item is constructed over one that has not been read, and none in a block that
\* a consumer has still to mark empty.
FillsFreeSlots ==
    step \in {"fill", "try"} => \A i \in NewItems :
        /\ content[Target(i)][i % BLOCK_SIZE] = Nothing
        /\ \A c \in Consumers : where[c] = "mark" /\ block[c] = Target(i)
                => i % BLOCK_SIZE \notin OffsetsOf(Batch(c))

\* The destructor destroys the items left, each once, and no memory without an item.
DestroysWhatIsLeft == AtRest => Destructed = Constructed

\* What the queue relies on between the steps of its calls: the types, free slots to
\* construct items in, a destructor that finds the items left and no others.
ExplicitInv == TypeOK /\ FillsFreeSlots /\ DestroysWhatIsLeft
================================================================================
