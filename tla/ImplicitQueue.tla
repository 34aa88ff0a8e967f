----------------------------- MODULE ImplicitQueue -----------------------------
(***************************************************************************)
(* ImplicitProducer: the sub-queue of a thread that enqueues without a     *)
(* token.  A block belongs to it only while it holds items: the consumer   *)
(* that empties a block removes it from the block index and puts it on the *)
(* free list.  The index is a ring of entries, each a key (the base of a   *)
(* block) and a value (the block); a larger index holds the same entries   *)
(* and as many new ones.                                                   *)
(***************************************************************************)
EXTENDS SubQueue

CONSTANTS
    IMPLICIT_INITIAL_INDEX_SIZE,
    MaxGrowth     \* bound: how often the index is doubled

ASSUME ImplicitAssumption ==
    IMPLICIT_INITIAL_INDEX_SIZE \in Nat \ {0} /\ MaxGrowth \in Nat

INVALID_BLOCK_BASE == 1

VARIABLES
    headers,     \* the block indices made so far; the last is blockIndex
    key, value,  \* per entry: its base and its block
    free,        \* blocks not in use: the free list, and memory not yet allocated
    dequeued,    \* per block: elementsCompletelyDequeued
    undo,        \* blocks a failing call has still to take out of the index
    local, tail, slot,   \* per consumer: its localBlockIndex, the tail it loaded,
    block                \* its place in the index, and the block it reads from

readVars == <<local, tail, slot, block>>
vars == <<subVars, headers, key, value, free, dequeued, undo, readVars>>

current == headers[Len(headers)]
Entries == 1..Len(key)

\* new_block_index: the old entries, oldest first, then as many new ones.
Header(capacity, entries, newTail) ==
    [capacity |-> capacity, tail |-> newTail, index |-> entries]

Init ==
    /\ SubInit
    /\ LET n == IMPLICIT_INITIAL_INDEX_SIZE
       IN  /\ headers = <<Header(n, [i \in 0..(n - 1) |-> i + 1], n - 1)>>
           /\ key = [e \in 1..n |-> INVALID_BLOCK_BASE]
           /\ value = [e \in 1..n |-> Null]
    /\ free = Blocks
    /\ dequeued = [b \in Blocks |-> 0]
    /\ undo = <<>>
    /\ local = [c \in Consumers |-> 0] /\ tail = [c \in Consumers |-> 0]
    /\ slot = [c \in Consumers |-> 0] /\ block = [c \in Consumers |-> Null]

--------------------------------------------------------------------------------
(* enqueue, enqueue_bulk.                                                      *)

Enqueue(n) ==
    /\ BeginCall(n, "insert")
    /\ UNCHANGED <<headers, key, value, free, dequeued, undo, readVars>>

ProducerOnly == UNCHANGED <<claimVars, content, where, index, end, readVars>>

NewTail == (current.tail + 1) % current.capacity
NewEntry == current.index[NewTail]
RoomInIndex == key[NewEntry] = INVALID_BLOCK_BASE \/ value[NewEntry] = Null
WithTail(t) == [headers EXCEPT ![Len(headers)].tail = t]

Insert ==
    /\ step = "insert" /\ needed > 0
    /\ key' = [key EXCEPT ![NewEntry] = base + BLOCK_SIZE]
    /\ headers' = WithTail(NewTail)
    /\ step' = "block"
    /\ UNCHANGED <<callVars, tailBlock, next, value, free, dequeued, undo>> /\ ProducerOnly

\* Faulty: the next entry is taken although its block is still in use.
InsertOver == Insert

\* insert_block_index_entry, with room in the index.
InsertEntry == RoomInIndex /\ Insert

\* new_block_index: the ring is copied from its oldest entry to one of twice the size.
GrowIndex ==
    LET n == current.capacity
        oldest == current.tail + 1
    IN  /\ step = "insert" /\ needed > 0 /\ ~RoomInIndex
        /\ Len(headers) <= MaxGrowth
        /\ headers' = Append(headers, Header(2 * n,
               [i \in 0..(2 * n - 1) |-> IF i < n THEN current.index[(oldest + i) % n]
                                         ELSE Len(key) + 1 + i - n], n - 1))
        /\ key' = key \o [i \in 1..n |-> INVALID_BLOCK_BASE]
        /\ value' = value \o [i \in 1..n |-> Null]
        /\ UNCHANGED <<step, callVars, tailBlock, next, free, dequeued, undo>> /\ ProducerOnly

\* requisition_block; the block enters the index and the chain of this call.
AddBlock ==
    /\ step = "block"
    /\ \E b \in free :
          /\ \A a \in free : b <= a
          /\ FoundBlock(b)
          /\ free' = free \ {b}
          /\ dequeued' = [dequeued EXCEPT ![b] = 0]
          /\ value' = [value EXCEPT ![current.index[current.tail]] = b]
          /\ next' = IF tailIndex % BLOCK_SIZE # 0 \/ firstAllocated # Null
                     THEN [next EXCEPT ![b] = Null, ![tailBlock] = b]
                     ELSE [next EXCEPT ![b] = Null]
    /\ step' = "insert"
    /\ UNCHANGED <<count, startBlock, headers, key, undo>> /\ ProducerOnly

\* The call fails and takes its blocks out of the index: for want of room in the
\* index, of a block, or because the constructor of an item throws.
Chain == [k \in DOMAIN CallBlocks |-> CallBlocks[k]]

BeginUndo ==
    /\ undo' = Chain
    /\ tailBlock' = startBlock
    /\ step' = "undo"
    /\ UNCHANGED <<callVars, next, key, value, free, dequeued>> /\ ProducerOnly

NoIndex == step = "insert" /\ needed > 0 /\ ~RoomInIndex /\ BeginUndo /\ UNCHANGED headers

Rewound == WithTail((current.tail - 1) % current.capacity)

NoBlock ==
    /\ step = "block"
    /\ BeginUndo
    /\ headers' = Rewound

Throw == step = "fill" /\ BeginUndo /\ UNCHANGED headers

\* get_block_index_entry_for_index of the base of the k-th block of the call.
EntryOf(i) ==
    LET tailBase == key[current.index[current.tail]]
    IN  current.index[(current.tail + BlockOf(i) - BlockOf(tailBase)) % current.capacity]
UndoBase == (BlockOf(tailIndex - 1) + 1 + Len(Chain) - Len(undo)) * BLOCK_SIZE

UndoOne ==
    /\ step = "undo" /\ undo # <<>>
    /\ value' = [value EXCEPT ![EntryOf(UndoBase)] = Null]
    /\ headers' = Rewound
    /\ undo' = Tail(undo)
    /\ UNCHANGED <<step, callVars, tailBlock, next, key, free, dequeued>> /\ ProducerOnly

\* The chain of a call's blocks is not followed after it.
Unchain == next' = [b \in Blocks |-> Null]

EndUndo ==
    /\ step = "undo" /\ undo = <<>>
    /\ EndCall
    /\ free' = free \union {CallBlocks[k] : k \in DOMAIN CallBlocks}
    /\ Unchain
    /\ UNCHANGED <<tailBlock, headers, key, value, dequeued, undo>> /\ ProducerOnly

Allocated ==
    /\ step = "insert" /\ needed = 0
    /\ step' = "fill"
    /\ UNCHANGED <<callVars, tailBlock, next, headers, key, value, free, dequeued, undo>>
    /\ ProducerOnly

Fill ==
    /\ ConstructItems
    /\ UNCHANGED <<headers, key, value, free, dequeued, undo, readVars>>

Publish ==
    /\ PublishItems
    /\ Unchain
    /\ UNCHANGED <<headers, key, value, free, dequeued, undo, readVars>>

Produce == InsertEntry \/ GrowIndex \/ AddBlock \/ NoIndex \/ NoBlock \/ Throw
           \/ UndoOne \/ EndUndo \/ Allocated \/ Fill \/ Publish

--------------------------------------------------------------------------------
(* dequeue, dequeue_bulk.                                                      *)

ConsumerOnly ==
    UNCHANGED <<claimVars, step, callVars, tailBlock, next, headers, key, undo>>

Dequeue(c) ==
    /\ ClaimItems(c)
    /\ UNCHANGED <<headers, key, value, free, dequeued, undo, readVars>>

\* get_block_index_index_for_index: the index, its tail, the base at the tail.
LoadIndex(c) ==
    /\ Step(c, "index", "tail")
    /\ local' = [local EXCEPT ![c] = Len(headers)]
    /\ UNCHANGED <<content, index, end, value, free, dequeued, tail, slot, block>>
    /\ ConsumerOnly

LoadTail(c) ==
    /\ Step(c, "tail", "locate")
    /\ tail' = [tail EXCEPT ![c] = headers[local[c]].tail]
    /\ UNCHANGED <<content, index, end, value, free, dequeued, local, slot, block>>
    /\ ConsumerOnly

Locate(c) ==
    /\ Step(c, "locate", "read")
    /\ LET header == headers[local[c]]
           tailBase == key[header.index[tail[c]]]
           offset == BlockOf(index[c]) - BlockOf(tailBase)
       IN  slot' = [slot EXCEPT ![c] = (tail[c] + offset) % header.capacity]
    /\ UNCHANGED <<content, index, end, value, free, dequeued, local, tail, block>>
    /\ ConsumerOnly

EntryToRead(c) == headers[local[c]].index[slot[c]]
BlockToRead(c) == value[EntryToRead(c)]

Read(c) ==
    /\ Step(c, "read", "mark")
    /\ block' = [block EXCEPT ![c] = BlockToRead(c)]
    /\ TakeOut(c, BlockToRead(c))
    /\ UNCHANGED <<index, end, value, free, dequeued, local, tail, slot>> /\ ConsumerOnly

Advance(c) ==
    LET Keep(f, kept) == [f EXCEPT ![c] = IF LastBatch(c) THEN 0 ELSE kept]
    IN  /\ NextBatch(c)
        /\ slot' = Keep(slot, (slot[c] + 1) % headers[local[c]].capacity)
        /\ local' = Keep(local, local[c]) /\ tail' = Keep(tail, tail[c])
        /\ block' = [block EXCEPT ![c] = Null]
AfterBatch(c) == IF LastBatch(c) THEN "none" ELSE "read"

MarkWhen(c, emptied) ==
    /\ Step(c, "mark", IF emptied THEN "remove" ELSE AfterBatch(c))
    /\ dequeued' = [dequeued EXCEPT ![block[c]] = @ + Cardinality(Batch(c))]
    /\ IF emptied THEN UNCHANGED <<index, end, readVars>> ELSE Advance(c)
    /\ UNCHANGED <<content, value, free>> /\ ConsumerOnly

\* Faulty: the consumer of a block's last item removes it.
MarkLast(c) == MarkWhen(c, BLOCK_SIZE - 1 \in OffsetsOf(Batch(c)))

\* set_empty, set_many_empty: the consumer that empties a block removes it.
Mark(c) == MarkWhen(c, dequeued[block[c]] + Cardinality(Batch(c)) = BLOCK_SIZE)

Remove(c) ==
    /\ Step(c, "remove", "free")
    /\ value' = [value EXCEPT ![EntryToRead(c)] = Null]
    /\ UNCHANGED <<content, index, end, free, dequeued, readVars>> /\ ConsumerOnly

FreeBlock(c) ==
    /\ Step(c, "free", AfterBatch(c))
    /\ free' = free \union {block[c]}
    /\ Advance(c)
    /\ UNCHANGED <<content, value, dequeued>> /\ ConsumerOnly

Consume(c) == Dequeue(c) \/ LoadIndex(c) \/ LoadTail(c) \/ Locate(c) \/ Read(c)
              \/ Mark(c) \/ Remove(c) \/ FreeBlock(c)

Next ==
    \/ \E n \in 1..MaxBulk : Enqueue(n)
    \/ Produce
    \/ \E c \in Consumers : Consume(c)
Spec == Init /\ [][Next]_vars

--------------------------------------------------------------------------------
(* The destructor, which runs when no operation does: it walks from head to    *)
(* tail, freeing each block it leaves, then the tail block.                    *)

Left == headIndex..(tailIndex - 1)
BlockAt(i) == value[EntryOf(i)]
Destructed == {<<BlockAt(i), i % BLOCK_SIZE>> : i \in Left}

TailFreed ==
    IF tailBlock # Null /\ (Left # {} \/ tailIndex % BLOCK_SIZE # 0) THEN {tailBlock} ELSE {}
LeftBehind == {BlockAt(i) : i \in {i \in Left : BlockOf(i) # BlockOf(tailIndex - 1)}}

Freed == LeftBehind \union TailFreed

--------------------------------------------------------------------------------
(* Properties.                                                                 *)

TypeOK ==
    /\ SubTypeOK
    /\ step \in {"idle", "insert", "block", "undo", "fill", "publish"}
    /\ DOMAIN value = Entries /\ \A e \in Entries : value[e] \in Blocks \union {Null}
    /\ current.tail \in 0..(current.capacity - 1)
    /\ free \subseteq Blocks
    /\ dequeued \in [Blocks -> 0..BLOCK_SIZE]
    /\ where \in [Consumers ->
          {"none", "index", "tail", "locate", "read", "mark", "remove", "free"}]

\* A consumer about to read its items finds each of them in the block that the index
\* gives it: the index may have been rewound, wrapped around or replaced since it
\* loaded it, and other consumers may have removed blocks.
FindsItsItems ==
    \A c \in Consumers : where[c] = "read" =>
        /\ BlockToRead(c) \in Blocks \ free
        /\ \A i \in Batch(c) : content[BlockToRead(c)][i % BLOCK_SIZE] = i

\* No item is constructed over another, or in a block that has gone to the free list.
FillsOwnBlocks ==
    step = "fill" => \A i \in NewItems :
        Target(i) \in Blocks \ free /\ content[Target(i)][i % BLOCK_SIZE] = Nothing

\* When nothing is under way, every block in use is found by the destructor, which
\* frees each of them and destroys exactly the items left: neither a failed call nor
\* the consumers leave a block that is nowhere, or one that is freed twice.
DestructorExact ==
    AtRest => Destructed = Constructed /\ Freed = Blocks \ free

\* What the queue relies on between the steps of its calls: the types, whole blocks to
\* construct items in, a destructor that finds them all.
ImplicitInv == TypeOK /\ FillsOwnBlocks /\ DestructorExact
================================================================================
