-------------------------------- MODULE SubQueue -------------------------------
(***************************************************************************)
(* What the two kinds of producers' sub-queues share: blocks of items, the *)
(* counters of ProducerBase, the way enqueue_bulk spreads its items over   *)
(* the block it starts in and the ones it adds, and the way a consumer     *)
(* goes through the items it has claimed, block by block.                  *)
(*                                                                         *)
(* enqueue is enqueue_bulk of one item, dequeue is dequeue_bulk of one.    *)
(* Items are claimed as in ItemClaims, which DequeueClaims implements.     *)
(***************************************************************************)
EXTENDS Integers, Sequences, FiniteSets

CONSTANTS
    Consumers,
    BLOCK_SIZE,
    MaxBulk,      \* most items one call enqueues or dequeues
    MaxItems,     \* bound: items ever published
    MaxBlocks     \* bound: blocks that exist

ASSUME BlockAssumption ==
    /\ BLOCK_SIZE \in Nat \ {0, 1} /\ MaxBulk \in Nat
    /\ MaxItems \in Nat /\ MaxBlocks \in Nat

Blocks == 1..MaxBlocks
Null == 0
Nothing == -1

VARIABLES
    tailIndex, headIndex,
    step,        \* where the producer is
    count,       \* the items of its call
    needed,      \* blocks still to be found for them
    base,        \* currentTailIndex of the block found last
    tailBlock, startBlock, firstAllocated,
    next,        \* per block: the one that follows
    content,     \* per block and offset: the item constructed there, or Nothing
    where,       \* where each consumer is with the items it has claimed
    index, end   \* these items: index .. end - 1

Claims == INSTANCE ItemClaims
claimVars == <<tailIndex, headIndex>>
callVars == <<count, needed, base, startBlock, firstAllocated>>
subVars == <<claimVars, step, callVars, tailBlock, next, content, where, index, end>>

Offsets == 0..(BLOCK_SIZE - 1)
BlockOf(i) == i \div BLOCK_SIZE      \* floor: BlockOf(-1) = -1
OffsetsOf(items) == {i % BLOCK_SIZE : i \in items}

SubInit ==
    /\ Claims!Init
    /\ step = "idle" /\ count = 0 /\ needed = 0 /\ base = 0
    /\ tailBlock = Null /\ startBlock = Null /\ firstAllocated = Null
    /\ next = [b \in Blocks |-> Null]
    /\ content = [b \in Blocks |-> [o \in Offsets |-> Nothing]]
    /\ where = [c \in Consumers |-> "none"]
    /\ index = [c \in Consumers |-> 0] /\ end = [c \in Consumers |-> 0]

--------------------------------------------------------------------------------
(* The producer.                                                               *)

BeginCall(n, first) ==
    /\ step = "idle" /\ tailIndex + n <= MaxItems
    /\ step' = first
    /\ count' = n
    /\ needed' = BlockOf(tailIndex + n - 1) - BlockOf(tailIndex - 1)
    /\ base' = BlockOf(tailIndex - 1) * BLOCK_SIZE
    /\ startBlock' = tailBlock /\ firstAllocated' = Null
    /\ UNCHANGED <<claimVars, tailBlock, next, content, where, index, end>>

\* Block b is the next of the call's blocks.
FoundBlock(b) ==
    /\ base' = base + BLOCK_SIZE
    /\ needed' = needed - 1
    /\ tailBlock' = b
    /\ firstAllocated' = IF firstAllocated = Null THEN b ELSE firstAllocated

\* The locals of a call, which mean nothing after it, are cleared.
EndCall ==
    /\ step' = "idle"
    /\ count' = 0 /\ needed' = 0 /\ base' = 0 /\ startBlock' = Null /\ firstAllocated' = Null

\* The blocks found so far, in order: firstAllocated and those that follow it.
Path(first, following, n) ==
    LET path[k \in 1..n] == IF k = 1 THEN first ELSE following[path[k - 1]]
    IN  path
Found == BlockOf(base) - BlockOf(tailIndex - 1)
CallBlocks == Path(firstAllocated, next, Found)

\* Where the call puts item i.
Target(i) ==
    LET k == BlockOf(i) - BlockOf(tailIndex - 1)
    IN  IF k = 0 THEN startBlock ELSE CallBlocks[k]
NewItems == tailIndex..(tailIndex + count - 1)

\* "try": with a constructor that may throw.
ConstructItems ==
    /\ step \in {"fill", "try"}
    /\ step' = "publish"
    /\ content' = [b \in Blocks |-> [o \in Offsets |->
           IF \E i \in NewItems : Target(i) = b /\ i % BLOCK_SIZE = o
           THEN CHOOSE i \in NewItems : Target(i) = b /\ i % BLOCK_SIZE = o
           ELSE content[b][o]]]
    /\ UNCHANGED <<claimVars, callVars, tailBlock, next, where, index, end>>

PublishItems ==
    /\ step = "publish"
    /\ Claims!Publish(count)
    /\ EndCall
    /\ UNCHANGED <<tailBlock, content, where, index, end>>

--------------------------------------------------------------------------------
(* The consumers.                                                              *)

Step(c, from, to) == where[c] = from /\ where' = [where EXCEPT ![c] = to]

ClaimItems(c) ==
    /\ Step(c, "none", "index")
    /\ \E n \in 1..MaxBulk :
          /\ Claims!Claim(n)
          /\ end' = [end EXCEPT ![c] = headIndex + n]
    /\ index' = [index EXCEPT ![c] = headIndex]
    /\ UNCHANGED <<step, callVars, tailBlock, next, content>>

\* Of the items still to be read, those in the block of the first.
Batch(c) == {i \in index[c]..(end[c] - 1) : BlockOf(i) = BlockOf(index[c])}

\* The items are moved out of block b and destroyed.
TakeOut(c, b) ==
    content' = [content EXCEPT ![b] =
        [o \in Offsets |-> IF o \in OffsetsOf(Batch(c)) THEN Nothing ELSE @[o]]]

BatchEnd(c) == index[c] + Cardinality(Batch(c))
LastBatch(c) == BatchEnd(c) = end[c]

\* To the next batch, or the end of the call.
NextBatch(c) ==
    /\ index' = [index EXCEPT ![c] = IF LastBatch(c) THEN 0 ELSE BatchEnd(c)]
    /\ end' = [end EXCEPT ![c] = IF LastBatch(c) THEN 0 ELSE @]

--------------------------------------------------------------------------------
AtRest == step = "idle" /\ \A c \in Consumers : where[c] = "none"
Constructed == {p \in Blocks \X Offsets : content[p[1]][p[2]] # Nothing}

SubTypeOK ==
    /\ tailIndex \in 0..MaxItems /\ headIndex \in 0..MaxItems
    /\ {tailBlock, startBlock, firstAllocated} \subseteq Blocks \union {Null}
    /\ next \in [Blocks -> Blocks \union {Null}]
    /\ content \in [Blocks -> [Offsets -> -1..(MaxItems - 1)]]
    /\ index \in [Consumers -> 0..MaxItems] /\ end \in [Consumers -> 0..MaxItems]
================================================================================
